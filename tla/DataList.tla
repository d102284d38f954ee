------------------------------ MODULE DataList ------------------------------
(***************************************************************************)
(* What the linked list promises: a sequence of data.  A datum is inserted  *)
(* at one place, removed from one place, and everything else keeps its      *)
(* order; sorting rearranges by key; clearing empties.                      *)
(***************************************************************************)
EXTENDS Naturals, Sequences, FiniteSets

CONSTANTS Data, Key

VARIABLE content

Holds(s, d) == \E i \in DOMAIN s : s[i] = d

Init == content = <<>>

Insert(d, i) ==
  /\ ~Holds(content, d)
  /\ content' = SubSeq(content, 1, i) \o <<d>> \o SubSeq(content, i + 1, Len(content))

Remove(i) ==
  content' = SubSeq(content, 1, i - 1) \o SubSeq(content, i + 1, Len(content))

(* Some arrangement of the same data that is ascending by key.              *)
Sort ==
  /\ Len(content') = Len(content)
  /\ {content'[i] : i \in DOMAIN content'} = {content[i] : i \in DOMAIN content}
  /\ \A i, j \in DOMAIN content' : i <= j => Key[content'[i]] <= Key[content'[j]]

Clear == content' = <<>>

Next ==
  \/ \E d \in Data, i \in 0..Len(content) : Insert(d, i)
  \/ \E i \in 1..Len(content) : Remove(i)
  \/ Sort \/ Clear

Spec == Init /\ [][Next]_content
=============================================================================
