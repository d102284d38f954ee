---------------------------- MODULE FifoChannel ----------------------------
(***************************************************************************)
(* What the queue promises its callers: a FIFO channel of bounded (or, with *)
(* Bound = 0, unlimited) capacity.  A datum is put at the end once and      *)
(* taken from the front once; nothing else ever happens to the channel.     *)
(***************************************************************************)
EXTENDS Naturals, Sequences

CONSTANTS Data, Bound

VARIABLES content,      \* what the channel holds, oldest first
          taken         \* what was taken from it, in order

Holds(s, d) == \E i \in DOMAIN s : s[i] = d

Init == content = <<>> /\ taken = <<>>

Put(d) ==
  /\ Bound = 0 \/ Len(content) < Bound
  /\ ~Holds(content, d) /\ ~Holds(taken, d)
  /\ content' = Append(content, d)
  /\ UNCHANGED taken

Take ==
  /\ content # <<>>
  /\ taken' = Append(taken, Head(content))
  /\ content' = Tail(content)

Next == Take \/ \E d \in Data : Put(d)

Spec == Init /\ [][Next]_<<content, taken>>
=============================================================================
