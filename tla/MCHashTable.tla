---------------------------- MODULE MCHashTable ----------------------------
(***************************************************************************)
(* Two buckets; two keys collide in the first, and a third one, in the      *)
(* second, agrees with one of them in all the characters that are compared. *)
(* Four data make chains with several inner nodes and repeated keys.  One   *)
(* lookup is enough: lookups change nothing that another one reads.         *)
(***************************************************************************)
EXTENDS HashTable, TLC

CONSTANTS k1, k2, k3

MCKeys   == {k1, k2, k3}
MCBucket == (k1 :> 1) @@ (k2 :> 1) @@ (k3 :> 2)
MCPrefix == (k1 :> "same") @@ (k2 :> "other") @@ (k3 :> "same")

DataSymmetry == Permutations(Data)
=============================================================================
