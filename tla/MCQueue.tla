------------------------------ MODULE MCQueue ------------------------------
(***************************************************************************)
(* Three threads, a queue of two places and four data: two producers can be *)
(* asleep on a full queue while the third thread takes one item after the   *)
(* other, a producer that was woken can find its place taken by one that    *)
(* never slept, a consumer likewise, and a consumer can race a clear.       *)
(*                                                                         *)
(* Data are interchangeable, also for liveness: neither the fairness of the *)
(* threads nor a property names a datum.                                    *)
(***************************************************************************)
EXTENDS Queue, TLC

DataSymmetry == Permutations(Data)
=============================================================================
