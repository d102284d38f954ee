---------------------------- MODULE MCThreadPool ----------------------------
(***************************************************************************)
(* Two workers (MIN_THREADS), the owner and one more submitter, three       *)
(* tasks: one can be running, one woken for and one left in the queue.      *)
(***************************************************************************)
EXTENDS ThreadPool
=============================================================================
