----------------------------- MODULE MCLogging -----------------------------
(***************************************************************************)
(* The thread of start_tcp_server and one worker, SESSION_START and two     *)
(* more calls: two lines that can be interleaved, or one behind a mutex     *)
(* that SESSION_START or the other took along.                              *)
(***************************************************************************)
EXTENDS Logging
=============================================================================
