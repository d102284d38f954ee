------------------------------ MODULE Signals ------------------------------
(***************************************************************************)
(* libs/Signals: the process-wide signal_flag and the two ways in which a   *)
(* delivered signal may set it.  A program links one of them: main.c of the *)
(* server installs the traditional handler (signal_action_setup), a         *)
(* multi-threaded program starts signal_wait_thread.                        *)
(*                                                                         *)
(* Neither wakes a thread that is blocked in queue_dequeue: the only        *)
(* condition variable signal_wait_thread broadcasts, signal_flag_cond, has  *)
(* no waiter anywhere in the repository.                                    *)
(***************************************************************************)

VARIABLE signal_flag    \* _Atomic int signal_flag

ACTIVE   == "ACTIVE"
SHUTDOWN == "SHUTDOWN"

SIGNAL_LIST == {"SIGINT", "SIGTERM", "SIGHUP"}

SignalTypeOK == signal_flag \in {ACTIVE, SHUTDOWN}

SignalInit == signal_flag = ACTIVE

(* Mutant: the handler stores the signal it got instead of SHUTDOWN.        *)
signal_handler_stores_sig(sig) ==
  signal_flag' = IF sig \in {"SIGINT", "SIGTERM"} THEN sig ELSE signal_flag

(* The handler installed by signal_action_setup: SIGHUP is only reported.   *)
signal_handler(sig) ==
  signal_flag' = IF sig \in {"SIGINT", "SIGTERM"} THEN SHUTDOWN ELSE signal_flag

(* The sigwait thread stores SHUTDOWN before it looks at which signal came. *)
signal_wait_thread(sig) ==
  sig \in SIGNAL_LIST /\ signal_flag' = SHUTDOWN
=============================================================================
