------------------------- MODULE MCSaltVaultServer -------------------------
(***************************************************************************)
(* Command lines of up to three options with arguments on both sides of     *)
(* each limit, two of them attached, and, for another program, one configuration that is accepted *)
(* and one with a thread too many.  Two workers, two jobs, two addresses.   *)
(***************************************************************************)
EXTENDS SaltVaultServer, SequencesExt

Junk == [digits |-> TRUE, rest |-> TRUE, fits |-> TRUE, value |-> 2000]

Opts ==
  {[opt |-> "p", arg |-> t, attached |-> FALSE] :
     t \in {Number(1024), Number(1025), Number(65535), Number(65536), Junk}}
  \union {[opt |-> "n", arg |-> t, attached |-> FALSE] : t \in {Number(1), Number(2), Number(25)}}
  \union {[opt |-> o, arg |-> Number(1025), attached |-> TRUE] : o \in {"p", "n"}}
  \union {[opt |-> o] : o \in {"h", "?", "extra"}}

MCCommandLines == BoundedSeq(Opts, 3)

Config(threads) ==
  [port |-> Number(31337), num_threads |-> threads, backlog_size |-> 10,
   max_clients |-> 10, timeout |-> -1, client_request |-> TRUE]

MCConfigs == {Config(ThreadCount), Config(MAX_NUM_THREADS + 1)}
=============================================================================
