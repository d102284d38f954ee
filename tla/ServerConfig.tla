---------------------------- MODULE ServerConfig ----------------------------
(***************************************************************************)
(* What start_tcp_server demands of a server_config_t, and the conversion   *)
(* of the port string it uses.                                              *)
(*                                                                         *)
(* A string that should hold a number is abstracted to what strtol makes of *)
(* it: whether it starts with a number at all (digits), whether characters  *)
(* follow (rest), whether the number fits in 32 bits, and its value.        *)
(***************************************************************************)
EXTENDS Integers

Text == [digits : BOOLEAN, rest : BOOLEAN, fits : BOOLEAN, value : Int]

MIN_BACKLOG == 1
MAX_BACKLOG == 128
MIN_TIMEOUT == 10
MAX_TIMEOUT == 300
MIN_NUM_THREADS == 2
MAX_NUM_THREADS == 24
MIN_CLIENTS == 1
MAX_CLIENTS == 100
WELL_KNOWN_PORT_MAX == 1023

(* str_to_int32 returns E_SUCCESS; the result is then t.value.              *)
str_to_int32(t) == t.fits /\ t.digits /\ ~t.rest

(* validate_config returns E_SUCCESS.  A port below 0 or above 65535 passes.*)
validate_config(config) ==
  /\ str_to_int32(config.port)
  /\ config.port.value \notin 0..WELL_KNOWN_PORT_MAX
  /\ config.backlog_size \in MIN_BACKLOG..MAX_BACKLOG
  /\ config.timeout \in {-1} \union MIN_TIMEOUT..MAX_TIMEOUT
  /\ config.num_threads \in MIN_NUM_THREADS..MAX_NUM_THREADS
  /\ config.max_clients \in MIN_CLIENTS..MAX_CLIENTS
  /\ config.client_request
=============================================================================
