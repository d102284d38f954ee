----------------------------- MODULE MCSocketIO -----------------------------
(***************************************************************************)
(* Three messages: one of two chunks and a bit, one that send_data sends,   *)
(* one of a single chunk.  The wire holds more than a chunk and less than   *)
(* the first message.                                                       *)
(***************************************************************************)
EXTENDS SocketIO

MCMessages == <<[api |-> "all", len |-> 5], [api |-> "data", len |-> 2],
                [api |-> "all", len |-> 2]>>
=============================================================================
