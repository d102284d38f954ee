--------------------------- MODULE MCEventHandler ---------------------------
(***************************************************************************)
(* Two client descriptors and an array of two slots, so that the array is   *)
(* full with one client and grows with the second; two connections, which   *)
(* are open together or follow each other on the same descriptor.           *)
(***************************************************************************)
EXTENDS EventHandler
=============================================================================
