--------------------------- MODULE MCServeProcess ---------------------------
(***************************************************************************)
(* ServeProcess for TLC: small constants are given in the configuration.   *)
(***************************************************************************)
EXTENDS ServeProcess
=============================================================================
