----------------------------- MODULE MCRequestTx -----------------------------
(* Instantiates RequestTx for TLC. *)
EXTENDS RequestTx
=============================================================================
