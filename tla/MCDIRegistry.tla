----------------------------- MODULE MCDIRegistry -----------------------------
(* Instantiates DIRegistry for TLC. *)
EXTENDS DIRegistry
=============================================================================
