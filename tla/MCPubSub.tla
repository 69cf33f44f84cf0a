------------------------------ MODULE MCPubSub ------------------------------
(* Instance of PubSub for TLC: two subscriptions and two messages. *)
EXTENDS PubSub
==============================================================================
