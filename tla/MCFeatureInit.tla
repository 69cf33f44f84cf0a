---------------------------- MODULE MCFeatureInit ----------------------------
(* Three features with at most two dependencies each, themselves and repeated   *)
(* ones included; lists of up to two of them, with a duplicate and a nameless   *)
(* one.                                                                         *)
EXTENDS FeatureInit

CONSTANTS A, B, C

AtMost(k, S) == UNION {[1..n -> S] : n \in 0..k}
MCWorlds == [{A, B, C} -> AtMost(2, {A, B, C})]
MCLists == {<<A, B>>, <<A, B, C>>, <<A>>, <<A, A>>, <<A, NoName>>, <<>>}
=============================================================================
