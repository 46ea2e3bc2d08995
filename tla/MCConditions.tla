---------------------------- MODULE MCConditions -----------------------------
(* The condition list, for every sequence of five calls that append.       *)
EXTENDS Conditions
==============================================================================
