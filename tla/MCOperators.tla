----------------------------- MODULE MCOperators -----------------------------
(* Two processes for the same namespaces.                                  *)
EXTENDS Operators

Two == {"p1", "p2"}
SameScope == [p \in Procs |-> "all"]
ElectedOrNot == BOOLEAN
==============================================================================
