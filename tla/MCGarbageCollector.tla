-------------------------- MODULE MCGarbageCollector --------------------------
(* One name of a pod on one node, in one namespace that is watched.        *)
EXTENDS GarbageCollector

Home == {"home"}
OneIndex == {0}
Node == {"n1"}
==============================================================================
