------------------------------- MODULE MCCan -------------------------------
(* Instances of Can for TLC: identifiers have one low bit. *)
EXTENDS Can

\* No identifier, and more than fit, one of them extended.
SomeLists == {<<>>, <<0, 3>>}
=============================================================================
