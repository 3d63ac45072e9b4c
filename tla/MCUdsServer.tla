---------------------------- MODULE MCUdsServer ----------------------------
(* Instances of UdsServer for TLC. *)
EXTENDS UdsServer

CONSTANTS p1, p2

TwoInstances == {p1, p2}
=============================================================================
