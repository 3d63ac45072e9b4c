---------------------------- MODULE MCFiberCycle ----------------------------
(* Instances of FiberCycle for TLC: a second has 4 ticks, LongMax is 9. *)
EXTENDS FiberCycle

\* Two periods with common multiples, below and above a second, the larger one
\* the largest that fits; one that overflows, with a negative one.
TwoTables == {<<3, 6>>, <<7, -3>>}
=============================================================================
