---------------------------- MODULE MCSchedProps ----------------------------
(* Instances of SchedProps for TLC: a byte is one bit, and an int has four. *)
EXTENDS SchedProps, TLC

CONSTANTS c1, c2

\* TLC tries every value of every type of Serialize before it starts.
ASSUME RoundTripHolds == RoundTrip

TwoClients == {c1, c2}
OneClient  == {c1}

\* SCHED_FIFO 7 on cpu 1, and SCHED_BATCH on a negative cpu, which
\* baa_is_fiber_config_valid lets pass.
TwoElements == <<[policy |-> 1, cpu |-> 1, prio |-> 7],
                 [policy |-> 3, cpu |-> -1, prio |-> 0]>>

\* Ids of one and of several bytes, and the largest int.
TwoTids == [c \in Clients |-> IF c = c1 THEN <<1, 4>> ELSE <<5, 7>>]
=============================================================================
