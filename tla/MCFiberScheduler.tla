-------------------------- MODULE MCFiberScheduler --------------------------
(* Instances of FiberScheduler for TLC: a machine with two cpus. *)
EXTENDS FiberScheduler, TLC

E(policy, prio, cpu) == [policy |-> policy, prio |-> prio, cpu |-> cpu]

\* Three fibers with different properties; a cpu the machine does not have;
\* a real-time and a normal policy with a priority the kernel refuses.
Tables3 == {
    << E("SCHED_FIFO", 2, 0), E("SCHED_RR", 1, 1), E("SCHED_BATCH", 0, 0) >>,
    << E("SCHED_IDLE", 0, 1), E("SCHED_RR", 2, 2), E("SCHED_OTHER", 0, 1) >>,
    << E("SCHED_FIFO", 1, 1), E("SCHED_RR", 0, 0), E("SCHED_BATCH", 2, 1) >> }

\* Two fibers, one on a cpu that the library accepts and no machine of two
\* cpus has.
TablesCpu2 == { << E("SCHED_FIFO", 2, 0), E("SCHED_RR", 1, 2) >> }
=============================================================================
