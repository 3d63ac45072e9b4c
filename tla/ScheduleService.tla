-------------------------- MODULE ScheduleService --------------------------
(***************************************************************************)
(* What the schedule server promises the callers of                        *)
(* baa_set_schedule_props_via_server, by the protocol diagram of           *)
(* PTYPE_SCHED_PROPS in src/libbaalue.h: the elements of a table are set   *)
(* one after the other, and the call returns 0 only when all are set.      *)
(***************************************************************************)
EXTENDS Naturals

CONSTANTS Clients,   \* processes that hold a schedule table
          Count      \* number of elements of a table

VARIABLES applied,   \* elements of a client's table the kernel has been given
          result     \* result of the client's call

Init ==
    /\ applied = [c \in Clients |-> {}]
    /\ result = [c \in Clients |-> "none"]

\* The server sets the properties of the next element.
Apply(c) ==
    /\ applied[c] # 1 .. Count
    /\ \E e \in 1 .. Count :
          /\ applied[c] = 1 .. e - 1
          /\ applied' = [applied EXCEPT ![c] = 1 .. e]
    /\ UNCHANGED result

\* The call returns 0.
Succeed(c) ==
    /\ result[c] = "none"
    /\ applied[c] = 1 .. Count
    /\ result' = [result EXCEPT ![c] = "ok"]
    /\ UNCHANGED applied

\* The call returns -1, or the process ends.
Fail(c) ==
    /\ result' = [result EXCEPT ![c] = "failed"]
    /\ UNCHANGED applied

Next == \E c \in Clients : Apply(c) \/ Succeed(c) \/ Fail(c)

Spec == Init /\ [][Next]_<<applied, result>>
=============================================================================
