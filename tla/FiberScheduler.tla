--------------------------- MODULE FiberScheduler ---------------------------
(***************************************************************************)
(* Start-up of the time-triggered scheduler of src/fiber.c, as main() of   *)
(* examples/time_triggert_simple.c drives it:                              *)
(*                                                                         *)
(*   baa_build_scheduler       creates one thread per fiber, sleeps 1 s    *)
(*   baa_is_fiber_config_valid checks the schedule table                   *)
(*   baa_set_schedule_props    hands the table to the kernel               *)
(*   baa_start_scheduler       broadcasts the condition, joins the threads *)
(*                                                                         *)
(* while every thread runs baa_fiber: it stores its kernel tid, waits on   *)
(* the condition (once, without a predicate) and then cycles for ever.     *)
(* The release times of the cycle are the subject of module FiberCycle.    *)
(***************************************************************************)
EXTENDS Integers

CONSTANTS
    Count,        \* number of elements of fiber_array
    Tables,       \* the schedule tables main() may be built with
    CpuConf,      \* get_nprocs_conf(): the machine has the cpus 0 .. CpuConf-1
    MinPrio,      \* sched_get_priority_min of SCHED_RR and SCHED_FIFO
    MaxPrio,      \* sched_get_priority_max of SCHED_RR and SCHED_FIFO
    CapSysNice    \* TRUE iff the process holds CAP_SYS_NICE

Fibers == 1 .. Count

(***************************************************************************)
(* The kernel's thread ids. A fiber's id is its index; kernel_tid = 0 is   *)
(* the initial value of the static fiber_array and, to the kernel, the     *)
(* calling thread.                                                         *)
(***************************************************************************)
Main    == Count + 1
Threads == 1 .. Count + 1
NoOwner == 0

RealTime == {"SCHED_RR", "SCHED_FIFO"}
Normal   == {"SCHED_OTHER", "SCHED_IDLE", "SCHED_BATCH"}

\* The part of fiber_element_t that scheduling depends on. "invalid" stands
\* for every policy number the library and the kernel do not know.
Element == [policy : RealTime \cup Normal \cup {"invalid"}, prio : Int, cpu : Int]

ASSUME CountAssumption == Count \in Nat
ASSUME CpuAssumption   == CpuConf \in Nat \ {0}
ASSUME PrioAssumption  == MinPrio \in Int /\ MaxPrio \in Int
ASSUME CapAssumption   == CapSysNice \in BOOLEAN
ASSUME TableAssumption == \A tab \in Tables : tab \in [Fibers -> Element]

VARIABLES
    table,       \* fiber_array: the schedule table of this process
    timely,      \* TRUE iff every fiber is waiting when sleep(1) returns
    spurious,    \* TRUE iff pthread_cond_wait may return without a broadcast
    mpc,         \* control point of the main thread
    i,           \* loop index of the main thread
    fpc,         \* control point of every fiber
    kernel_tid,  \* fiber_array[f].kernel_tid
    mutex,       \* owner of the static mutex, NoOwner when free
    aff,         \* kernel: the cpus a thread may run on
    pol          \* kernel: policy and priority of a thread

\* The table and the behaviour of the platform are fixed for a run.
env  == <<table, timely, spurious>>
vars == <<env, mpc, i, fpc, kernel_tid, mutex, aff, pol>>

-----------------------------------------------------------------------------
(* baa_is_fiber_config_valid, and what the kernel accepts *)

PrioValid(e) ==
    \/ e.policy \in RealTime /\ e.prio >= MinPrio /\ e.prio <= MaxPrio
    \/ e.policy \in Normal   /\ e.prio = 0

\* Mutant: the priority checks are forgotten.
Mut_ConfigIgnoresPrio(tab) == Count # 0 /\ \A f \in Fibers : tab[f].cpu <= CpuConf

\* cpu = CpuConf passes the check although no such cpu exists.
baa_is_fiber_config_valid(tab) ==
    /\ Count # 0
    /\ \A f \in Fibers : PrioValid(tab[f]) /\ tab[f].cpu <= CpuConf

\* sched_setaffinity succeeds for an existing cpu; sched_setscheduler needs
\* the capability and a priority that fits the policy.
AffinityAccepted(e)  == 0 <= e.cpu /\ e.cpu < CpuConf
SchedulerAccepted(e) == CapSysNice /\ PrioValid(e)

\* What the kernel holds for a new thread, and after a call given what it held.
AllCpus == 0 .. CpuConf - 1
DefaultPol == <<"SCHED_OTHER", 0>>
AffinityAfter(e, old)  == IF AffinityAccepted(e) THEN {e.cpu} ELSE old
SchedulerAfter(e, old) == IF SchedulerAccepted(e) THEN <<e.policy, e.prio>> ELSE old

\* The kernel applies a call with tid 0 to the calling thread.
Target(tid, caller) == IF tid = 0 THEN caller ELSE tid

-----------------------------------------------------------------------------
Init ==
    /\ table \in Tables
    /\ timely \in BOOLEAN
    /\ spurious \in BOOLEAN
    /\ mpc = "create"
    /\ i = 1
    /\ fpc = [f \in Fibers |-> "none"]
    /\ kernel_tid = [f \in Fibers |-> 0]
    /\ mutex = NoOwner
    /\ aff = [t \in Threads |-> AllCpus]
    /\ pol = [t \in Threads |-> DefaultPol]

(***************************************************************************)
(* The main thread. Each loop runs i over fiber_array. exit() ends every   *)
(* thread of the process.                                                  *)
(***************************************************************************)
Alive == mpc # "exit"

\* One turn of the loop of baa_build_scheduler: the thread starts at once.
BuildScheduler_Create ==
    /\ mpc = "create"
    /\ i <= Count
    /\ fpc' = [fpc EXCEPT ![i] = "born"]
    /\ i' = i + 1
    /\ UNCHANGED <<env, mpc, kernel_tid, mutex, aff, pol>>

\* pthread_create fails: -1 is returned and main() leaves by baa_error_exit.
BuildScheduler_CreateFails ==
    /\ mpc = "create"
    /\ i <= Count
    /\ mpc' = "exit"
    /\ UNCHANGED <<env, i, fpc, kernel_tid, mutex, aff, pol>>

BuildScheduler_Created ==
    /\ mpc = "create"
    /\ i > Count
    /\ mpc' = "sleep"
    /\ UNCHANGED <<env, i, fpc, kernel_tid, mutex, aff, pol>>

\* Control points of a fiber from the condition wait on.
PastCondWait == {"waiting", "woken", "relocked", "cycle", "func"}

\* Mutant: sleep(1) is dropped, or returns too early.
Mut_NoSleep ==
    /\ mpc = "sleep"
    /\ mpc' = "validate"
    /\ UNCHANGED <<env, i, fpc, kernel_tid, mutex, aff, pol>>

\* sleep(1) returns. Nothing but time orders this after the fibers' first
\* steps; timely is the assumption that one second was enough.
BuildScheduler_Sleep ==
    /\ mpc = "sleep"
    /\ timely => \A f \in Fibers : fpc[f] \in PastCondWait
    /\ mpc' = "validate"
    /\ UNCHANGED <<env, i, fpc, kernel_tid, mutex, aff, pol>>

\* main() checks the table and gives up on an invalid one.
Main_Validate ==
    /\ mpc = "validate"
    /\ mpc' = IF baa_is_fiber_config_valid(table) THEN "affinity" ELSE "exit"
    /\ i' = 1
    /\ UNCHANGED <<env, fpc, kernel_tid, mutex, aff, pol>>

\* Mutant: the index of the thread and of the element differ by one.
Mut_AffinityOfNext ==
    /\ mpc = "affinity"
    /\ LET t == Target(kernel_tid[i], Main)
           e == table[IF i < Count THEN i + 1 ELSE i]
       IN  aff' = [aff EXCEPT ![t] = AffinityAfter(e, aff[t])]
    /\ mpc' = "scheduler"
    /\ UNCHANGED <<env, i, fpc, kernel_tid, mutex, pol>>

\* First kernel call of baa_set_schedule_props for element i; a failure is
\* only logged.
SetScheduleProps_Affinity ==
    /\ mpc = "affinity"
    /\ LET t == Target(kernel_tid[i], Main)
       IN  aff' = [aff EXCEPT ![t] = AffinityAfter(table[i], aff[t])]
    /\ mpc' = "scheduler"
    /\ UNCHANGED <<env, i, fpc, kernel_tid, mutex, pol>>

\* Mutant: off-by-one in the loop bound, the loop runs past the array.
Mut_LoopRunsOver ==
    /\ mpc = "scheduler"
    /\ LET t == Target(kernel_tid[i], Main)
       IN  pol' = [pol EXCEPT ![t] = SchedulerAfter(table[i], pol[t])]
    /\ mpc' = IF i <= Count THEN "affinity" ELSE "start"
    /\ i' = i + 1
    /\ UNCHANGED <<env, fpc, kernel_tid, mutex, aff>>

\* Mutant: off-by-one in the loop bound, the last element is skipped.
Mut_LoopEndsEarly ==
    /\ mpc = "scheduler"
    /\ LET t == Target(kernel_tid[i], Main)
       IN  pol' = [pol EXCEPT ![t] = SchedulerAfter(table[i], pol[t])]
    /\ mpc' = IF i < Count - 1 THEN "affinity" ELSE "start"
    /\ i' = i + 1
    /\ UNCHANGED <<env, fpc, kernel_tid, mutex, aff>>

\* Second kernel call for element i; the loop ends after the last element
\* and returns 0 whatever the kernel said.
SetScheduleProps_Scheduler ==
    /\ mpc = "scheduler"
    /\ LET t == Target(kernel_tid[i], Main)
       IN  pol' = [pol EXCEPT ![t] = SchedulerAfter(table[i], pol[t])]
    /\ mpc' = IF i < Count THEN "affinity" ELSE "start"
    /\ i' = i + 1
    /\ UNCHANGED <<env, fpc, kernel_tid, mutex, aff>>

StartScheduler_Lock ==
    /\ mpc = "start"
    /\ mutex = NoOwner
    /\ mutex' = Main
    /\ mpc' = "broadcast"
    /\ UNCHANGED <<env, i, fpc, kernel_tid, aff, pol>>

\* Mutant: pthread_cond_signal wakes one waiting thread only.
Mut_Signal ==
    /\ mpc = "broadcast"
    /\ \/ \E f \in Fibers : fpc[f] = "waiting" /\ fpc' = [fpc EXCEPT ![f] = "woken"]
       \/ (\A f \in Fibers : fpc[f] # "waiting") /\ fpc' = fpc
    /\ mpc' = "unlock"
    /\ UNCHANGED <<env, i, kernel_tid, mutex, aff, pol>>

\* pthread_cond_broadcast wakes the threads that wait now, and no other.
StartScheduler_Broadcast ==
    /\ mpc = "broadcast"
    /\ fpc' = [f \in Fibers |-> IF fpc[f] = "waiting" THEN "woken" ELSE fpc[f]]
    /\ mpc' = "unlock"
    /\ UNCHANGED <<env, i, kernel_tid, mutex, aff, pol>>

\* The mutex is released; from here on main blocks in pthread_join, because
\* baa_fiber never returns.
StartScheduler_Unlock ==
    /\ mpc = "unlock"
    /\ mutex' = NoOwner
    /\ mpc' = "join"
    /\ UNCHANGED <<env, i, fpc, kernel_tid, aff, pol>>

-----------------------------------------------------------------------------
(***************************************************************************)
(* baa_fiber, the thread of element f.                                     *)
(***************************************************************************)

\* The fiber stores its tid and touches stack and heap.
Fiber_Prologue(f) ==
    /\ Alive
    /\ fpc[f] = "born"
    /\ kernel_tid' = [kernel_tid EXCEPT ![f] = f]
    /\ fpc' = [fpc EXCEPT ![f] = "ready"]
    /\ UNCHANGED <<env, mpc, i, mutex, aff, pol>>

Fiber_Lock(f) ==
    /\ Alive
    /\ fpc[f] = "ready"
    /\ mutex = NoOwner
    /\ mutex' = f
    /\ fpc' = [fpc EXCEPT ![f] = "locked"]
    /\ UNCHANGED <<env, mpc, i, kernel_tid, aff, pol>>

\* Mutant: the wait is dropped, the fiber goes straight on.
Mut_NoCondWait(f) ==
    /\ Alive
    /\ fpc[f] = "locked"
    /\ fpc' = [fpc EXCEPT ![f] = "relocked"]
    /\ UNCHANGED <<env, mpc, i, kernel_tid, mutex, aff, pol>>

\* pthread_cond_wait releases the mutex and waits, in one step.
Fiber_CondWait(f) ==
    /\ Alive
    /\ fpc[f] = "locked"
    /\ mutex' = NoOwner
    /\ fpc' = [fpc EXCEPT ![f] = "waiting"]
    /\ UNCHANGED <<env, mpc, i, kernel_tid, aff, pol>>

\* POSIX allows the wait to end without a broadcast.
Cond_SpuriousWakeup(f) ==
    /\ Alive
    /\ spurious
    /\ fpc[f] = "waiting"
    /\ fpc' = [fpc EXCEPT ![f] = "woken"]
    /\ UNCHANGED <<env, mpc, i, kernel_tid, mutex, aff, pol>>

\* A woken thread returns from the wait when it owns the mutex again.
Fiber_Relock(f) ==
    /\ Alive
    /\ fpc[f] = "woken"
    /\ mutex = NoOwner
    /\ mutex' = f
    /\ fpc' = [fpc EXCEPT ![f] = "relocked"]
    /\ UNCHANGED <<env, mpc, i, kernel_tid, aff, pol>>

\* Mutant: the fiber keeps the mutex.
Mut_NoUnlock(f) ==
    /\ Alive
    /\ fpc[f] = "relocked"
    /\ fpc' = [fpc EXCEPT ![f] = "cycle"]
    /\ UNCHANGED <<env, mpc, i, kernel_tid, mutex, aff, pol>>

\* The mutex is released and the cycle begins (first release: FiberCycle).
Fiber_Unlock(f) ==
    /\ Alive
    /\ fpc[f] = "relocked"
    /\ mutex' = NoOwner
    /\ fpc' = [fpc EXCEPT ![f] = "cycle"]
    /\ UNCHANGED <<env, mpc, i, kernel_tid, aff, pol>>

\* clock_nanosleep returns and the function group is called.
Fiber_CallFunc(f) ==
    /\ Alive
    /\ fpc[f] = "cycle"
    /\ fpc' = [fpc EXCEPT ![f] = "func"]
    /\ UNCHANGED <<env, mpc, i, kernel_tid, mutex, aff, pol>>

\* The function group returns; the next release is computed.
Fiber_FuncReturns(f) ==
    /\ Alive
    /\ fpc[f] = "func"
    /\ fpc' = [fpc EXCEPT ![f] = "cycle"]
    /\ UNCHANGED <<env, mpc, i, kernel_tid, mutex, aff, pol>>

-----------------------------------------------------------------------------
MainNext ==
    \/ BuildScheduler_Create
    \/ BuildScheduler_CreateFails
    \/ BuildScheduler_Created
    \/ BuildScheduler_Sleep
    \/ Main_Validate
    \/ SetScheduleProps_Affinity
    \/ SetScheduleProps_Scheduler
    \/ StartScheduler_Lock
    \/ StartScheduler_Broadcast
    \/ StartScheduler_Unlock

FiberNext(f) ==
    \/ Fiber_Prologue(f)
    \/ Fiber_Lock(f)
    \/ Fiber_CondWait(f)
    \/ Fiber_Relock(f)
    \/ Fiber_Unlock(f)
    \/ Fiber_CallFunc(f)
    \/ Fiber_FuncReturns(f)

\* SIGTERM reaches the thread signal_handler, which calls exit().
SignalHandler_Term ==
    /\ Alive
    /\ mpc' = "exit"
    /\ UNCHANGED <<env, i, fpc, kernel_tid, mutex, aff, pol>>

\* The process has left by exit().
Exited == mpc = "exit" /\ UNCHANGED vars

Next ==
    \/ MainNext
    \/ \E f \in Fibers : FiberNext(f) \/ Cond_SpuriousWakeup(f)
    \/ SignalHandler_Term
    \/ Exited

Spec == Init /\ [][Next]_vars

\* The kernel runs every runnable thread, and the functions of the table
\* return. No fairness is assumed of a spurious wakeup.
FairSpec == Spec /\ WF_vars(MainNext) /\ \A f \in Fibers : WF_vars(FiberNext(f))

-----------------------------------------------------------------------------
(* Properties *)

MainPoints  == {"create", "sleep", "validate", "affinity", "scheduler",
                "start", "broadcast", "unlock", "join", "exit"}
FiberPoints == {"none", "born", "ready", "locked"} \cup PastCondWait

\* Type invariant: every variable stays in its range, and the loop index
\* never leaves fiber_array while it is used to index it.
TypeOK ==
    /\ table \in Tables
    /\ timely \in BOOLEAN
    /\ spurious \in BOOLEAN
    /\ mpc \in MainPoints
    /\ i \in 1 .. Count + 1
    /\ mpc \in {"affinity", "scheduler"} => i \in Fibers
    /\ fpc \in [Fibers -> FiberPoints]
    /\ kernel_tid \in [Fibers -> Threads \cup {0}]
    /\ mutex \in Threads \cup {NoOwner}
    /\ aff \in [Threads -> SUBSET AllCpus]
    /\ pol \in [Threads -> (RealTime \cup Normal) \X Int]

\* The broadcast of baa_start_scheduler has been made.
Started == mpc \in {"unlock", "join"}

\* "wait until every fiber is up and ready" (fiber.c:131): when the first
\* fiber is in its cycle, every fiber has stored its tid and been released.
\* The code relies on sleep(1) and on a wait without spurious wakeups.
StartTogether ==
    /\ timely /\ ~spurious
    /\ \E f \in Fibers : fpc[f] \in {"cycle", "func"}
    => \A g \in Fibers : /\ kernel_tid[g] = g
                         /\ fpc[g] \in PastCondWait \ {"waiting"}

\* Without spurious wakeups no fiber passes the condition before
\* baa_start_scheduler broadcasts, so none runs while its properties are
\* still being set, however long the fibers take.
NoEarlyStart ==
    /\ ~spurious
    /\ \E f \in Fibers : fpc[f] \in PastCondWait \ {"waiting"}
    => Started \/ ~Alive

\* If sleep(1) was enough no wakeup is lost: after the broadcast no fiber is
\* before or in the wait, where nobody would ever wake it.
NoLostWakeup ==
    timely /\ Started => \A f \in Fibers : fpc[f] \in PastCondWait \ {"waiting"}

\* If sleep(1) was enough, then at the start every fiber is bound to the cpu
\* of its own element if that cpu exists, and has the policy and priority of
\* its element if the process may set them: baa_is_fiber_config_valid lets
\* nothing pass that sched_setscheduler refuses for another reason.
ConfiguredAtStart ==
    timely /\ Started => \A f \in Fibers :
        /\ aff[f] = AffinityAfter(table[f], AllCpus)
        /\ CapSysNice => pol[f] = <<table[f].policy, table[f].prio>>

\* If sleep(1) was enough, the thread that configures the fibers keeps its own
\* scheduling: no call is made with the tid 0 of a fiber that is not up yet.
MainUntouched == timely => aff[Main] = AllCpus /\ pol[Main] = DefaultPol

\* However late a fiber stores its tid, it never gets the properties of
\* another element.
PropsNeverCross ==
    \A f \in Fibers :
        /\ aff[f] \in {AllCpus, {table[f].cpu}}
        /\ pol[f] \in {DefaultPol, <<table[f].policy, table[f].prio>>}

\* main() leaves by "could not set schedule properties" rather than start a
\* fiber the kernel refused to configure (time_triggert_simple.c:242-244).
StartsOnlyConfigured ==
    timely /\ Started => \A f \in Fibers :
        aff[f] = {table[f].cpu} /\ pol[f] = <<table[f].policy, table[f].prio>>

\* After the start every fiber gets to call its function group, unless the
\* process is told to leave.
EveryFiberRuns == \A f \in Fibers : Started ~> (fpc[f] = "func" \/ ~Alive)

\* The same where sleep(1) was enough.
EveryTimelyFiberRuns == \A f \in Fibers :
    (timely /\ Started) ~> (fpc[f] = "func" \/ ~Alive)

\* main() always gets somewhere: it joins the fibers or has left the process.
MainSettles == <>(mpc \in {"join", "exit"})

=============================================================================
