------------------------ MODULE FiberSchedulerProofs ------------------------
(***************************************************************************)
(* Proofs about FiberScheduler for any number of fibers, any schedule      *)
(* table and any number of cpus.                                           *)
(***************************************************************************)
EXTENDS FiberScheduler, TLAPS

USE CountAssumption, CpuAssumption, CapAssumption, TableAssumption DEF env

\* The released fibers: the ones the condition wait has let go.
Released == PastCondWait \ {"waiting"}

\* What the tables give: an element per fiber, with integer fields.
LEMMA TableElement ==
    ASSUME NEW tab \in Tables, NEW f \in Fibers
    PROVE  /\ tab[f] \in Element
           /\ tab[f].cpu \in Int
           /\ tab[f].prio \in Int
  BY DEF Element

\* The kernel's answer stays within the range of the kernel's state.
LEMMA KernelTypes ==
    ASSUME NEW tab \in Tables, NEW f \in Fibers,
           NEW a \in SUBSET AllCpus,
           NEW p \in (RealTime \cup Normal) \X Int
    PROVE  /\ AffinityAfter(tab[f], a) \in SUBSET AllCpus
           /\ SchedulerAfter(tab[f], p) \in (RealTime \cup Normal) \X Int
  <1>1. tab[f].cpu \in Int /\ tab[f].prio \in Int
    BY TableElement
  <1>2. AffinityAfter(tab[f], a) \in SUBSET AllCpus
    BY <1>1 DEF AffinityAfter, AffinityAccepted, AllCpus
  <1>3. SchedulerAfter(tab[f], p) \in (RealTime \cup Normal) \X Int
    BY <1>1 DEF SchedulerAfter, SchedulerAccepted, PrioValid
  <1> QED BY <1>2, <1>3

-----------------------------------------------------------------------------
(* Type correctness *)

\* The initial state has the declared types.
LEMMA TypeInit == Init => TypeOK
  BY DEF Init, TypeOK, Fibers, Threads, NoOwner, MainPoints, FiberPoints,
         PastCondWait, AllCpus, DefaultPol, RealTime, Normal

\* Every step keeps the declared types.
LEMMA TypeStep == TypeOK /\ [Next]_vars => TypeOK'
  <1> SUFFICES ASSUME TypeOK, [Next]_vars PROVE TypeOK'
    OBVIOUS
  <1> USE DEF TypeOK, MainPoints, FiberPoints, PastCondWait, Fibers, Threads
  <1>1. CASE BuildScheduler_Create
    BY <1>1 DEF BuildScheduler_Create
  <1>2. CASE BuildScheduler_CreateFails
    BY <1>2 DEF BuildScheduler_CreateFails
  <1>3. CASE BuildScheduler_Created
    BY <1>3 DEF BuildScheduler_Created
  <1>4. CASE BuildScheduler_Sleep
    BY <1>4 DEF BuildScheduler_Sleep
  <1>5. CASE Main_Validate
    BY <1>5 DEF Main_Validate, baa_is_fiber_config_valid
  <1>6. CASE SetScheduleProps_Affinity
    <2> DEFINE t == Target(kernel_tid[i], Main)
    <2>1. i \in Fibers /\ t \in Threads
      BY <1>6 DEF SetScheduleProps_Affinity, Target, Main
    <2>2. AffinityAfter(table[i], aff[t]) \in SUBSET AllCpus
      BY <2>1, KernelTypes
    <2>3. aff' = [aff EXCEPT ![t] = AffinityAfter(table[i], aff[t])]
      BY <1>6 DEF SetScheduleProps_Affinity
    <2>4. aff' \in [Threads -> SUBSET AllCpus]
      <3> HIDE DEF t
      <3> QED BY <2>1, <2>2, <2>3
    <2> QED BY <1>6, <2>1, <2>4 DEF SetScheduleProps_Affinity
  <1>7. CASE SetScheduleProps_Scheduler
    <2> DEFINE t == Target(kernel_tid[i], Main)
    <2>1. i \in Fibers /\ t \in Threads
      BY <1>7 DEF SetScheduleProps_Scheduler, Target, Main
    <2>2. SchedulerAfter(table[i], pol[t]) \in (RealTime \cup Normal) \X Int
      BY <2>1, KernelTypes DEF Fibers
    <2>3. pol' = [pol EXCEPT ![t] = SchedulerAfter(table[i], pol[t])]
      BY <1>7 DEF SetScheduleProps_Scheduler
    <2>4. pol' \in [Threads -> (RealTime \cup Normal) \X Int]
      <3> HIDE DEF t
      <3> QED BY <2>1, <2>2, <2>3, SMTT(20)
    <2> QED BY <1>7, <2>1, <2>4 DEF SetScheduleProps_Scheduler
  <1>8. CASE StartScheduler_Lock
    BY <1>8 DEF StartScheduler_Lock, Main
  <1>9. CASE StartScheduler_Broadcast
    BY <1>9 DEF StartScheduler_Broadcast
  <1>10. CASE StartScheduler_Unlock
    BY <1>10 DEF StartScheduler_Unlock
  <1>11. ASSUME NEW f \in Fibers, FiberNext(f) \/ Cond_SpuriousWakeup(f)
         PROVE TypeOK'
    <2>1. /\ fpc' \in [Fibers -> FiberPoints]
          /\ UNCHANGED <<env, mpc, i, aff, pol>>
      BY <1>11 DEF FiberNext, Fiber_Prologue, Fiber_Lock, Fiber_CondWait,
         Fiber_Relock, Fiber_Unlock, Fiber_CallFunc, Fiber_FuncReturns,
         Cond_SpuriousWakeup
    <2>2. kernel_tid' \in [Fibers -> Threads \cup {0}]
      <3>1. f \in Threads
        OBVIOUS
      <3>2. CASE kernel_tid' = [kernel_tid EXCEPT ![f] = f]
        BY <3>1, <3>2
      <3>3. CASE UNCHANGED kernel_tid
        BY <3>3
      <3> QED
        BY <1>11, <3>2, <3>3 DEF FiberNext, Fiber_Prologue, Fiber_Lock,
           Fiber_CondWait, Fiber_Relock, Fiber_Unlock, Fiber_CallFunc,
           Fiber_FuncReturns, Cond_SpuriousWakeup
    <2>3. mutex' \in Threads \cup {NoOwner}
      BY <1>11 DEF FiberNext, Fiber_Prologue, Fiber_Lock, Fiber_CondWait,
         Fiber_Relock, Fiber_Unlock, Fiber_CallFunc, Fiber_FuncReturns,
         Cond_SpuriousWakeup
    <2> QED BY <2>1, <2>2, <2>3
  <1>12. CASE SignalHandler_Term
    BY <1>12 DEF SignalHandler_Term
  <1>13. CASE Exited \/ UNCHANGED vars
    BY <1>13 DEF Exited, vars
  <1> QED
    BY <1>1, <1>2, <1>3, <1>4, <1>5, <1>6, <1>7, <1>8, <1>9, <1>10, <1>11,
       <1>12, <1>13 DEF Next, MainNext

\* The type invariant: the loop index of baa_set_schedule_props stays inside
\* fiber_array, whatever the table and however the threads interleave.
THEOREM TypeCorrect == Spec => []TypeOK
  BY TypeInit, TypeStep, PTL DEF Spec

-----------------------------------------------------------------------------
(* The inductive invariant *)

\* A fiber has stored its own tid before it reaches the mutex, and
\* fiber_array[f].kernel_tid is never the tid of another thread.
TidInv == \A f \in Fibers :
    /\ kernel_tid[f] \in {0, f}
    /\ fpc[f] \notin {"none", "born"} => kernel_tid[f] = f

\* pthread_create has not yet made the fibers from the loop index on.
CreatedInv == mpc = "create" => \A f \in Fibers : f >= i => fpc[f] = "none"

\* If one second was enough, every fiber waits (or has waited) from then on.
ReadyInv == timely /\ mpc \notin {"create", "sleep", "exit"} =>
    \A f \in Fibers : fpc[f] \in PastCondWait

\* A table that reaches baa_set_schedule_props has passed the check.
ValidInv == mpc \notin {"create", "sleep", "validate", "exit"} =>
    baa_is_fiber_config_valid(table)

\* The elements that the loop of baa_set_schedule_props has handed to
\* sched_setaffinity and to sched_setscheduler.
AffDone(f) == \/ mpc = "affinity" /\ f < i
              \/ mpc = "scheduler" /\ f <= i
              \/ mpc \in {"start", "broadcast", "unlock", "join"}
PolDone(f) == \/ mpc \in {"affinity", "scheduler"} /\ f < i
              \/ mpc \in {"start", "broadcast", "unlock", "join"}

\* The kernel holds the properties of exactly the elements done so far.
PropsInv == timely /\ Alive => \A f \in Fibers :
    /\ aff[f] = IF AffDone(f) THEN AffinityAfter(table[f], AllCpus) ELSE AllCpus
    /\ pol[f] = IF PolDone(f) THEN SchedulerAfter(table[f], DefaultPol)
                               ELSE DefaultPol

\* The steps of a fiber, reduced to what the invariants look at.
LEMMA FiberStep ==
    ASSUME TypeOK, NEW f \in Fibers, FiberNext(f) \/ Cond_SpuriousWakeup(f)
    PROVE  /\ Alive
           /\ UNCHANGED <<env, mpc, i, aff, pol>>
           /\ \/ /\ fpc[f] = "born"
                 /\ fpc' = [fpc EXCEPT ![f] = "ready"]
                 /\ kernel_tid' = [kernel_tid EXCEPT ![f] = f]
              \/ /\ fpc[f] \in {"ready", "locked"}
                 /\ fpc'[f] \in {"locked", "waiting"}
                 /\ fpc' = [fpc EXCEPT ![f] = fpc'[f]]
                 /\ UNCHANGED kernel_tid
              \/ /\ fpc[f] = "waiting" /\ spurious
                 /\ fpc' = [fpc EXCEPT ![f] = "woken"]
                 /\ UNCHANGED kernel_tid
              \/ /\ fpc[f] \in Released
                 /\ fpc'[f] \in Released
                 /\ fpc' = [fpc EXCEPT ![f] = fpc'[f]]
                 /\ UNCHANGED kernel_tid
  BY DEF FiberNext, Fiber_Prologue, Fiber_Lock, Fiber_CondWait, Fiber_Relock,
     Fiber_Unlock, Fiber_CallFunc, Fiber_FuncReturns, Cond_SpuriousWakeup,
     TypeOK, Released, PastCondWait

\* The table and the platform do not change.
LEMMA EnvFixed == [Next]_vars => UNCHANGED env
  BY DEF Next, MainNext, FiberNext, vars, Exited, BuildScheduler_Create,
     BuildScheduler_CreateFails, BuildScheduler_Created, BuildScheduler_Sleep,
     Main_Validate, SetScheduleProps_Affinity, SetScheduleProps_Scheduler,
     StartScheduler_Lock, StartScheduler_Broadcast, StartScheduler_Unlock,
     SignalHandler_Term, Fiber_Prologue, Fiber_Lock, Fiber_CondWait,
     Fiber_Relock, Fiber_Unlock, Fiber_CallFunc, Fiber_FuncReturns,
     Cond_SpuriousWakeup

\* Only a fiber writes its kernel_tid, and only its own.
LEMMA TidStep == TypeOK /\ TidInv /\ [Next]_vars => TidInv'
  <1> SUFFICES ASSUME TypeOK, TidInv, [Next]_vars PROVE TidInv'
    OBVIOUS
  <1>1. ASSUME NEW f \in Fibers, FiberNext(f) \/ Cond_SpuriousWakeup(f)
        PROVE  TidInv'
    BY <1>1, FiberStep DEF TidInv, TypeOK, Released, PastCondWait
  <1>2. CASE BuildScheduler_Create
    BY <1>2 DEF BuildScheduler_Create, TidInv, TypeOK
  <1>3. CASE StartScheduler_Broadcast
    BY <1>3 DEF StartScheduler_Broadcast, TidInv, TypeOK
  <1>4. CASE UNCHANGED <<fpc, kernel_tid>>
    BY <1>4 DEF TidInv
  <1> QED
    BY <1>1, <1>2, <1>3, <1>4 DEF Next, MainNext, vars, Exited,
       BuildScheduler_CreateFails, BuildScheduler_Created,
       BuildScheduler_Sleep, Main_Validate, SetScheduleProps_Affinity,
       SetScheduleProps_Scheduler, StartScheduler_Lock, StartScheduler_Unlock,
       SignalHandler_Term

\* pthread_create is called for one fiber after the other.
LEMMA CreatedStep == TypeOK /\ CreatedInv /\ [Next]_vars => CreatedInv'
  <1> SUFFICES ASSUME TypeOK, CreatedInv, [Next]_vars PROVE CreatedInv'
    OBVIOUS
  <1>1. ASSUME NEW f \in Fibers, FiberNext(f) \/ Cond_SpuriousWakeup(f)
        PROVE  CreatedInv'
    BY <1>1, FiberStep DEF CreatedInv, TypeOK, Released, PastCondWait
  <1>2. CASE BuildScheduler_Create
    BY <1>2 DEF BuildScheduler_Create, CreatedInv, TypeOK, Fibers
  <1>3. CASE mpc' # "create" \/ UNCHANGED vars
    BY <1>3 DEF CreatedInv, vars
  <1> QED
    BY <1>1, <1>2, <1>3 DEF Next, MainNext, Exited,
       BuildScheduler_CreateFails, BuildScheduler_Created,
       BuildScheduler_Sleep, Main_Validate, SetScheduleProps_Affinity,
       SetScheduleProps_Scheduler, StartScheduler_Lock,
       StartScheduler_Broadcast, StartScheduler_Unlock, SignalHandler_Term

\* No fiber goes back before the wait.
LEMMA ReadyStep == TypeOK /\ ReadyInv /\ [Next]_vars => ReadyInv'
  <1> SUFFICES ASSUME TypeOK, ReadyInv, [Next]_vars PROVE ReadyInv'
    OBVIOUS
  <1>1. ASSUME NEW f \in Fibers, FiberNext(f) \/ Cond_SpuriousWakeup(f)
        PROVE  ReadyInv'
    BY <1>1, FiberStep DEF ReadyInv, TypeOK, Released, PastCondWait
  <1>2. CASE BuildScheduler_Create
    BY <1>2 DEF BuildScheduler_Create, ReadyInv
  <1>3. CASE BuildScheduler_Sleep
    BY <1>3 DEF BuildScheduler_Sleep, ReadyInv
  <1>4. CASE StartScheduler_Broadcast
    BY <1>4 DEF StartScheduler_Broadcast, ReadyInv, TypeOK, PastCondWait
  <1>5. CASE /\ UNCHANGED fpc
             /\ mpc \in {"create", "sleep", "exit"} =>
                   mpc' \in {"create", "sleep", "exit"}
    BY <1>5, EnvFixed DEF ReadyInv
  <1> QED
    BY <1>1, <1>2, <1>3, <1>4, <1>5 DEF Next, MainNext, vars, Exited,
       BuildScheduler_CreateFails, BuildScheduler_Created, Main_Validate,
       SetScheduleProps_Affinity, SetScheduleProps_Scheduler,
       StartScheduler_Lock, StartScheduler_Unlock, SignalHandler_Term

\* The table is checked before it is used, and never changes.
LEMMA ValidStep == TypeOK /\ ValidInv /\ [Next]_vars => ValidInv'
  <1> SUFFICES ASSUME TypeOK, ValidInv, [Next]_vars PROVE ValidInv'
    OBVIOUS
  <1>1. ASSUME NEW f \in Fibers, FiberNext(f) \/ Cond_SpuriousWakeup(f)
        PROVE  ValidInv'
    BY <1>1, FiberStep DEF ValidInv
  <1>2. CASE MainNext
    BY <1>2 DEF MainNext, BuildScheduler_Create, BuildScheduler_CreateFails,
       BuildScheduler_Created, BuildScheduler_Sleep, Main_Validate,
       SetScheduleProps_Affinity, SetScheduleProps_Scheduler,
       StartScheduler_Lock, StartScheduler_Broadcast, StartScheduler_Unlock,
       ValidInv
  <1>3. CASE SignalHandler_Term \/ Exited \/ UNCHANGED vars
    BY <1>3 DEF SignalHandler_Term, Exited, vars, ValidInv
  <1> QED BY <1>1, <1>2, <1>3 DEF Next

\* A turn of the loop of baa_set_schedule_props changes the properties of the
\* fiber of its element and of no other.
LEMMA PropsStep ==
    TypeOK /\ TidInv /\ ReadyInv /\ PropsInv /\ [Next]_vars => PropsInv'
  <1> SUFFICES ASSUME TypeOK, TidInv, ReadyInv, PropsInv, [Next]_vars,
                      timely, timely', Alive'
               PROVE  \A f \in Fibers :
                        /\ aff'[f] = IF AffDone(f)'
                                     THEN AffinityAfter(table'[f], AllCpus)
                                     ELSE AllCpus
                        /\ pol'[f] = IF PolDone(f)'
                                     THEN SchedulerAfter(table'[f], DefaultPol)
                                     ELSE DefaultPol
    BY EnvFixed DEF PropsInv
  <1> USE DEF AffDone, PolDone
  <1>1. ASSUME NEW f \in Fibers, FiberNext(f) \/ Cond_SpuriousWakeup(f)
        PROVE  PropsInv'
    BY <1>1, FiberStep DEF PropsInv, Alive
  <1>2. CASE Main_Validate
    BY <1>2 DEF Main_Validate, PropsInv, Alive, Fibers, TypeOK
  <1>3. CASE SetScheduleProps_Affinity
    <2>1. i \in Fibers /\ Target(kernel_tid[i], Main) = i
      <3>1. i \in Fibers /\ fpc[i] \in PastCondWait
        BY <1>3 DEF SetScheduleProps_Affinity, ReadyInv, TypeOK
      <3>2. kernel_tid[i] = i
        BY <3>1 DEF TidInv, PastCondWait
      <3> QED BY <3>1, <3>2 DEF Target, Fibers
    <2>2. i \in Threads
      BY <2>1 DEF Fibers, Threads
    <2>3. aff[i] = AllCpus
      BY <1>3, <2>1 DEF SetScheduleProps_Affinity, PropsInv, Alive, Fibers
    <2>4. aff' = [aff EXCEPT ![i] = AffinityAfter(table[i], AllCpus)]
      BY <1>3, <2>1, <2>3 DEF SetScheduleProps_Affinity
    <2>5. \A f \in Fibers : f \in Threads
      BY DEF Fibers, Threads
    <2>6. /\ mpc = "affinity" /\ mpc' = "scheduler"
          /\ UNCHANGED <<table, i, pol>>
      BY <1>3 DEF SetScheduleProps_Affinity
    <2>7. aff'[i] = AffinityAfter(table[i], AllCpus)
      BY <2>2, <2>4 DEF TypeOK
    <2>8. \A f \in Fibers : f # i => aff'[f] = aff[f]
      BY <2>4, <2>5 DEF TypeOK
    <2>9. \A f \in Fibers : f <= i <=> f < i \/ f = i
      BY <2>1 DEF Fibers
    <2> QED BY <2>6, <2>7, <2>8, <2>9, SMT DEF PropsInv, Alive
  <1>4. CASE SetScheduleProps_Scheduler
    <2>1. i \in Fibers /\ Target(kernel_tid[i], Main) = i
      <3>1. i \in Fibers /\ fpc[i] \in PastCondWait
        BY <1>4 DEF SetScheduleProps_Scheduler, ReadyInv, TypeOK
      <3>2. kernel_tid[i] = i
        BY <3>1 DEF TidInv, PastCondWait
      <3> QED BY <3>1, <3>2 DEF Target, Fibers
    <2>2. i \in Threads
      BY <2>1 DEF Fibers, Threads
    <2>3. pol[i] = DefaultPol
      BY <1>4, <2>1 DEF SetScheduleProps_Scheduler, PropsInv, Alive, Fibers
    <2>4. pol' = [pol EXCEPT ![i] = SchedulerAfter(table[i], DefaultPol)]
      BY <1>4, <2>1, <2>3 DEF SetScheduleProps_Scheduler
    <2>5. \A f \in Fibers : f \in Threads
      BY DEF Fibers, Threads
    <2>6. /\ mpc = "scheduler"
          /\ mpc' = IF i < Count THEN "affinity" ELSE "start"
          /\ i' = i + 1
          /\ UNCHANGED <<table, aff>>
      BY <1>4 DEF SetScheduleProps_Scheduler
    <2>7. pol'[i] = SchedulerAfter(table[i], DefaultPol)
      BY <2>2, <2>4 DEF TypeOK
    <2>8. \A f \in Fibers : f # i => pol'[f] = pol[f]
      BY <2>4, <2>5 DEF TypeOK
    <2>9. \A f \in Fibers : /\ f < i + 1 <=> f <= i
                            /\ f <= i <=> f < i \/ f = i
                            /\ ~(i < Count) => f <= i
      BY <2>1 DEF Fibers
    <2> QED BY <2>6, <2>7, <2>8, <2>9, SMT DEF PropsInv, Alive
  <1>5. CASE /\ UNCHANGED <<table, aff, pol>>
             /\ mpc \notin {"affinity", "scheduler"}
             /\ mpc' \notin {"affinity", "scheduler"}
             /\ mpc \in {"start", "broadcast", "unlock", "join"} <=>
                   mpc' \in {"start", "broadcast", "unlock", "join"}
             /\ mpc # "exit"
    BY <1>5 DEF PropsInv, Alive
  <1>6. CASE UNCHANGED vars
    BY <1>6 DEF PropsInv, Alive, vars
  <1> QED
    BY <1>1, <1>2, <1>3, <1>4, <1>5, <1>6 DEF Next, MainNext, Exited, Alive,
       BuildScheduler_Create, BuildScheduler_CreateFails,
       BuildScheduler_Created, BuildScheduler_Sleep, StartScheduler_Lock,
       StartScheduler_Broadcast, StartScheduler_Unlock, SignalHandler_Term,
       PropsInv

\* The inductive invariant.
IInv == TypeOK /\ TidInv /\ CreatedInv /\ ReadyInv /\ ValidInv /\ PropsInv

\* The invariant holds of every reachable state.
LEMMA Inductive == Spec => []IInv
  <1>1. Init => IInv
    BY TypeInit DEF Init, IInv, TidInv, CreatedInv, ReadyInv, ValidInv, PropsInv, AffDone,
       PolDone, Fibers, Threads
  <1>2. IInv /\ [Next]_vars => IInv'
    BY TypeStep, TidStep, CreatedStep, ReadyStep, ValidStep, PropsStep DEF IInv
  <1> QED BY <1>1, <1>2, PTL DEF Spec

-----------------------------------------------------------------------------
(* The theorems *)

\* If one second is enough for every fiber to reach pthread_cond_wait, then
\* when the scheduler starts every fiber has the cpu of its element, if there
\* is such a cpu, and its policy and priority, if the process may set them.
THEOREM Configured == Spec => []ConfiguredAtStart
  <1>1. IInv => ConfiguredAtStart
    <2> SUFFICES ASSUME IInv, timely, Started, NEW f \in Fibers
                 PROVE  /\ aff[f] = AffinityAfter(table[f], AllCpus)
                        /\ CapSysNice => pol[f] = <<table[f].policy, table[f].prio>>
      BY DEF ConfiguredAtStart
    <2>1. /\ aff[f] = AffinityAfter(table[f], AllCpus)
          /\ pol[f] = SchedulerAfter(table[f], DefaultPol)
      BY DEF IInv, PropsInv, Started, Alive, AffDone, PolDone
    <2>2. PrioValid(table[f])
      BY DEF IInv, ValidInv, Started, baa_is_fiber_config_valid
    <2> QED BY <2>1, <2>2 DEF SchedulerAfter, SchedulerAccepted
  <1> QED BY <1>1, Inductive, PTL

\* Under the same assumption the thread that configures the fibers keeps its
\* own affinity and policy: no call is made with the tid 0.
THEOREM MainSafe == Spec => []MainUntouched
  <1>1. Init => MainUntouched
    BY DEF Init, MainUntouched, Main, Threads
  <1>2. IInv /\ MainUntouched /\ [Next]_vars => MainUntouched'
    <2> SUFFICES ASSUME IInv, MainUntouched, [Next]_vars, timely, timely'
                 PROVE  MainUntouched'
      BY EnvFixed DEF MainUntouched
    <2>1. ASSUME mpc \in {"affinity", "scheduler"}
          PROVE  Target(kernel_tid[i], Main) # Main
      <3>1. i \in Fibers /\ fpc[i] \in PastCondWait
        BY <2>1 DEF IInv, ReadyInv, TypeOK
      <3>2. kernel_tid[i] = i
        BY <3>1 DEF IInv, TidInv, PastCondWait
      <3> QED BY <3>1, <3>2 DEF Target, Fibers, Main
    <2>2. CASE SetScheduleProps_Affinity
      BY <2>1, <2>2 DEF SetScheduleProps_Affinity, IInv, TypeOK, MainUntouched
    <2>3. CASE SetScheduleProps_Scheduler
      BY <2>1, <2>3 DEF SetScheduleProps_Scheduler, IInv, TypeOK, MainUntouched
    <2>4. ASSUME NEW f \in Fibers, FiberNext(f) \/ Cond_SpuriousWakeup(f)
          PROVE  MainUntouched'
      BY <2>4, FiberStep DEF IInv, MainUntouched
    <2>5. CASE UNCHANGED <<aff, pol>>
      BY <2>5 DEF MainUntouched
    <2> QED
      BY <2>2, <2>3, <2>4, <2>5 DEF Next, MainNext, vars, Exited,
         BuildScheduler_Create, BuildScheduler_CreateFails,
         BuildScheduler_Created, BuildScheduler_Sleep, Main_Validate,
         StartScheduler_Lock, StartScheduler_Broadcast,
         StartScheduler_Unlock, SignalHandler_Term
  <1> QED BY <1>1, <1>2, Inductive, PTL DEF Spec

\* Without any assumption on time: a fiber that stores its tid late may get
\* no properties, but never the cpu or the policy of another element.
THEOREM NeverCross == Spec => []PropsNeverCross
  <1>1. Init => PropsNeverCross
    BY DEF Init, PropsNeverCross, Fibers, Threads
  <1>2. IInv /\ PropsNeverCross /\ [Next]_vars => PropsNeverCross'
    <2> SUFFICES ASSUME IInv, PropsNeverCross, [Next]_vars
                 PROVE  PropsNeverCross'
      OBVIOUS
    <2>1. \A f \in Fibers : f \in Threads
      BY DEF Fibers, Threads
    <2>2. ASSUME mpc \in {"affinity", "scheduler"}
          PROVE  i \in Fibers /\ Target(kernel_tid[i], Main) \in {i, Main}
      BY <2>2 DEF IInv, TypeOK, TidInv, Target
    <2>3. Main \notin Fibers
      BY DEF Main, Fibers
    <2>4. CASE SetScheduleProps_Affinity
      <3>1. \A f \in Fibers : f # i => aff'[f] = aff[f]
        BY <2>1, <2>2, <2>3, <2>4 DEF SetScheduleProps_Affinity, IInv, TypeOK
      <3>2. aff'[i] \in {aff[i], {table[i].cpu}}
        BY <2>1, <2>2, <2>3, <2>4 DEF SetScheduleProps_Affinity, IInv, TypeOK,
           AffinityAfter
      <3>3. i \in Fibers /\ UNCHANGED <<table, pol>>
        BY <2>2, <2>4 DEF SetScheduleProps_Affinity
      <3> QED BY <3>1, <3>2, <3>3 DEF PropsNeverCross
    <2>5. CASE SetScheduleProps_Scheduler
      <3>1. \A f \in Fibers : f # i => pol'[f] = pol[f]
        BY <2>1, <2>2, <2>3, <2>5 DEF SetScheduleProps_Scheduler, IInv, TypeOK
      <3>2. pol'[i] \in {pol[i], <<table[i].policy, table[i].prio>>}
        BY <2>1, <2>2, <2>3, <2>5 DEF SetScheduleProps_Scheduler, IInv,
           TypeOK, SchedulerAfter
      <3>3. i \in Fibers /\ UNCHANGED <<table, aff>>
        BY <2>2, <2>5 DEF SetScheduleProps_Scheduler
      <3> QED BY <3>1, <3>2, <3>3 DEF PropsNeverCross
    <2>6. ASSUME NEW f \in Fibers, FiberNext(f) \/ Cond_SpuriousWakeup(f)
          PROVE  PropsNeverCross'
      BY <2>6, FiberStep DEF IInv, PropsNeverCross
    <2>7. CASE UNCHANGED <<table, aff, pol>>
      BY <2>7 DEF PropsNeverCross
    <2> QED
      BY <2>4, <2>5, <2>6, <2>7 DEF Next, MainNext, vars, Exited,
         BuildScheduler_Create, BuildScheduler_CreateFails,
         BuildScheduler_Created, BuildScheduler_Sleep, Main_Validate,
         StartScheduler_Lock, StartScheduler_Broadcast,
         StartScheduler_Unlock, SignalHandler_Term
  <1> QED BY <1>1, <1>2, Inductive, PTL DEF Spec

\* A released fiber stays released, and only the broadcast or a spurious
\* wakeup releases one.
LEMMA ReleaseStep ==
    ASSUME TypeOK, CreatedInv, [Next]_vars, NEW g \in Fibers
    PROVE  /\ fpc[g] \in Released => fpc'[g] \in Released
           /\ fpc'[g] \in Released /\ fpc[g] \notin Released =>
                 \/ StartScheduler_Broadcast
                 \/ spurious /\ mpc' = mpc
  <1> USE DEF Released, PastCondWait
  <1>1. ASSUME NEW f \in Fibers, FiberNext(f) \/ Cond_SpuriousWakeup(f)
        PROVE  /\ fpc[g] \in Released => fpc'[g] \in Released
               /\ fpc'[g] \in Released /\ fpc[g] \notin Released =>
                     spurious /\ mpc' = mpc
    BY <1>1, FiberStep DEF TypeOK
  <1>2. CASE BuildScheduler_Create
    <2>1. fpc' = [fpc EXCEPT ![i] = "born"]
      BY <1>2 DEF BuildScheduler_Create
    <2>2. fpc[i] = "none"
      BY <1>2 DEF BuildScheduler_Create, CreatedInv, TypeOK, Fibers
    <2> QED BY <2>1, <2>2 DEF TypeOK
  <1>3. CASE StartScheduler_Broadcast
    BY <1>3 DEF StartScheduler_Broadcast, TypeOK
  <1>4. CASE UNCHANGED fpc
    BY <1>4
  <1> QED
    BY <1>1, <1>2, <1>3, <1>4 DEF Next, MainNext, vars, Exited,
       BuildScheduler_CreateFails, BuildScheduler_Created,
       BuildScheduler_Sleep, Main_Validate, SetScheduleProps_Affinity,
       SetScheduleProps_Scheduler, StartScheduler_Lock, StartScheduler_Unlock,
       SignalHandler_Term

\* When the broadcast finds every fiber at the wait, it releases every fiber.
LEMMA BroadcastReleasesAll ==
    ASSUME IInv, timely, StartScheduler_Broadcast
    PROVE  \A g \in Fibers : fpc'[g] \in Released
  BY DEF StartScheduler_Broadcast, IInv, ReadyInv, TypeOK, Released,
     PastCondWait

\* baa_start_scheduler has broadcast exactly when main is past that point.
LEMMA StartedStep ==
    ASSUME IInv, [Next]_vars
    PROVE  /\ Started => Started' \/ ~Alive'
           /\ ~Alive => ~Alive'
           /\ Started' => Started \/ StartScheduler_Broadcast
           /\ StartScheduler_Broadcast => Started'
  <1>1. ASSUME NEW f \in Fibers, FiberNext(f) \/ Cond_SpuriousWakeup(f)
        PROVE  mpc' = mpc
    BY <1>1, FiberStep DEF IInv
  <1> QED
    BY <1>1 DEF Next, MainNext, vars, Exited, Started, Alive,
       BuildScheduler_Create, BuildScheduler_CreateFails,
       BuildScheduler_Created, BuildScheduler_Sleep, Main_Validate,
       SetScheduleProps_Affinity, SetScheduleProps_Scheduler,
       StartScheduler_Lock, StartScheduler_Broadcast, StartScheduler_Unlock,
       SignalHandler_Term

\* If one second is enough, the broadcast reaches every fiber: none is left
\* in the condition wait, where nobody would wake it.
THEOREM NoWakeupLost == Spec => []NoLostWakeup
  <1>1. Init => NoLostWakeup
    BY DEF Init, NoLostWakeup, Started
  <1>2. IInv /\ NoLostWakeup /\ [Next]_vars => NoLostWakeup'
    <2> SUFFICES ASSUME IInv, NoLostWakeup, [Next]_vars, timely, Started',
                        NEW g \in Fibers
                 PROVE  fpc'[g] \in Released
      BY EnvFixed DEF NoLostWakeup, Released, PastCondWait
    <2>1. CASE Started
      BY <2>1, ReleaseStep DEF NoLostWakeup, Released, IInv
    <2>2. CASE StartScheduler_Broadcast
      BY <2>2, BroadcastReleasesAll
    <2> QED BY <2>1, <2>2, StartedStep
  <1> QED BY <1>1, <1>2, Inductive, PTL DEF Spec

\* Without spurious wakeups no fiber passes the condition wait before
\* baa_start_scheduler has broadcast, however slow the fibers are.
THEOREM NotEarly == Spec => []NoEarlyStart
  <1>1. Init => NoEarlyStart
    BY DEF Init, NoEarlyStart, PastCondWait
  <1>2. IInv /\ NoEarlyStart /\ [Next]_vars => NoEarlyStart'
    <2> SUFFICES ASSUME IInv, NoEarlyStart, [Next]_vars, ~spurious,
                        NEW g \in Fibers, fpc'[g] \in Released
                 PROVE  Started' \/ ~Alive'
      BY EnvFixed DEF NoEarlyStart, Released, PastCondWait
    <2>1. CASE fpc[g] \in Released
      BY <2>1, StartedStep DEF NoEarlyStart, Released
    <2>2. CASE fpc[g] \notin Released
      BY <2>2, ReleaseStep, StartedStep DEF IInv
    <2> QED BY <2>1, <2>2
  <1> QED BY <1>1, <1>2, Inductive, PTL DEF Spec

\* With both assumptions the fibers start together: when the first one is in
\* its cycle, every other has stored its tid and been released.
THEOREM Together == Spec => []StartTogether
  <1> DEFINE AllOrNone == timely /\ ~spurious /\ (\E f \in Fibers : fpc[f] \in Released) =>
                             \A g \in Fibers : fpc[g] \in Released
  <1>1. Init => AllOrNone
    BY DEF Init, Released, PastCondWait
  <1>2. IInv /\ AllOrNone /\ [Next]_vars => AllOrNone'
    <2> SUFFICES ASSUME IInv, AllOrNone, [Next]_vars, timely, ~spurious,
                        NEW f \in Fibers, fpc'[f] \in Released,
                        NEW g \in Fibers
                 PROVE  fpc'[g] \in Released
      BY EnvFixed DEF Released, PastCondWait
    <2>1. CASE fpc[f] \in Released
      BY <2>1, ReleaseStep DEF IInv
    <2>2. CASE fpc[f] \notin Released
      BY <2>2, ReleaseStep, BroadcastReleasesAll DEF IInv
    <2> QED BY <2>1, <2>2
  <1>3. IInv /\ AllOrNone => StartTogether
    BY DEF IInv, TidInv, StartTogether, Released, PastCondWait
  <1> HIDE DEF AllOrNone
  <1> QED BY <1>1, <1>2, <1>3, Inductive, PTL DEF Spec

=============================================================================
