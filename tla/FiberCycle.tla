----------------------------- MODULE FiberCycle -----------------------------
(***************************************************************************)
(* The cycle of baa_fiber (src/fiber.c) after the scheduler has started:   *)
(*                                                                         *)
(*     t = clock_gettime() + 1 s, rounded down to the full second          *)
(*     for (;;) { clock_nanosleep(t); func(); t += dt; baa_ts_norm(t); }   *)
(*                                                                         *)
(* Time is counted in ticks of which a second has NsecPerSec; tv_nsec is a *)
(* signed long of the range -LongMax-1 .. LongMax. On the 32-bit boards    *)
(* the library is made for, LongMax is only 2.147 times NSEC_PER_SEC.      *)
(***************************************************************************)
EXTENDS Integers

CONSTANTS
    Fibers,          \* the running fibers
    Tables,          \* the periods a table may have; baa_is_fiber_config_valid
                     \* does not look at them
    NsecPerSec,      \* NSEC_PER_SEC
    LongMax,         \* LONG_MAX
    MaxStart,        \* bound: every fiber has started by this time
    MaxNow,          \* bound: the clock stops here
    MaxActivations   \* bound: the calls of its function a fiber makes

ASSUME NsecAssumption == NsecPerSec \in Nat \ {0}
ASSUME LongAssumption == LongMax \in Nat /\ LongMax >= NsecPerSec
ASSUME DtAssumption   == Tables \subseteq [Fibers -> -LongMax - 1 .. LongMax]
ASSUME BoundAssumption == MaxStart \in Nat /\ MaxNow \in Nat /\ MaxActivations \in Nat

VARIABLES
    now,     \* CLOCK_MONOTONIC, in ticks
    dt,      \* fiber_array[f].dt
    t,       \* fiber->t, a struct timespec
    act,     \* what the fiber is doing
    start,   \* history: the time clock_gettime gave the fiber at its start
    k,       \* history: the calls of func() that have returned
    early    \* history: a signal ended the last sleep of the fiber

vars == <<now, dt, t, act, start, k, early>>

Long == -LongMax - 1 .. LongMax

\* What the sum of two longs may be. Overflow of a signed type is undefined in
\* C: every long may come out, not only the one of a wrap-around.
AddLong(a, b) == IF a + b \in Long THEN {a + b} ELSE Long

\* The kernel refuses (EINVAL) a timespec whose tv_nsec is not below a second.
ValidTimespec(ts) == 0 <= ts.nsec /\ ts.nsec < NsecPerSec

Ticks(ts) == ts.sec * NsecPerSec + ts.nsec

Init ==
    /\ now \in 0 .. NsecPerSec - 1
    /\ dt \in Tables
    /\ t = [f \in Fibers |-> [sec |-> 0, nsec |-> 0]]
    /\ act = [f \in Fibers |-> "off"]
    /\ start = [f \in Fibers |-> 0]
    /\ k = [f \in Fibers |-> 0]
    /\ early = [f \in Fibers |-> FALSE]

\* The clock goes on, whatever the fibers do: a fiber may be delayed by any
\* number of ticks, and a function may take longer than its period.
Tick ==
    /\ now < IF \E f \in Fibers : act[f] = "off" THEN MaxStart ELSE MaxNow
    /\ now' = now + 1
    /\ UNCHANGED <<t, act, start, k, dt, early>>

\* Mutant: tv_nsec of the clock is kept.
Mut_StartKeepsNsec(f) ==
    /\ act[f] = "off"
    /\ t' = [t EXCEPT ![f] = [sec  |-> now \div NsecPerSec + 1,
                              nsec |-> now % NsecPerSec]]
    /\ start' = [start EXCEPT ![f] = now]
    /\ act' = [act EXCEPT ![f] = "sleep"]
    /\ UNCHANGED <<now, k, dt, early>>

\* The first release is the next full second.
Fiber_Start(f) ==
    /\ act[f] = "off"
    /\ t' = [t EXCEPT ![f] = [sec |-> now \div NsecPerSec + 1, nsec |-> 0]]
    /\ start' = [start EXCEPT ![f] = now]
    /\ act' = [act EXCEPT ![f] = "sleep"]
    /\ UNCHANGED <<now, k, dt, early>>

\* Mutant: the sleep lasts until the start of the second only.
Mut_SleepIgnoresNsec(f) ==
    /\ act[f] = "sleep"
    /\ now >= t[f].sec * NsecPerSec
    /\ act' = [act EXCEPT ![f] = "func"]
    /\ early' = [early EXCEPT ![f] = FALSE]
    /\ UNCHANGED <<now, t, start, k, dt>>

\* Mutant: a release that has already passed is waited for in vain.
Mut_WakeOnTimeOnly(f) ==
    /\ act[f] = "sleep"
    /\ ~ValidTimespec(t[f]) \/ now = Ticks(t[f])
    /\ act' = [act EXCEPT ![f] = "func"]
    /\ early' = [early EXCEPT ![f] = FALSE]
    /\ UNCHANGED <<now, t, start, k, dt>>

\* clock_nanosleep(TIMER_ABSTIME) returns: at the release or at any later
\* time, or at once if it refuses t. The result is not looked at but for
\* EINTR, and func() is called.
Fiber_Wake(f) ==
    /\ act[f] = "sleep"
    /\ ~ValidTimespec(t[f]) \/ now >= Ticks(t[f])
    /\ act' = [act EXCEPT ![f] = "func"]
    /\ early' = [early EXCEPT ![f] = FALSE]
    /\ UNCHANGED <<now, t, start, k, dt>>

\* A handler such as baa_sigint_handler_sched ran during the sleep: EINTR is
\* logged, and func() is called before its release.
Fiber_Interrupted(f) ==
    /\ act[f] = "sleep"
    /\ act' = [act EXCEPT ![f] = "func"]
    /\ early' = [early EXCEPT ![f] = TRUE]
    /\ UNCHANGED <<now, t, start, k, dt>>

\* Mutant: the next release is computed from the time of the return.
Mut_ReturnFromNow(f) ==
    /\ act[f] = "func"
    /\ k[f] < MaxActivations
    /\ \E s \in AddLong(now % NsecPerSec, dt[f]) :
         t' = [t EXCEPT ![f] = [sec |-> now \div NsecPerSec, nsec |-> s]]
    /\ k' = [k EXCEPT ![f] = @ + 1]
    /\ act' = [act EXCEPT ![f] = "norm"]
    /\ UNCHANGED <<now, start, dt, early>>

\* func() returns and dt is added to tv_nsec.
Fiber_Return(f) ==
    /\ act[f] = "func"
    /\ k[f] < MaxActivations
    /\ \E s \in AddLong(t[f].nsec, dt[f]) : t' = [t EXCEPT ![f].nsec = s]
    /\ k' = [k EXCEPT ![f] = @ + 1]
    /\ act' = [act EXCEPT ![f] = "norm"]
    /\ UNCHANGED <<now, start, dt, early>>

\* Mutant: baa_ts_norm with > instead of >=.
Mut_NormGreater(f) ==
    /\ act[f] = "norm"
    /\ IF t[f].nsec > NsecPerSec
       THEN /\ t' = [t EXCEPT ![f] = [sec |-> @.sec + 1, nsec |-> @.nsec - NsecPerSec]]
            /\ act' = act
       ELSE /\ t' = t
            /\ act' = [act EXCEPT ![f] = "sleep"]
    /\ UNCHANGED <<now, start, k, dt, early>>

\* Mutant: an if where baa_ts_norm has its loop.
Mut_NormOnce(f) ==
    /\ act[f] = "norm"
    /\ t' = [t EXCEPT ![f] = IF @.nsec >= NsecPerSec
                             THEN [sec |-> @.sec + 1, nsec |-> @.nsec - NsecPerSec]
                             ELSE @]
    /\ act' = [act EXCEPT ![f] = "sleep"]
    /\ UNCHANGED <<now, start, k, dt, early>>

\* One test of the loop of baa_ts_norm, with its body.
baa_ts_norm(f) ==
    /\ act[f] = "norm"
    /\ IF t[f].nsec >= NsecPerSec
       THEN /\ t' = [t EXCEPT ![f] = [sec |-> @.sec + 1, nsec |-> @.nsec - NsecPerSec]]
            /\ act' = act
       ELSE /\ t' = t
            /\ act' = [act EXCEPT ![f] = "sleep"]
    /\ UNCHANGED <<now, start, k, dt, early>>

FiberNext(f) ==
    \/ Fiber_Start(f)
    \/ Fiber_Wake(f)
    \/ Fiber_Return(f)
    \/ baa_ts_norm(f)

\* The bounds are reached; the program itself never stops.
AtBounds ==
    /\ now = MaxNow
    /\ \A f \in Fibers : act[f] = "func" /\ k[f] = MaxActivations
    /\ UNCHANGED vars

Next ==
    \/ Tick
    \/ \E f \in Fibers : FiberNext(f) \/ Fiber_Interrupted(f)
    \/ AtBounds

Spec == Init /\ [][Next]_vars

\* The clock goes on, the kernel runs a fiber that is released, and func()
\* returns. Nothing is assumed of signals.
FairSpec == Spec /\ WF_vars(Tick) /\ \A f \in Fibers : WF_vars(FiberNext(f))

-----------------------------------------------------------------------------
(* Properties *)

\* The periods that fit: no sum of a tv_nsec below a second and dt overflows.
Fits(f) == 0 <= dt[f] /\ NsecPerSec - 1 + dt[f] <= LongMax

\* The time the k-th release of a fiber (counted from 0) is meant to have.
FirstRelease(f) == (start[f] \div NsecPerSec + 1) * NsecPerSec
Release(f, n)   == FirstRelease(f) + n * dt[f]

Timespec == [sec : Int, nsec : Long]

\* Type invariant. A tv_nsec handed to clock_nanosleep is below a second for
\* every period, also for the ones that overflow the sum or are negative: the
\* loop of baa_ts_norm brings down whatever the sum was.
TypeOK ==
    /\ now \in Nat
    /\ t \in [Fibers -> Timespec]
    /\ act \in [Fibers -> {"off", "sleep", "func", "norm"}]
    /\ \A f \in Fibers : act[f] # "norm" => t[f].nsec < NsecPerSec
    /\ start \in [Fibers -> Nat]
    /\ k \in [Fibers -> Nat]
    /\ dt \in Tables
    /\ early \in [Fibers -> BOOLEAN]

\* The schedule does not drift: whatever the delays, overruns and signals,
\* the release that fiber->t holds is the first one plus k periods, exactly.
NoDrift == \A f \in Fibers :
    Fits(f) /\ act[f] # "off" => Ticks(t[f]) = Release(f, k[f])

\* clock_nanosleep never gets a tv_nsec it refuses, so a fiber really sleeps.
SleepsNormalised == \A f \in Fibers :
    Fits(f) /\ act[f] \in {"sleep", "func"} => ValidTimespec(t[f])

\* The function group is called before its release only if a signal has ended
\* the very sleep before it: neither catching up after an overrun nor an early
\* call before makes a later one early.
NeverEarly == \A f \in Fibers :
    Fits(f) /\ act[f] = "func" /\ ~early[f] => now >= Release(f, k[f])

\* Fibers keep their relative phase for ever: after as many common periods
\* their releases have the same tv_nsec, and are as many full seconds apart as
\* the fibers' starts were, none if they started within one second. Only the
\* start can put whole seconds between two fibers of a schedule.
InPhase == \A f, g \in Fibers :
    /\ Fits(f) /\ Fits(g)
    /\ act[f] = "sleep" /\ act[g] = "sleep"
    /\ k[f] * dt[f] = k[g] * dt[g]
    => /\ t[f].nsec = t[g].nsec
       /\ t[f].sec - t[g].sec = start[f] \div NsecPerSec - start[g] \div NsecPerSec

\* No release is skipped and no fiber gets stuck, in its sleep or in
\* baa_ts_norm: each makes all its calls (the bound), back to back after an
\* overrun, with negative and overflowing periods too.
EveryReleaseServed == \A f \in Fibers : <>(k[f] = MaxActivations)

=============================================================================
