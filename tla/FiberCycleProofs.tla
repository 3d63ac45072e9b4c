-------------------------- MODULE FiberCycleProofs --------------------------
(***************************************************************************)
(* Proofs about FiberCycle for every number of fibers, every period, every *)
(* length of a second and every width of tv_nsec.                          *)
(***************************************************************************)
EXTENDS FiberCycle, TLAPS

USE NsecAssumption, LongAssumption, DtAssumption, BoundAssumption

\* Multiplication by a successor, for the provers.
LEMMA MulSucc == ASSUME NEW a \in Int, NEW b \in Int
                 PROVE  (a + 1) * b = a * b + b
  OBVIOUS

\* The number of the second an instant lies in is a natural number.
LEMMA SecondOf == ASSUME NEW x \in Nat PROVE x \div NsecPerSec \in Nat
  OBVIOUS

\* The sum of two longs is some long, and exact where it does not overflow.
LEMMA AddLongFacts ==
    ASSUME NEW a \in Long, NEW b \in Long
    PROVE  /\ AddLong(a, b) \subseteq Long
           /\ 0 <= a /\ 0 <= b /\ a + b <= LongMax => AddLong(a, b) = {a + b}
  BY DEF AddLong, Long

-----------------------------------------------------------------------------
(* Type correctness *)

\* The initial state has the declared types.
LEMMA TypeInit == Init => TypeOK
  BY DEF Init, TypeOK, Timespec, Long

\* Every step keeps the declared types.
LEMMA TypeStep == TypeOK /\ [Next]_vars => TypeOK'
  <1> SUFFICES ASSUME TypeOK, [Next]_vars PROVE TypeOK'
    OBVIOUS
  <1> USE DEF TypeOK, Timespec
  <1>1. CASE Tick
    BY <1>1 DEF Tick
  <1>2. ASSUME NEW f \in Fibers, Fiber_Start(f) PROVE TypeOK'
    BY <1>2, SecondOf DEF Fiber_Start, Long
  <1>3. ASSUME NEW f \in Fibers, Fiber_Wake(f) \/ Fiber_Interrupted(f)
        PROVE TypeOK'
    BY <1>3 DEF Fiber_Wake, Fiber_Interrupted
  <1>4. ASSUME NEW f \in Fibers, Fiber_Return(f) PROVE TypeOK'
    <2>1. AddLong(t[f].nsec, dt[f]) \subseteq Long
      BY AddLongFacts DEF Long
    <2>2. PICK s \in AddLong(t[f].nsec, dt[f]) : t' = [t EXCEPT ![f].nsec = s]
      BY <1>4 DEF Fiber_Return
    <2>3. t' \in [Fibers -> Timespec]
      BY <2>1, <2>2
    <2>4. act' = [act EXCEPT ![f] = "norm"]
      BY <1>4 DEF Fiber_Return
    <2>5. \A g \in Fibers : act'[g] # "norm" => t'[g].nsec < NsecPerSec
      BY <2>2, <2>4
    <2> QED BY <1>4, <2>3, <2>4, <2>5 DEF Fiber_Return
  <1>5. ASSUME NEW f \in Fibers, baa_ts_norm(f) PROVE TypeOK'
    <2>1. CASE t[f].nsec >= NsecPerSec
      <3>1. [sec |-> t[f].sec + 1, nsec |-> t[f].nsec - NsecPerSec] \in Timespec
        BY <2>1 DEF Long
      <3> QED BY <1>5, <2>1, <3>1 DEF baa_ts_norm
    <2>2. CASE ~(t[f].nsec >= NsecPerSec)
      <3>1. t' = t /\ act' = [act EXCEPT ![f] = "sleep"] /\ t[f].nsec < NsecPerSec
        BY <1>5, <2>2 DEF baa_ts_norm, Long
      <3>2. \A g \in Fibers : act'[g] # "norm" => t'[g].nsec < NsecPerSec
        BY <3>1
      <3> QED BY <1>5, <3>1, <3>2 DEF baa_ts_norm
    <2> QED BY <2>1, <2>2
  <1>6. CASE AtBounds \/ UNCHANGED vars
    BY <1>6 DEF AtBounds, vars
  <1> QED BY <1>1, <1>2, <1>3, <1>4, <1>5, <1>6 DEF Next, FiberNext

\* Type correctness for every period. No tv_nsec beyond a second reaches
\* clock_nanosleep, not even when dt overflows the sum in baa_fiber and any
\* long may come out: only a negative one can be refused there.
THEOREM TypeCorrect == Spec => []TypeOK
  BY TypeInit, TypeStep, PTL DEF Spec

-----------------------------------------------------------------------------
(* The release times *)

\* What holds of one fiber whose period fits. A fiber inside baa_ts_norm has
\* a tv_nsec beyond a second, but the instant it denotes is already right.
CycleInv(f) ==
    /\ act[f] = "off" => k[f] = 0
    /\ act[f] \in {"sleep", "func"} => ValidTimespec(t[f])
    /\ act[f] = "norm" => 0 <= t[f].nsec
    /\ act[f] # "off" => Ticks(t[f]) = Release(f, k[f])

\* A step of the cycle of a fiber keeps its invariant.
LEMMA CycleStep ==
    ASSUME TypeOK, NEW f \in Fibers, Fits(f), CycleInv(f),
           FiberNext(f) \/ Fiber_Interrupted(f)
    PROVE  CycleInv(f)'
  <1> DEFINE n == NsecPerSec
  <1>0. /\ dt[f] \in Int /\ k[f] \in Int /\ now \in Nat /\ start[f] \in Nat
        /\ t[f].sec \in Int /\ t[f].nsec \in Long /\ t[f].nsec \in Int
        /\ t[f] = [sec |-> t[f].sec, nsec |-> t[f].nsec]
    BY DEF TypeOK, Timespec, Long
  <1>d. dt' = dt
    BY DEF FiberNext, Fiber_Start, Fiber_Wake, Fiber_Interrupted, Fiber_Return,
       baa_ts_norm
  <1>1. CASE Fiber_Start(f)
    <2>1. /\ t'[f] = [sec |-> now \div n + 1, nsec |-> 0]
          /\ start'[f] = now /\ act'[f] = "sleep" /\ k'[f] = 0
      BY <1>1 DEF Fiber_Start, TypeOK, CycleInv
    <2>2. now \div n \in Nat
      BY <1>0, SecondOf
    <2>3. Ticks(t'[f]) = (now \div n + 1) * n
      BY <2>1, <2>2 DEF Ticks
    <2>4. Release(f, k[f])' = (now \div n + 1) * n
      BY <1>0, <1>d, <2>1, <2>2 DEF Release, FirstRelease
    <2> QED BY <2>1, <2>3, <2>4 DEF CycleInv, ValidTimespec, Ticks
  <1>2. CASE Fiber_Wake(f) \/ Fiber_Interrupted(f)
    BY <1>2, <1>d DEF Fiber_Wake, Fiber_Interrupted, TypeOK, CycleInv, Release,
       FirstRelease
  <1>3. CASE Fiber_Return(f)
    <2>1. AddLong(t[f].nsec, dt[f]) = {t[f].nsec + dt[f]}
      BY <1>0, <1>3, AddLongFacts DEF Fiber_Return, CycleInv, ValidTimespec,
         Fits, Long
    <2>2. /\ t'[f] = [sec |-> t[f].sec, nsec |-> t[f].nsec + dt[f]]
          /\ start' = start /\ act'[f] = "norm" /\ k'[f] = k[f] + 1
      BY <1>0, <1>3, <2>1 DEF Fiber_Return, TypeOK
    <2>3. Ticks(t'[f]) = Ticks(t[f]) + dt[f]
      BY <1>0, <2>2 DEF Ticks
    <2>4. Release(f, k[f])' = Release(f, k[f]) + dt[f]
      <3>1. FirstRelease(f) \in Int
        BY <1>0, SecondOf DEF FirstRelease
      <3>2. FirstRelease(f)' = FirstRelease(f)
        BY <2>2 DEF FirstRelease
      <3>3. (k[f] + 1) * dt[f] = k[f] * dt[f] + dt[f]
        BY <1>0, MulSucc
      <3> QED BY <1>0, <1>d, <2>2, <3>1, <3>2, <3>3 DEF Release
    <2>5. 0 <= t'[f].nsec
      BY <1>0, <1>3, <2>2 DEF Fiber_Return, CycleInv, ValidTimespec, Fits
    <2>6. Ticks(t[f]) = Release(f, k[f])
      BY <1>3 DEF Fiber_Return, CycleInv
    <2> QED BY <2>2, <2>3, <2>4, <2>5, <2>6 DEF CycleInv, Ticks
  <1>4. CASE baa_ts_norm(f)
    <2>1. start' = start /\ k' = k /\ Release(f, k[f])' = Release(f, k[f])
      BY <1>4, <1>d DEF baa_ts_norm, Release, FirstRelease
    <2>2. CASE t[f].nsec >= n
      <3>1. /\ t'[f] = [sec |-> t[f].sec + 1, nsec |-> t[f].nsec - n]
            /\ act' = act /\ act[f] = "norm"
        BY <1>4, <2>2 DEF baa_ts_norm, TypeOK
      <3>2. (t[f].sec + 1) * n = t[f].sec * n + n
        BY <1>0, MulSucc
      <3>3. Ticks(t'[f]) = Ticks(t[f])
        BY <1>0, <3>1, <3>2 DEF Ticks
      <3>4. 0 <= t'[f].nsec
        BY <1>0, <2>2, <3>1
      <3> QED BY <2>1, <3>1, <3>3, <3>4 DEF CycleInv, Ticks
    <2>3. CASE ~(t[f].nsec >= n)
      <3>1. t' = t /\ act[f] = "norm" /\ act'[f] = "sleep"
        BY <1>4, <2>3 DEF baa_ts_norm, TypeOK
      <3> QED BY <1>0, <2>1, <2>3, <3>1 DEF CycleInv, Ticks, ValidTimespec
    <2> QED BY <2>2, <2>3
  <1> QED BY <1>1, <1>2, <1>3, <1>4 DEF FiberNext

\* A step of one fiber, or of the clock, leaves the others alone.
LEMMA OthersUnchanged ==
    ASSUME TypeOK, NEW g \in Fibers,
           \/ Tick \/ AtBounds \/ UNCHANGED vars
           \/ \E f \in Fibers : f # g /\ (FiberNext(f) \/ Fiber_Interrupted(f))
    PROVE  /\ t'[g] = t[g] /\ act'[g] = act[g]
           /\ start'[g] = start[g] /\ k'[g] = k[g]
           /\ dt' = dt /\ early'[g] = early[g]
  <1>1. CASE Tick \/ AtBounds \/ UNCHANGED vars
    BY <1>1 DEF Tick, AtBounds, vars
  <1>2. ASSUME NEW f \in Fibers, f # g, FiberNext(f) \/ Fiber_Interrupted(f)
        PROVE  /\ t'[g] = t[g] /\ act'[g] = act[g]
               /\ start'[g] = start[g] /\ k'[g] = k[g]
               /\ dt' = dt /\ early'[g] = early[g]
    BY <1>2 DEF FiberNext, Fiber_Start, Fiber_Wake, Fiber_Interrupted,
       Fiber_Return, baa_ts_norm, TypeOK
  <1> QED BY <1>1, <1>2

\* The inductive invariant.
IInv == TypeOK /\ \A f \in Fibers : Fits(f) => CycleInv(f)

\* The invariant of the cycle holds of every fiber whose period fits.
LEMMA Inductive == Spec => []IInv
  <1>1. Init => IInv
    BY TypeInit DEF Init, IInv, CycleInv
  <1>2. IInv /\ [Next]_vars => IInv'
    <2>0. ASSUME [Next]_vars PROVE dt' = dt
      BY <2>0 DEF Next, vars, Tick, AtBounds, FiberNext, Fiber_Start,
         Fiber_Wake, Fiber_Interrupted, Fiber_Return, baa_ts_norm
    <2> SUFFICES ASSUME IInv, [Next]_vars, NEW g \in Fibers, Fits(g)
                 PROVE  CycleInv(g)'
      BY <2>0, TypeStep DEF IInv, Fits
    <2>1. TypeOK /\ CycleInv(g)
      BY DEF IInv
    <2>2. CASE FiberNext(g) \/ Fiber_Interrupted(g)
      BY <2>1, <2>2, CycleStep
    <2>3. CASE \/ Tick \/ AtBounds \/ UNCHANGED vars
               \/ \E f \in Fibers : f # g /\ (FiberNext(f) \/ Fiber_Interrupted(f))
      <3>1. /\ t'[g] = t[g] /\ act'[g] = act[g]
            /\ start'[g] = start[g] /\ k'[g] = k[g]
            /\ dt' = dt /\ early'[g] = early[g]
        BY <2>1, <2>3, OthersUnchanged
      <3> QED BY <2>1, <3>1 DEF CycleInv, Ticks, ValidTimespec, Release,
                 FirstRelease
    <2> QED BY <2>2, <2>3 DEF Next
  <1> QED BY <1>1, <1>2, PTL DEF Spec

\* No drift, for every period that fits: overruns of func(), late wakeups and
\* signals during clock_nanosleep never shift a later release.
THEOREM ReleasesExact == Spec => []NoDrift
  <1>1. IInv => NoDrift
    BY DEF IInv, CycleInv, NoDrift
  <1> QED BY <1>1, Inductive, PTL

\* For every period that fits, baa_ts_norm leaves a timespec that
\* clock_nanosleep accepts.
THEOREM AlwaysNormalised == Spec => []SleepsNormalised
  <1>1. IInv => SleepsNormalised
    BY DEF IInv, CycleInv, SleepsNormalised
  <1> QED BY <1>1, Inductive, PTL

\* No function group is called before its release unless a signal has ended
\* the sleep right before the call.
THEOREM NotBeforeRelease == Spec => []NeverEarly
  <1>1. Init => NeverEarly
    BY DEF Init, NeverEarly
  <1>2. IInv /\ NeverEarly /\ [Next]_vars => NeverEarly'
    <2>0. ASSUME [Next]_vars PROVE dt' = dt
      BY <2>0 DEF Next, vars, Tick, AtBounds, FiberNext, Fiber_Start,
         Fiber_Wake, Fiber_Interrupted, Fiber_Return, baa_ts_norm
    <2> SUFFICES ASSUME IInv, NeverEarly, [Next]_vars, NEW g \in Fibers,
                        Fits(g), act'[g] = "func", ~early'[g]
                 PROVE  now' >= Release(g, k[g])'
      BY <2>0 DEF NeverEarly, Fits
    <2>1. TypeOK /\ CycleInv(g)
      BY DEF IInv
    <2>2. CASE FiberNext(g)
      <3>1. /\ act[g] = "sleep"
            /\ ~ValidTimespec(t[g]) \/ now >= Ticks(t[g])
            /\ now' = now /\ k' = k /\ start' = start
        BY <2>1, <2>2 DEF FiberNext, Fiber_Start, Fiber_Wake, Fiber_Return,
           baa_ts_norm, TypeOK
      <3>2. ValidTimespec(t[g]) /\ Ticks(t[g]) = Release(g, k[g])
        BY <2>1, <3>1 DEF CycleInv
      <3>3. Release(g, k[g])' = Release(g, k[g])
        BY <2>0, <3>1 DEF Release, FirstRelease
      <3> QED BY <3>1, <3>2, <3>3
    <2>3. CASE \/ Tick \/ AtBounds \/ UNCHANGED vars
               \/ \E f \in Fibers : f # g /\ (FiberNext(f) \/ Fiber_Interrupted(f))
      <3>1. /\ t'[g] = t[g] /\ act'[g] = act[g]
            /\ start'[g] = start[g] /\ k'[g] = k[g]
            /\ dt' = dt /\ early'[g] = early[g]
        BY <2>1, <2>3, OthersUnchanged
      <3>2. now' = now \/ now' = now + 1
        BY <2>3 DEF Tick, AtBounds, vars, FiberNext, Fiber_Start, Fiber_Wake,
           Fiber_Interrupted, Fiber_Return, baa_ts_norm
      <3>3. now >= Release(g, k[g])
        BY <3>1 DEF NeverEarly
      <3>4. Release(g, k[g])' = Release(g, k[g])
        BY <3>1 DEF Release, FirstRelease
      <3>5. Release(g, k[g]) \in Int
        BY <2>1, SecondOf DEF Release, FirstRelease, TypeOK
      <3> QED BY <2>1, <3>2, <3>3, <3>4, <3>5 DEF TypeOK
    <2>4. CASE Fiber_Interrupted(g)
      BY <2>1, <2>4 DEF Fiber_Interrupted, TypeOK
    <2> QED BY <2>2, <2>3, <2>4 DEF Next
  <1> QED BY <1>1, <1>2, Inductive, PTL DEF Spec

\* Instants that are full seconds apart have the same tv_nsec once normalised.
LEMMA SecondsApart ==
    ASSUME NEW a \in Timespec, NEW b \in Timespec, NEW c \in Int,
           ValidTimespec(a), ValidTimespec(b),
           Ticks(a) = Ticks(b) + c * NsecPerSec
    PROVE  a.nsec = b.nsec /\ a.sec - b.sec = c
  <1> DEFINE n == NsecPerSec
             d == b.sec + c
  <1>0. a.sec \in Int /\ b.sec \in Int /\ d \in Int /\ a.nsec \in Int /\ b.nsec \in Int
    BY DEF Timespec, Long
  <1>1. ASSUME NEW x \in Int, NEW y \in Int, x + 1 <= y
        PROVE  x * n + n <= y * n
    BY <1>1
  <1>2. a.sec * n \in Int /\ b.sec * n \in Int /\ c * n \in Int /\ d * n \in Int
    BY <1>0
  <1>3. d * n = b.sec * n + c * n
    BY <1>0
  <1>4. a.sec * n + a.nsec = d * n + b.nsec
    BY <1>0, <1>2, <1>3 DEF Ticks
  <1> HIDE DEF d
  <1>5. ~(a.sec + 1 <= d)
    BY <1>0, <1>1, <1>2, <1>4 DEF ValidTimespec
  <1>6. ~(d + 1 <= a.sec)
    BY <1>0, <1>1, <1>2, <1>4 DEF ValidTimespec
  <1>7. a.sec = d
    BY <1>0, <1>5, <1>6
  <1>8. a.nsec = b.nsec
    BY <1>0, <1>2, <1>4, <1>7
  <1>9. a.sec - b.sec = c
    BY <1>0, <1>7 DEF d
  <1> QED BY <1>8, <1>9

\* The fibers of a schedule stay in phase, whatever the delays, overruns and
\* signals, and whichever seconds they have started in.
THEOREM StaysInPhase == Spec => []InPhase
  <1>1. IInv => InPhase
    <2> SUFFICES ASSUME IInv, NEW f \in Fibers, NEW g \in Fibers,
                        Fits(f), Fits(g), act[f] = "sleep", act[g] = "sleep",
                        k[f] * dt[f] = k[g] * dt[g]
                 PROVE  /\ t[f].nsec = t[g].nsec
                        /\ t[f].sec - t[g].sec
                             = start[f] \div NsecPerSec - start[g] \div NsecPerSec
      BY DEF InPhase
    <2> DEFINE n == NsecPerSec
               sf == start[f] \div n
               sg == start[g] \div n
    <2>1. /\ ValidTimespec(t[f]) /\ Ticks(t[f]) = Release(f, k[f])
          /\ ValidTimespec(t[g]) /\ Ticks(t[g]) = Release(g, k[g])
      BY DEF IInv, CycleInv
    <2>2. sf \in Nat /\ sg \in Nat
      BY SecondOf DEF IInv, TypeOK
    <2>3. k[g] * dt[g] \in Int
      BY DEF IInv, TypeOK
    <2>4. (sf + 1) * n = (sg + 1) * n + (sf - sg) * n
      BY <2>2
    <2>5. Release(f, k[f]) = Release(g, k[g]) + (sf - sg) * n
      BY <2>2, <2>3, <2>4 DEF Release, FirstRelease
    <2>6. t[f] \in Timespec /\ t[g] \in Timespec
      BY DEF IInv, TypeOK
    <2> HIDE DEF sf, sg
    <2>7. sf - sg \in Int
      BY <2>2
    <2>8. t[f].nsec = t[g].nsec /\ t[f].sec - t[g].sec = sf - sg
      BY <2>1, <2>5, <2>6, <2>7, SecondsApart
    <2> QED BY <2>8 DEF sf, sg
  <1> QED BY <1>1, Inductive, PTL

=============================================================================
