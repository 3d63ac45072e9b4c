-------------------------- MODULE UdsServerProofs --------------------------
(***************************************************************************)
(* Proofs about UdsServer for any set of processes.                        *)
(***************************************************************************)
EXTENDS UdsServer, TLAPS

\* Control points of main after some of its steps.
AfterPidOpen  == {"pid_write"}
AfterPidWrite == {"signals", "sock_unlink", "sock_bind", "sock_ret", "chmod",
                  "chown", "thread", "serve"}
AfterBind     == {"sock_ret", "chmod", "chown", "thread", "serve"}
AfterReturn   == {"chmod", "chown", "thread", "serve"}

\* A process that has run alone is the only one alive.
AloneInv == \A p \in Instances :
    Alive(p) /\ p \notin overlap => \A q \in Instances : Alive(q) => q = p

\* As long as it is not told to end, the names are its own from the step on
\* that makes them so.
NamesInv == \A p \in Instances :
    Alive(p) /\ p \notin overlap /\ xpc[p] = "none" =>
        /\ pc[p] \in AfterPidOpen \cup AfterPidWrite => pidname = p
        /\ pc[p] \in AfterPidWrite => p \in written
        /\ pc[p] \in AfterBind => sockname = p
        /\ pc[p] \in {"chown", "thread", "serve"} => p \in perm
        /\ pc[p] \in {"thread", "serve"} => p \in group

\* The pointers that cleanup uses are set with the files.
PointerInv == \A p \in Instances :
    /\ pc[p] \in AfterPidWrite => p \in pid_file
    /\ pc[p] \in AfterReturn => p \in kdo_file
    /\ pc[p] = "off" => xpc[p] = "none"

\* How far the cleanup of a process that was serving has come.
CleanupInv == \A p \in Instances : p \in orderly =>
    /\ pc[p] = "serve" /\ xpc[p] # "none"
    /\ xpc[p] \in {"unlink_pid", "gone"} => sockname # p
    /\ xpc[p] = "gone" => pidname # p

IInv == TypeOK /\ AloneInv /\ NamesInv /\ PointerInv /\ CleanupInv

-----------------------------------------------------------------------------
\* The initial state satisfies the invariant.
LEMMA InitInv == Init => IInv
  BY DEF Init, IInv, TypeOK, AloneInv, NamesInv, PointerInv, CleanupInv, Alive,
         AfterPidOpen, AfterPidWrite, AfterBind, AfterReturn, MayFail

\* A process that is started takes nothing from those that run alone.
LEMMA StartStep ==
    ASSUME IInv, NEW p \in Instances, Main_Start(p)
    PROVE  IInv'
  <1> USE DEF IInv, Main_Start, TypeOK, MayFail, files, modes, ptrs
  <1>1. TypeOK'
    OBVIOUS
  <1>2. \A q \in Instances : Alive(q)' <=> Alive(q) \/ q = p
    BY DEF Alive, PointerInv
  <1>3. AloneInv'
    BY <1>2 DEF AloneInv
  <1>4. NamesInv'
    BY <1>2 DEF NamesInv, AfterPidOpen, AfterPidWrite, AfterBind
  <1>5. PointerInv' /\ CleanupInv'
    BY DEF PointerInv, CleanupInv, AfterPidWrite, AfterReturn
  <1> QED BY <1>1, <1>3, <1>4, <1>5

\* What every step of a main thread has in common: nobody is started or ended,
\* and a process that has run alone sees no other one make such a step.
LEMMA MainFrame ==
    ASSUME IInv, NEW p \in Instances, NEW to, Alive(p),
           pc' = [pc EXCEPT ![p] = to], to # "off", UNCHANGED <<overlap, orderly>>,
           xpc' = xpc \/ xpc' = [xpc EXCEPT ![p] = IF @ = "none" THEN "close" ELSE @]
    PROVE  /\ AloneInv'
           /\ \A q \in Instances : Alive(q)' <=> Alive(q)
           /\ \A q \in Instances : Alive(q) /\ q \notin overlap => q = p
  <1>1. \A q \in Instances : Alive(q)' <=> Alive(q)
    BY DEF IInv, TypeOK, Alive
  <1> QED BY <1>1 DEF IInv, AloneInv

\* A step of the main thread of a process keeps the invariant: the names it
\* takes away from others are those of processes that do not run alone.
LEMMA MainStep ==
    ASSUME IInv, NEW p \in Instances, MainNext(p) \/ PidFile_OpenInterrupted(p)
    PROVE  IInv'
  <1> DEFINE Frame ==
        /\ AloneInv'
        /\ \A q \in Instances : Alive(q)' <=> Alive(q)
        /\ \A q \in Instances : Alive(q) /\ q \notin overlap => q = p
  <1> USE InstanceAssumption
      DEF TypeOK, NamesInv, PointerInv, CleanupInv, AfterPidOpen,
          AfterPidWrite, AfterBind, AfterReturn, MayFail, Step, files, modes, ptrs, hist
  <1>1. CASE baa_become_daemon(p)
    <2>1. Frame
      BY <1>1, MainFrame DEF baa_become_daemon
    <2>2. TypeOK' /\ PointerInv' /\ CleanupInv'
      BY <1>1 DEF IInv, baa_become_daemon
    <2>3. NamesInv'
      BY <1>1, <2>1 DEF IInv, baa_become_daemon
    <2> QED BY <2>1, <2>2, <2>3 DEF IInv
  <1>2. CASE PidFile_Unlink(p)
    <2>1. Frame
      BY <1>2, MainFrame DEF PidFile_Unlink
    <2>2. TypeOK' /\ PointerInv' /\ CleanupInv'
      BY <1>2 DEF IInv, PidFile_Unlink
    <2>3. NamesInv'
      BY <1>2, <2>1 DEF IInv, PidFile_Unlink
    <2> QED BY <2>1, <2>2, <2>3 DEF IInv
  <1>3. CASE PidFile_Open(p)
    <2>1. Frame
      BY <1>3, MainFrame DEF PidFile_Open
    <2>2. TypeOK' /\ PointerInv' /\ CleanupInv'
      BY <1>3 DEF IInv, PidFile_Open
    <2>3. NamesInv'
      BY <1>3, <2>1 DEF IInv, PidFile_Open
    <2> QED BY <2>1, <2>2, <2>3 DEF IInv
  <1>4. CASE PidFile_OpenInterrupted(p)
    <2>1. Frame
      BY <1>4, MainFrame DEF PidFile_OpenInterrupted
    <2>2. TypeOK' /\ PointerInv' /\ CleanupInv'
      BY <1>4 DEF IInv, PidFile_OpenInterrupted
    <2>3. NamesInv'
      BY <1>4, <2>1 DEF IInv, PidFile_OpenInterrupted
    <2> QED BY <2>1, <2>2, <2>3 DEF IInv
  <1>5. CASE PidFile_Write(p)
    <2>1. Frame
      BY <1>5, MainFrame DEF PidFile_Write
    <2>2. TypeOK' /\ PointerInv' /\ CleanupInv'
      BY <1>5 DEF IInv, PidFile_Write
    <2>3. NamesInv'
      BY <1>5, <2>1 DEF IInv, PidFile_Write
    <2> QED BY <2>1, <2>2, <2>3 DEF IInv
  <1>6. CASE Main_Signals(p)
    <2>1. Frame
      BY <1>6, MainFrame DEF Main_Signals
    <2>2. TypeOK' /\ PointerInv' /\ CleanupInv'
      BY <1>6 DEF IInv, Main_Signals
    <2>3. NamesInv'
      BY <1>6, <2>1 DEF IInv, Main_Signals
    <2> QED BY <2>1, <2>2, <2>3 DEF IInv
  <1>7. CASE UdsSocket_Unlink(p)
    <2>1. Frame
      BY <1>7, MainFrame DEF UdsSocket_Unlink
    <2>2. TypeOK' /\ PointerInv' /\ CleanupInv'
      BY <1>7 DEF IInv, UdsSocket_Unlink
    <2>3. NamesInv'
      BY <1>7, <2>1 DEF IInv, UdsSocket_Unlink
    <2> QED BY <2>1, <2>2, <2>3 DEF IInv
  <1>8. CASE UdsSocket_Bind(p)
    <2>1. Frame
      BY <1>8, MainFrame DEF UdsSocket_Bind
    <2>2. TypeOK' /\ PointerInv' /\ CleanupInv'
      BY <1>8 DEF IInv, UdsSocket_Bind
    <2>3. NamesInv'
      BY <1>8, <2>1 DEF IInv, UdsSocket_Bind
    <2> QED BY <2>1, <2>2, <2>3 DEF IInv
  <1>9. CASE UdsSocket_Return(p)
    <2>1. Frame
      BY <1>9, MainFrame DEF UdsSocket_Return
    <2>2. TypeOK' /\ PointerInv' /\ CleanupInv'
      BY <1>9 DEF IInv, UdsSocket_Return
    <2>3. NamesInv'
      BY <1>9, <2>1 DEF IInv, UdsSocket_Return
    <2> QED BY <2>1, <2>2, <2>3 DEF IInv
  <1>10. CASE Main_Chmod(p)
    <2>1. Frame
      BY <1>10, MainFrame DEF Main_Chmod
    <2>2. TypeOK' /\ PointerInv' /\ CleanupInv'
      BY <1>10 DEF IInv, Main_Chmod
    <2>3. NamesInv'
      BY <1>10, <2>1 DEF IInv, Main_Chmod
    <2> QED BY <2>1, <2>2, <2>3 DEF IInv
  <1>11. CASE Main_Chown(p)
    <2>1. Frame
      BY <1>11, MainFrame DEF Main_Chown
    <2>2. TypeOK' /\ PointerInv' /\ CleanupInv'
      BY <1>11 DEF IInv, Main_Chown
    <2>3. NamesInv'
      BY <1>11, <2>1 DEF IInv, Main_Chown
    <2> QED BY <2>1, <2>2, <2>3 DEF IInv
  <1>12. CASE Main_Serve(p)
    <2>1. Frame
      BY <1>12, MainFrame DEF Main_Serve
    <2>2. TypeOK' /\ PointerInv' /\ CleanupInv'
      BY <1>12 DEF IInv, Main_Serve
    <2>3. NamesInv'
      BY <1>12, <2>1 DEF IInv, Main_Serve
    <2> QED BY <2>1, <2>2, <2>3 DEF IInv
  <1>13. CASE Main_Fails(p)
    <2>1. Frame
      BY <1>13, MainFrame DEF Main_Fails
    <2>2. TypeOK' /\ PointerInv' /\ CleanupInv'
      BY <1>13 DEF IInv, Main_Fails
    <2>3. NamesInv'
      BY <1>13, <2>1 DEF IInv, Main_Fails
    <2> QED BY <2>1, <2>2, <2>3 DEF IInv
  <1> QED BY <1>1, <1>2, <1>3, <1>4, <1>5, <1>6, <1>7, <1>8, <1>9, <1>10, <1>11, <1>12, <1>13 DEF MainNext

\* So do signals and the cleanup: what cleanup removes under the names is of a
\* process that has not run alone, or its own.
LEMMA EndStep ==
    ASSUME IInv, NEW p \in Instances,
           SignalHandler_Term(p) \/ Kill(p) \/ CleanupNext(p)
    PROVE  IInv'
  <1> USE DEF IInv, files, modes, ptrs, hist
  <1>1. TypeOK'
    BY DEF TypeOK, SignalHandler_Term, Kill, CleanupNext, Cleanup_Close,
       Cleanup_UnlinkSock, Cleanup_UnlinkPid
  <1>2. /\ Alive(p) /\ xpc'[p] # "none" /\ UNCHANGED <<pc, overlap, written, modes, ptrs>>
        /\ \A q \in Instances : q # p => xpc'[q] = xpc[q]
    BY DEF TypeOK, SignalHandler_Term, Kill, CleanupNext, Cleanup_Close,
       Cleanup_UnlinkSock, Cleanup_UnlinkPid
  <1>3. \A q \in Instances : Alive(q)' => Alive(q)
    BY <1>2 DEF Alive
  <1>4. AloneInv'
    BY <1>2, <1>3 DEF AloneInv
  <1>5. NamesInv'
    BY <1>2, <1>3 DEF NamesInv, AloneInv
  <1>6. PointerInv'
    BY <1>2 DEF PointerInv, Alive
  <1>7. CleanupInv'
    BY <1>2, InstanceAssumption DEF TypeOK, CleanupInv, PointerInv, Alive,
       AfterPidWrite, AfterReturn, SignalHandler_Term, Kill, CleanupNext,
       Cleanup_Close, Cleanup_UnlinkSock, Cleanup_UnlinkPid
  <1> QED BY <1>1, <1>4, <1>5, <1>6, <1>7

\* The invariant holds in every reachable state.
LEMMA Inductive == Spec => []IInv
  <1>1. IInv /\ [Next]_vars => IInv'
    <2> SUFFICES ASSUME IInv, [Next]_vars PROVE IInv'
      OBVIOUS
    <2>1. CASE \E p \in Instances : Main_Start(p)
      BY <2>1, StartStep
    <2>2. CASE \E p \in Instances : MainNext(p) \/ PidFile_OpenInterrupted(p)
      BY <2>2, MainStep
    <2>3. CASE \E p \in Instances : SignalHandler_Term(p) \/ Kill(p) \/ CleanupNext(p)
      BY <2>3, EndStep
    <2>4. CASE AllEnded \/ UNCHANGED vars
      BY <2>4 DEF AllEnded, vars, files, modes, ptrs, hist, IInv, TypeOK, AloneInv,
         NamesInv, PointerInv, CleanupInv, Alive
    <2> QED BY <2>1, <2>2, <2>3, <2>4 DEF Next
  <1> QED BY <1>1, InitInv, PTL DEF Spec

\* The variables keep their ranges, for any set of processes.
THEOREM TypeCorrect == Spec => []TypeOK
  <1>1. IInv => TypeOK
    BY DEF IInv
  <1> QED BY <1>1, Inductive, PTL

\* A server that has run alone is the one its complete files lead to, for any
\* number of predecessors that were killed or failed at any point: unlink()
\* before open() and bind() makes stale files harmless.
THEOREM StaleFilesHarmless == Spec => []OwnFilesAlone
  <1>1. IInv => OwnFilesAlone
    BY DEF IInv, OwnFilesAlone, NamesInv, Serving, Alive, AfterPidOpen,
           AfterPidWrite, AfterBind
  <1> QED BY <1>1, Inductive, PTL

\* A server that was ended while it served has left no file of its own.
THEOREM LeavesNothing == Spec => []CleanupRemovesOwn
  <1>1. IInv => CleanupRemovesOwn
    BY DEF IInv, CleanupRemovesOwn, CleanupInv
  <1> QED BY <1>1, Inductive, PTL

=============================================================================
