---------------------------- MODULE SharedMemory ----------------------------
(***************************************************************************)
(* src/sh_mem.c: processes that create (baa_shmem_server), open            *)
(* (baa_shmem_client) and remove (baa_unlink_mmap_seg) one shared memory   *)
(* segment. shmem_handle looks at errno whether or not shm_open() failed,  *)
(* and a call that succeeds leaves errno as it was. Every way out of that  *)
(* test but the retry returns, so that the rest of the function,           *)
(* ftruncate() and mmap(), is never reached and not part of the model.     *)
(***************************************************************************)
EXTENDS Naturals

CONSTANTS
    Servers,   \* processes that call baa_shmem_server
    Clients,   \* processes that call baa_shmem_client
    MaxCalls   \* bound: calls a process makes

Procs == Servers \cup Clients

VARIABLES
    exists,    \* TRUE iff the name of the segment exists
    pc,        \* control point of a process
    errno,     \* its errno
    fd,        \* TRUE iff the shm_open() of its last call has succeeded
    ret,       \* what its last call has returned
    calls      \* calls it has made

vars == <<exists, pc, errno, fd, ret, calls>>

\* errno is what any earlier call of the application has left.
Init ==
    /\ exists \in BOOLEAN
    /\ pc = [p \in Procs |-> "idle"]
    /\ errno \in [Procs -> {"0", "EINTR", "EEXIST"}]
    /\ fd = [p \in Procs |-> FALSE]
    /\ ret = [p \in Procs |-> "none"]
    /\ calls = [p \in Procs |-> 0]

\* baa_shmem_server and baa_shmem_client call shmem_handle.
Shmem_Call(p) ==
    /\ pc[p] = "idle"
    /\ calls[p] < MaxCalls
    /\ calls' = [calls EXCEPT ![p] = @ + 1]
    /\ ret' = [ret EXCEPT ![p] = "none"]
    /\ fd' = [fd EXCEPT ![p] = FALSE]
    /\ pc' = [pc EXCEPT ![p] = "open"]
    /\ UNCHANGED <<exists, errno>>

\* shm_open() succeeds: a server creates the segment, which must not exist
\* (O_EXCL), a client opens one that does.
Open_Succeeds(p) ==
    /\ pc[p] = "open"
    /\ exists = (p \in Clients)
    /\ exists' = TRUE
    /\ fd' = [fd EXCEPT ![p] = TRUE]
    /\ pc' = [pc EXCEPT ![p] = "test"]
    /\ UNCHANGED <<errno, ret, calls>>

\* It fails: the segment is there, or is not, or the call is interrupted.
Open_Fails(p) ==
    /\ pc[p] = "open"
    /\ \/ exists # (p \in Clients)
          /\ errno' = [errno EXCEPT ![p] = IF p \in Servers THEN "EEXIST" ELSE "ENOENT"]
       \/ errno' = [errno EXCEPT ![p] = "EINTR"]
    /\ fd' = [fd EXCEPT ![p] = FALSE]
    /\ pc' = [pc EXCEPT ![p] = "test"]
    /\ UNCHANGED <<exists, ret, calls>>

\* if (fd == -1 && errno == EINTR) goto open_cmd;
Test_Again(p) ==
    /\ pc[p] = "test"
    /\ ~fd[p] /\ errno[p] = "EINTR"
    /\ pc' = [pc EXCEPT ![p] = "open"]
    /\ UNCHANGED <<exists, errno, fd, ret, calls>>

\* else: "already exist" or "could not open".
Test_Returns(p) ==
    /\ pc[p] = "test"
    /\ fd[p] \/ errno[p] # "EINTR"
    /\ ret' = [ret EXCEPT ![p] = IF errno[p] = "EEXIST" THEN "EEXIST" ELSE "-1"]
    /\ pc' = [pc EXCEPT ![p] = "idle"]
    /\ UNCHANGED <<exists, errno, fd, calls>>

\* baa_unlink_mmap_seg; a failure is only reported.
baa_unlink_mmap_seg(p) ==
    /\ pc[p] = "idle"
    /\ exists' = FALSE
    /\ errno' = IF exists THEN errno ELSE [errno EXCEPT ![p] = "ENOENT"]
    /\ UNCHANGED <<pc, fd, ret, calls>>

Next == \E p \in Procs :
    \/ Shmem_Call(p) \/ Open_Succeeds(p) \/ Open_Fails(p)
    \/ Test_Again(p) \/ Test_Returns(p) \/ baa_unlink_mmap_seg(p)

Spec == Init /\ [][Next]_vars

-----------------------------------------------------------------------------
\* "could not open %s" (sh_mem.c:42): a call that returns -1 has not opened
\* the segment.
FailedMeansNotOpened == \A p \in Procs : ret[p] = "-1" => ~fd[p]
=============================================================================
