----------------------------- MODULE UdsServer -----------------------------
(***************************************************************************)
(* Life of the schedule server's process: main, signal_handler and cleanup *)
(* of examples/time_triggert_uds_server.c with baa_become_daemon and       *)
(* baa_create_file_with_pid of src/helper.c and uds_socket of              *)
(* src/network.c.                                                          *)
(*                                                                         *)
(* Several processes of the program share the name of the pid file and the *)
(* name of the socket file. A name refers to a file of its own for each    *)
(* process that creates one, so a file is named after its creator. What    *)
(* the server does with requests is the subject of module SchedProps.      *)
(***************************************************************************)
EXTENDS Naturals

CONSTANT Instances   \* the processes of the program, in no order

None == "none"
ASSUME InstanceAssumption == None \notin Instances

VARIABLES
    pc,         \* control point of the main thread
    xpc,        \* control point of exit(), and how the process has ended
    pidname,    \* the file the name of the pid file refers to
    sockname,   \* the file the name of the socket refers to
    written,    \* the pid files that hold the pid of their creator
    perm,       \* the socket files a group may read and write
    group,      \* the socket files of group users
    pid_file,   \* processes whose pid_file is not NULL
    kdo_file,   \* processes whose kdo_file is not NULL
    overlap,    \* history: processes that have not run alone all the time
    orderly     \* history: processes that were told to end while serving

modes == <<perm, group>>
files == <<pidname, sockname, written, modes>>
ptrs  == <<pid_file, kdo_file>>
hist  == <<overlap, orderly>>
vars  == <<pc, xpc, files, ptrs, hist>>

Init ==
    /\ pc = [p \in Instances |-> "off"]
    /\ xpc = [p \in Instances |-> "none"]
    /\ pidname = None /\ sockname = None
    /\ written = {} /\ perm = {} /\ group = {}
    /\ pid_file = {} /\ kdo_file = {}
    /\ overlap = {} /\ orderly = {}

Alive(p) == pc[p] # "off" /\ xpc[p] \notin {"gone", "killed"}

\* The main thread goes from one control point to the next. It does so until
\* the process has ended, an exit() in the other thread or not.
Step(p, from, to) ==
    /\ Alive(p)
    /\ pc[p] = from
    /\ pc' = [pc EXCEPT ![p] = to]

-----------------------------------------------------------------------------
(* main *)

Main_Start(p) ==
    /\ pc[p] = "off"
    /\ pc' = [pc EXCEPT ![p] = "daemon"]
    /\ LET others == {q \in Instances : Alive(q)}
       IN  overlap' = overlap \cup others \cup (IF others = {} THEN {} ELSE {p})
    /\ UNCHANGED <<xpc, files, ptrs, orderly>>

\* The parents leave by _exit, without cleanup.
baa_become_daemon(p) ==
    /\ Step(p, "daemon", "pid_unlink")
    /\ UNCHANGED <<xpc, files, ptrs, hist>>

\* baa_create_file_with_pid removes whatever has the name.
PidFile_Unlink(p) ==
    /\ Step(p, "pid_unlink", "pid_open")
    /\ pidname' = None
    /\ UNCHANGED <<xpc, sockname, written, modes, ptrs, hist>>

\* open() with O_CREAT and O_EXCL makes a new file.
PidFile_Open(p) ==
    /\ Step(p, "pid_open", "pid_write")
    /\ pidname = None
    /\ pidname' = p
    /\ UNCHANGED <<xpc, sockname, written, modes, ptrs, hist>>

\* open() was interrupted: the label of the retry is behind the call, and
\* the loop never ends.
PidFile_OpenInterrupted(p) ==
    /\ Step(p, "pid_open", "spin")
    /\ UNCHANGED <<xpc, files, ptrs, hist>>

\* Mutant: the caller is not told the name of the pid file.
Mut_NoPidName(p) ==
    /\ Step(p, "pid_write", "signals")
    /\ written' = written \cup {p}
    /\ UNCHANGED <<xpc, pidname, sockname, modes, ptrs, hist>>

\* The new file is locked, which always succeeds, truncated and written; the
\* lock ends with the close().
PidFile_Write(p) ==
    /\ Step(p, "pid_write", "signals")
    /\ written' = written \cup {p}
    /\ pid_file' = pid_file \cup {p}
    /\ UNCHANGED <<xpc, pidname, sockname, modes, kdo_file, hist>>

\* All signals are blocked, and the thread that waits for them is started.
Main_Signals(p) ==
    /\ Step(p, "signals", "sock_unlink")
    /\ UNCHANGED <<xpc, files, ptrs, hist>>

\* uds_socket removes whatever has the name.
UdsSocket_Unlink(p) ==
    /\ Step(p, "sock_unlink", "sock_bind")
    /\ sockname' = None
    /\ UNCHANGED <<xpc, pidname, written, modes, ptrs, hist>>

\* bind() makes the socket file; it fails if the name exists.
UdsSocket_Bind(p) ==
    /\ Step(p, "sock_bind", "sock_ret")
    /\ sockname = None
    /\ sockname' = p
    /\ UNCHANGED <<xpc, pidname, written, modes, ptrs, hist>>

\* Mutant: the caller is not told the name of the file.
Mut_NoName(p) ==
    /\ Step(p, "sock_ret", "chmod")
    /\ UNCHANGED <<xpc, files, ptrs, hist>>

\* Timeouts are set, the name is copied for the caller and returned.
UdsSocket_Return(p) ==
    /\ Step(p, "sock_ret", "chmod")
    /\ kdo_file' = kdo_file \cup {p}
    /\ UNCHANGED <<xpc, files, pid_file, hist>>

\* chmod() of what has the name now; if nothing has, Main_Fails follows.
Main_Chmod(p) ==
    /\ Step(p, "chmod", "chown")
    /\ sockname # None
    /\ perm' = perm \cup {sockname}
    /\ UNCHANGED <<xpc, pidname, sockname, written, group, ptrs, hist>>

\* Mutant: the group is not set.
Mut_NoChown(p) ==
    /\ Step(p, "chown", "thread")
    /\ UNCHANGED <<xpc, files, ptrs, hist>>

\* getgrnam(), and chown() of what has the name then.
Main_Chown(p) ==
    /\ Step(p, "chown", "thread")
    /\ sockname # None
    /\ group' = group \cup {sockname}
    /\ UNCHANGED <<xpc, pidname, sockname, written, perm, ptrs, hist>>

\* baa_schedule_server_th is started.
Main_Serve(p) ==
    /\ Step(p, "thread", "serve")
    /\ UNCHANGED <<xpc, files, ptrs, hist>>

\* Control points where main leaves by baa_error_exit if a call fails.
MayFail == {"daemon", "pid_unlink", "pid_open", "pid_write", "signals",
            "sock_unlink", "sock_bind", "sock_ret", "chmod", "chown", "thread"}

\* A call fails, with the files made so far in place and the pointer to the
\* last one not yet set; exit() by main waits for one that is under way.
Main_Fails(p) ==
    /\ Alive(p)
    /\ pc[p] \in MayFail
    /\ pc' = [pc EXCEPT ![p] = "stop"]
    /\ xpc' = [xpc EXCEPT ![p] = IF @ = "none" THEN "close" ELSE @]
    /\ UNCHANGED <<files, ptrs, hist>>

-----------------------------------------------------------------------------
(* Signals, and exit() with its handler cleanup *)

\* SIGTERM reaches the thread signal_handler, once it is there.
SignalHandler_Term(p) ==
    /\ Alive(p)
    /\ pc[p] \in {"sock_unlink", "sock_bind", "sock_ret", "chmod", "chown", "thread", "serve"}
    /\ xpc[p] = "none"
    /\ xpc' = [xpc EXCEPT ![p] = "close"]
    /\ orderly' = IF pc[p] = "serve" THEN orderly \cup {p} ELSE orderly
    /\ UNCHANGED <<pc, files, ptrs, overlap>>

\* The process ends without cleanup: SIGKILL, or SIGTERM before the mask.
Kill(p) ==
    /\ Alive(p)
    /\ xpc' = [xpc EXCEPT ![p] = "killed"]
    /\ UNCHANGED <<pc, files, ptrs, hist>>

\* Mutant: cleanup joins the server thread, which never ends.
Mut_CloseJoins(p) ==
    /\ Alive(p)
    /\ xpc[p] = "close"
    /\ pc[p] # "serve"
    /\ xpc' = [xpc EXCEPT ![p] = "unlink_sock"]
    /\ UNCHANGED <<pc, files, ptrs, hist>>

\* cleanup closes kdo_socket.
Cleanup_Close(p) ==
    /\ Alive(p)
    /\ xpc[p] = "close"
    /\ xpc' = [xpc EXCEPT ![p] = "unlink_sock"]
    /\ UNCHANGED <<pc, files, ptrs, hist>>

\* unlink(kdo_file): whatever has the name is removed; unlink(NULL) fails.
Cleanup_UnlinkSock(p) ==
    /\ Alive(p)
    /\ xpc[p] = "unlink_sock"
    /\ sockname' = IF p \in kdo_file THEN None ELSE sockname
    /\ xpc' = [xpc EXCEPT ![p] = "unlink_pid"]
    /\ UNCHANGED <<pc, pidname, written, modes, ptrs, hist>>

\* unlink(pid_file), likewise, and the process ends.
Cleanup_UnlinkPid(p) ==
    /\ Alive(p)
    /\ xpc[p] = "unlink_pid"
    /\ pidname' = IF p \in pid_file THEN None ELSE pidname
    /\ xpc' = [xpc EXCEPT ![p] = "gone"]
    /\ UNCHANGED <<pc, sockname, written, modes, ptrs, hist>>

-----------------------------------------------------------------------------
MainNext(p) ==
    \/ baa_become_daemon(p)
    \/ PidFile_Unlink(p)
    \/ PidFile_Open(p)
    \/ PidFile_Write(p)
    \/ Main_Signals(p)
    \/ UdsSocket_Unlink(p)
    \/ UdsSocket_Bind(p)
    \/ UdsSocket_Return(p)
    \/ Main_Chmod(p)
    \/ Main_Chown(p)
    \/ Main_Serve(p)
    \/ Main_Fails(p)

CleanupNext(p) ==
    \/ Cleanup_Close(p)
    \/ Cleanup_UnlinkSock(p)
    \/ Cleanup_UnlinkPid(p)

\* Every process has been started and has ended.
AllEnded == (\A p \in Instances : pc[p] # "off" /\ ~Alive(p)) /\ UNCHANGED vars

Next ==
    \/ \E p \in Instances :
          \/ Main_Start(p) \/ MainNext(p) \/ PidFile_OpenInterrupted(p)
          \/ SignalHandler_Term(p) \/ Kill(p) \/ CleanupNext(p)
    \/ AllEnded

Spec == Init /\ [][Next]_vars

\* The threads of a process are run. Nobody need start, end or kill one.
FairSpec == Spec /\ \A p \in Instances : WF_vars(MainNext(p)) /\ WF_vars(CleanupNext(p))

-----------------------------------------------------------------------------
(* Properties *)

\* Type invariant: the ranges of the variables; a process that has a socket
\* file to remove has a pid file to remove.
TypeOK ==
    /\ pc \in [Instances -> {"off", "serve", "stop", "spin"} \cup MayFail]
    /\ xpc \in [Instances ->
                  {"none", "close", "unlink_sock", "unlink_pid", "gone", "killed"}]
    /\ pidname \in Instances \cup {None}
    /\ sockname \in Instances \cup {None}
    /\ written \subseteq Instances /\ perm \subseteq Instances /\ group \subseteq Instances
    /\ kdo_file \subseteq pid_file /\ pid_file \subseteq Instances
    /\ overlap \subseteq Instances /\ orderly \subseteq Instances

Serving(p) == pc[p] = "serve" /\ xpc[p] = "none"

\* A server that has run alone is the one its files lead to, and they are
\* complete, whatever its predecessors have left behind when they were killed,
\* failed or were ended at any point of their start.
OwnFilesAlone == \A p \in Instances :
    Serving(p) /\ p \notin overlap =>
        /\ pidname = p /\ p \in written
        /\ sockname = p /\ p \in perm /\ p \in group

\* A server that was told to end while it served leaves no file of its own,
\* even if others have started since.
CleanupRemovesOwn == \A p \in Instances :
    p \in orderly /\ xpc[p] = "gone" => pidname # p /\ sockname # p

\* "pid file %s already in-use" (helper.c:275): while a process serves, no
\* other gets past the creation of the pid file.
AtMostOneServing == \A p, q \in Instances : Serving(p) /\ Serving(q) => p = q

\* A start comes to an end: the process serves, has ended, or is caught in the
\* loop behind an interrupted open(). And so does an exit(), at whatever point
\* of the start the signal thread has called it.
ProcessSettles == \A p \in Instances :
    /\ (pc[p] = "daemon") ~> (pc[p] \in {"serve", "spin"} \/ ~Alive(p))
    /\ (xpc[p] = "close") ~> ~Alive(p)

=============================================================================
