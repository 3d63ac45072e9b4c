----------------------------- MODULE SchedProps -----------------------------
(***************************************************************************)
(* The PTYPE_SCHED_PROPS protocol over unix domain datagram sockets:       *)
(* baa_set_schedule_props_via_server and baa_schedule_server_th of         *)
(* src/fiber.c, driven by the main functions of                            *)
(* examples/time_triggert_uds.c and time_triggert_uds_server.c.            *)
(*                                                                         *)
(* A client sends one element of its table and reads answers until one     *)
(* that is not PTYPE_RCV_ACK, then goes on to the next element. Both       *)
(* sockets have send and receive timeouts of 5 s. The server never sends   *)
(* PTYPE_ERROR: baa_unpack always consumes 17 bytes and                    *)
(* baa_set_schedule_props always returns 0.                                *)
(*                                                                         *)
(* A request is the bytes of baa_pack, and names a thread by its id only:  *)
(* the threads are those of the clients, the server's own (id 0 is the     *)
(* calling thread) and, once a client has ended, any thread of the system  *)
(* that gets one of its ids.                                               *)
(***************************************************************************)
EXTENDS Serialize, FiniteSets

CONSTANTS
    Clients,     \* processes that hold a schedule table
    Count,       \* number of elements of a table
    Table,       \* policy, cpu and priority of each element
    Tid,         \* kernel id of the thread of a client's element
    SrvQLen,     \* datagrams the server's socket holds (max_dgram_qlen)
    CliQLen,     \* datagrams a client's socket holds
    MaxCalls,    \* bound: calls of baa_set_schedule_props_via_server
    MaxCrashes,  \* bound: crashes of the server
    MaxReuse     \* bound: ids that are given to other threads

Elements == 1 .. Count

ASSUME CountAssumption == Count \in Nat \ {0}
ASSUME QLenAssumption  == SrvQLen \in Nat \ {0} /\ CliQLen \in Nat \ {0}
ASSUME BoundAssumption == MaxCalls \in Nat /\ MaxCrashes \in Nat /\ MaxReuse \in Nat

\* Every field is a C int, and no two living threads have the same id.
ASSUME TableAssumption ==
    Table \in [Elements -> [policy : Fitting("L"), cpu : Fitting("L"), prio : Fitting("L")]]
ASSUME TidAssumption ==
    /\ Tid \in [Clients -> [Elements -> Fitting("L") \ {0}]]
    /\ \A c, d \in Clients, e, f \in Elements :
          Tid[c][e] = Tid[d][f] => c = d /\ e = f

VARIABLES
    cpc,         \* control point of a client
    ci,          \* loop index of its call
    calls,       \* number of calls it has made
    ackq,        \* receive queue of its socket: protocol types
    squeue,      \* receive queue of the server's socket: requests
    srv,         \* control point of the server, "down" if it does not run
    cur,         \* sender of the request the server works on, and its fiber_element
    applied,     \* history: elements of a table that were handed to the kernel
    told,        \* calls by which the kernel was told the properties of a thread
    reused,      \* thread ids of ended clients that other threads have got
    finished,    \* history: clients of which a call has returned 0
    crashes,     \* number of server crashes so far
    timely       \* TRUE: sleep(1) is long enough for the fibers to store their ids

cvars == <<cpc, ci, calls, finished>>
kvars == <<applied, told, reused>>
svars == <<squeue, srv, cur, crashes>>
vars  == <<cvars, ackq, svars, kvars, timely>>

Tids    == {Tid[c][e] : c \in Clients, e \in Elements}
PTypes  == {"PTYPE_RCV_ACK", "PTYPE_CMD_ACK"}

\* What main may read from kernel_tid of a fiber: 0 until the fiber has stored
\* its id, which a fiber that is too slow for the sleep(1) of
\* baa_build_scheduler does while main is already sending.
TidsRead(c, e) == IF timely THEN {Tid[c][e]} ELSE {0, Tid[c][e]}

\* The request for element e of client c, as baa_pack makes it. The index is
\* not part of the message; the properties use it.
PTYPE_SCHED_PROPS == 0
Format == <<"c", "L", "L", "L", "L">>
Request(c, e, tid) ==
    [client |-> c, elem |-> e,
     buf |-> baa_pack(Format, <<PTYPE_SCHED_PROPS, tid, Table[e].policy,
                                Table[e].cpu, Table[e].prio>>)]

\* Mutant: the struct declares cpu before policy.
Mut_LayoutCpuFirst(lp64) ==
    IF lp64 THEN [protocol_type |-> 0, kernel_tid |-> 3, prio |-> 7, cpu |-> 13, policy |-> 14]
            ELSE [protocol_type |-> 0, kernel_tid |-> 2, prio |-> 4, cpu |-> 7, policy |-> 8]

\* Words of fiber_element_t (sched_param is its one int), behind the local
\* variable protocol_type of the server.
Layout(lp64) ==
    IF lp64 THEN [protocol_type |-> 0, kernel_tid |-> 3, prio |-> 7, policy |-> 13, cpu |-> 14]
            ELSE [protocol_type |-> 0, kernel_tid |-> 2, prio |-> 4, policy |-> 7, cpu |-> 8]

\* fiber_element after CLEAN_SCHED_PROPS_SERVER.
Zeroed == [w \in 0 .. 18 |-> 0]

\* sched_setaffinity and sched_setscheduler for the properties of an element.
Affinity(props)    == <<"cpu", props.cpu>>
Scheduler(props)   == <<"policy", props.policy, props.prio>>
KernelCalls(props) == {Affinity(props), Scheduler(props)}

\* Where the server's baa_unpack stores to.
Targets(lay) == <<lay.protocol_type, lay.kernel_tid, lay.policy, lay.cpu, lay.prio>>

\* The fields of fiber_element after baa_unpack, on either kind of build.
FiberElement(buf, lp64) ==
    LET lay == Layout(lp64)
        mem == baa_unpack(Zeroed, buf, Format, Targets(lay), lp64)
    IN  [tid |-> mem[lay.kernel_tid],
         props |-> [policy |-> mem[lay.policy], cpu |-> mem[lay.cpu], prio |-> mem[lay.prio]]]

Init ==
    /\ cpc = [c \in Clients |-> "idle"]
    /\ ci = [c \in Clients |-> 1]
    /\ calls = [c \in Clients |-> 0]
    /\ ackq = [c \in Clients |-> <<>>]
    /\ squeue = <<>>
    /\ srv = "recv"
    /\ cur = <<>>
    /\ applied = [c \in Clients |-> {}]
    /\ told = [tid \in Tids \cup {0} |-> {}]
    /\ reused = {}
    /\ finished = {}
    /\ crashes = 0
    /\ timely \in BOOLEAN

-----------------------------------------------------------------------------
(* The client *)

\* baa_set_schedule_props_via_server is called. After a failure the main() of
\* the example exits; another user of the library may call again, on the same
\* socket (MaxCalls > 1).
Client_Call(c) ==
    /\ cpc[c] \in {"idle", "fail"}
    /\ calls[c] < MaxCalls
    /\ calls' = [calls EXCEPT ![c] = @ + 1]
    /\ ci' = [ci EXCEPT ![c] = 1]
    /\ cpc' = [cpc EXCEPT ![c] = "send"]
    /\ UNCHANGED <<finished, ackq, svars, kvars, timely>>

\* sendto waits while the server's queue is full.
Client_Send(c) ==
    /\ cpc[c] = "send"
    /\ srv # "down"
    /\ Len(squeue) < SrvQLen
    /\ \E tid \in TidsRead(c, ci[c]) :
          squeue' = Append(squeue, Request(c, ci[c], tid))
    /\ cpc' = [cpc EXCEPT ![c] = "read"]
    /\ UNCHANGED <<ci, calls, finished, ackq, srv, cur, crashes, kvars, timely>>

\* sendto fails: nobody owns the socket file, or the send timeout expired.
Client_SendFails(c) ==
    /\ cpc[c] = "send"
    /\ srv = "down" \/ Len(squeue) = SrvQLen
    /\ cpc' = [cpc EXCEPT ![c] = "fail"]
    /\ UNCHANGED <<ci, calls, finished, ackq, svars, kvars, timely>>

\* Mutant: the loop runs past the last element.
Mut_LoopRunsOver(c) ==
    /\ ci' = [ci EXCEPT ![c] = @ + 1]
    /\ cpc' = [cpc EXCEPT ![c] = IF ci[c] <= Count THEN "send" ELSE "ok"]
    /\ finished' = IF ci[c] <= Count THEN finished ELSE finished \cup {c}

\* The next element of the table, or return 0.
NextElement(c) ==
    /\ ci' = [ci EXCEPT ![c] = @ + 1]
    /\ cpc' = [cpc EXCEPT ![c] = IF ci[c] < Count THEN "send" ELSE "ok"]
    /\ finished' = IF ci[c] < Count THEN finished ELSE finished \cup {c}

\* Mutant: the client goes on after the first answer.
Mut_ReadOnce(c) ==
    /\ cpc[c] = "read"
    /\ ackq[c] # <<>>
    /\ NextElement(c)
    /\ ackq' = [ackq EXCEPT ![c] = Tail(@)]
    /\ UNCHANGED <<calls, svars, kvars, timely>>

\* One recvfrom and the switch on the protocol type.
Client_Read(c) ==
    /\ cpc[c] = "read"
    /\ ackq[c] # <<>>
    /\ ackq' = [ackq EXCEPT ![c] = Tail(@)]
    /\ IF Head(ackq[c]) = "PTYPE_RCV_ACK" THEN UNCHANGED <<cpc, ci, finished>>
                                          ELSE NextElement(c)
    /\ UNCHANGED <<calls, svars, kvars, timely>>

\* Mutant: after a receive timeout the client reads again.
Mut_TimeoutReadsAgain(c) ==
    /\ cpc[c] = "read"
    /\ ackq[c] = <<>>
    /\ UNCHANGED vars

\* The receive timeout expires: return -1.
Client_Timeout(c) ==
    /\ cpc[c] = "read"
    /\ ackq[c] = <<>>
    /\ cpc' = [cpc EXCEPT ![c] = "fail"]
    /\ UNCHANGED <<ci, calls, finished, ackq, svars, kvars, timely>>

\* The process ends with all its fibers: baa_error_exit, or SIGTERM at any
\* time. cleanup closes the socket and removes its file.
Client_Exit(c) ==
    /\ cpc[c] # "gone"
    /\ cpc' = [cpc EXCEPT ![c] = "gone"]
    /\ ackq' = [ackq EXCEPT ![c] = <<>>]
    /\ told' = [tid \in DOMAIN told |-> IF \E e \in Elements : tid = Tid[c][e]
                                        THEN {} ELSE told[tid]]
    /\ UNCHANGED <<ci, calls, finished, svars, applied, reused, timely>>

-----------------------------------------------------------------------------
(* The server thread baa_schedule_server_th *)

\* The datagrams here are those baa_set_schedule_props_via_server sends, all of
\* this type and of full length; the server logs and drops another type.
Server_Recv ==
    /\ srv = "recv"
    /\ squeue # <<>>
    /\ Head(squeue).buf[1] = PTYPE_SCHED_PROPS
    /\ \E lp64 \in BOOLEAN :
          cur' = [client |-> Head(squeue).client, elem |-> Head(squeue).elem,
                  fiber |-> FiberElement(Head(squeue).buf, lp64)]
    /\ squeue' = Tail(squeue)
    /\ srv' = "rcv_ack"
    /\ UNCHANGED <<cvars, ackq, crashes, kvars, timely>>

\* Mutant: a client that is gone is waited for.
Mut_SendToWaits(c, ptype) ==
    /\ cpc[c] # "gone"
    /\ Len(ackq[c]) < CliQLen
    /\ ackq' = [ackq EXCEPT ![c] = Append(@, ptype)]

\* sendto of one answer: it waits while the client's queue is full; it is
\* only logged that the client is gone, or that the send timeout expired.
SendTo(c, ptype) ==
    \/ /\ cpc[c] # "gone"
       /\ Len(ackq[c]) < CliQLen
       /\ ackq' = [ackq EXCEPT ![c] = Append(@, ptype)]
    \/ /\ cpc[c] = "gone" \/ Len(ackq[c]) = CliQLen
       /\ UNCHANGED ackq

\* Mutant: the request is acknowledged in full before it is carried out.
Mut_AckBeforeSet ==
    /\ srv = "rcv_ack"
    /\ SendTo(cur.client, "PTYPE_CMD_ACK")
    /\ srv' = "set"
    /\ UNCHANGED <<cvars, squeue, cur, crashes, kvars, timely>>

\* The answer sent before the request is carried out.
SEND_RCV_ACK ==
    /\ srv = "rcv_ack"
    /\ SendTo(cur.client, "PTYPE_RCV_ACK")
    /\ srv' = "set"
    /\ UNCHANGED <<cvars, squeue, cur, crashes, kvars, timely>>

\* The thread a kernel call with this id changes: none if nobody has the id.
Reached(tid) ==
    \/ tid = 0
    \/ tid \in reused
    \/ \E c \in Clients : cpc[c] # "gone" /\ \E e \in Elements : Tid[c][e] = tid

\* The kernel is told to do something to a thread; what it refuses is only
\* logged.
Told(call) == IF Reached(cur.fiber.tid) THEN [told EXCEPT ![cur.fiber.tid] = @ \cup {call}]
                                        ELSE told

\* baa_set_schedule_props for the one element: first its cpu ...
Server_SetAffinity ==
    /\ srv = "set"
    /\ told' = Told(Affinity(cur.fiber.props))
    /\ srv' = "sched"
    /\ UNCHANGED <<cvars, ackq, squeue, cur, crashes, applied, reused, timely>>

\* ... then its policy and priority.
Server_SetScheduler ==
    /\ srv = "sched"
    /\ told' = Told(Scheduler(cur.fiber.props))
    /\ applied' = [applied EXCEPT ![cur.client] = @ \cup {cur.elem}]
    /\ srv' = "cmd_ack"
    /\ UNCHANGED <<cvars, ackq, squeue, cur, crashes, reused, timely>>

\* The answer sent after it; CLEAN_SCHED_PROPS_SERVER clears fiber_element.
SEND_CMD_ACK ==
    /\ srv = "cmd_ack"
    /\ SendTo(cur.client, "PTYPE_CMD_ACK")
    /\ srv' = "recv"
    /\ cur' = <<>>
    /\ UNCHANGED <<cvars, squeue, crashes, kvars, timely>>

\* The server process dies, by SIGTERM or otherwise; its queue is lost.
Server_Crash ==
    /\ srv # "down"
    /\ crashes < MaxCrashes
    /\ crashes' = crashes + 1
    /\ srv' = "down"
    /\ squeue' = <<>>
    /\ cur' = <<>>
    /\ told' = [told EXCEPT ![0] = {}]
    /\ UNCHANGED <<cvars, ackq, applied, reused, timely>>

\* A new server binds the same socket file.
Server_Start ==
    /\ srv = "down"
    /\ srv' = "recv"
    /\ UNCHANGED <<cvars, ackq, squeue, cur, crashes, kvars, timely>>

\* The kernel gives an id of an ended client to a thread of another process.
Kernel_ReuseTid(c, e) ==
    /\ cpc[c] = "gone"
    /\ Tid[c][e] \notin reused
    /\ Cardinality(reused) < MaxReuse
    /\ reused' = reused \cup {Tid[c][e]}
    /\ UNCHANGED <<cvars, ackq, svars, applied, told, timely>>

-----------------------------------------------------------------------------
ClientNext(c) ==
    \/ Client_Send(c)
    \/ Client_SendFails(c)
    \/ Client_Read(c)
    \/ Client_Timeout(c)

ServerNext ==
    \/ Server_Recv
    \/ SEND_RCV_ACK
    \/ Server_SetAffinity
    \/ Server_SetScheduler
    \/ SEND_CMD_ACK

\* Every client has ended.
AllGone == (\A c \in Clients : cpc[c] = "gone") /\ UNCHANGED vars

Next ==
    \/ \E c \in Clients : Client_Call(c) \/ ClientNext(c) \/ Client_Exit(c)
    \/ ServerNext
    \/ Server_Crash
    \/ Server_Start
    \/ \E c \in Clients, e \in Elements : Kernel_ReuseTid(c, e)
    \/ AllGone

Spec == Init /\ [][Next]_vars

\* A client in a call is run, and so are its timeouts; the server thread is
\* run while its process lives. A crashed server need not come back.
FairSpec ==
    Spec /\ WF_vars(ServerNext) /\ \A c \in Clients : WF_vars(ClientNext(c))

-----------------------------------------------------------------------------
(* Properties *)

\* Type invariant; no queue ever holds more than the kernel lets it.
TypeOK ==
    /\ cpc \in [Clients -> {"idle", "send", "read", "ok", "fail", "gone"}]
    /\ ci \in [Clients -> 1 .. Count + 1]
    /\ \A c \in Clients : cpc[c] \in {"send", "read"} => ci[c] \in Elements
    /\ calls \in [Clients -> 0 .. MaxCalls]
    /\ ackq \in [Clients -> Seq(PTypes)]
    /\ \A c \in Clients : Len(ackq[c]) <= CliQLen
    /\ Len(squeue) <= SrvQLen
    /\ \A n \in 1 .. Len(squeue) : squeue[n].client \in Clients /\ squeue[n].elem \in Elements
    /\ srv \in {"down", "recv", "rcv_ack", "set", "sched", "cmd_ack"}
    /\ srv \in {"rcv_ack", "set", "sched", "cmd_ack"} => cur.client \in Clients /\ cur.elem \in Elements
    /\ applied \in [Clients -> SUBSET Elements]
    /\ DOMAIN told = Tids \cup {0}
    /\ reused \subseteq Tids
    /\ finished \subseteq Clients
    /\ crashes \in 0 .. MaxCrashes

\* The kernel is told the right properties for the right threads, whatever
\* baa_unpack stores beside its targets: of an element only its own, all of
\* them before the call returns 0, none for the server's own thread unless a
\* fiber was late, and none for a thread of another process that has got an
\* id of a client that ended after its call.
RightThreads ==
    /\ timely => told[0] = {}
    /\ \A c \in Clients, e \in Elements :
          /\ told[Tid[c][e]] \subseteq KernelCalls(Table[e])
          /\ c \in finished /\ timely =>
                told[Tid[c][e]] = IF cpc[c] = "gone" THEN {} ELSE KernelCalls(Table[e])

\* A call that returned 0 has had every element of its table set.
OkMeansApplied == \A c \in Clients : cpc[c] = "ok" => applied[c] = Elements

\* While a client works on an element, all the elements before it are set
\* and none after it: a crash, a lost answer or another client's table never
\* makes the two sides lose step.
InStep == \A c \in Clients :
    cpc[c] \in {"send", "read", "fail"} =>
        applied[c] \in {1 .. ci[c] - 1, 1 .. ci[c]}

\* A client that makes a single call never leaves more than two answers
\* unread, so it cannot hold up the server for the others.
ServerNeverHeldUp == \A c \in Clients : Len(ackq[c]) <= 2

\* Every call returns, whatever becomes of the server.
CallReturns == \A c \in Clients :
    (cpc[c] \in {"send", "read"}) ~> (cpc[c] \in {"ok", "fail", "gone"})

\* A request the server has taken is carried out unless the server crashes.
RequestServed == (srv = "rcv_ack") ~> (srv \in {"cmd_ack", "down"})

\* The result of a client's call.
Result(c) == CASE cpc[c] = "ok" -> "ok"
               [] cpc[c] \in {"fail", "gone"} -> "failed"
               [] cpc[c] \in {"idle", "send", "read"} -> "none"

\* With a single call per client the protocol implements the service.
Service == INSTANCE ScheduleService WITH result <- [c \in Clients |-> Result(c)]
ServiceSpec == Service!Spec

=============================================================================
