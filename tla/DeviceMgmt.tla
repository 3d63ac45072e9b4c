----------------------------- MODULE DeviceMgmt -----------------------------
(***************************************************************************)
(* Device management over UDP: simple_device_cmd and baa_device_mgmt_th of *)
(* src/device_mgmt.c, with the main functions of the udp_mgmt_* examples.  *)
(*                                                                         *)
(* A client sends a command of one byte and takes the next datagram of its *)
(* socket for the answer. The server answers before it runs the command.   *)
(* The network may lose, delay, reorder and duplicate datagrams.           *)
(***************************************************************************)
EXTENDS Naturals, Sequences, FiniteSets

CONSTANTS
    Clients,   \* client processes
    Script,    \* the commands of each client, in order
    MaxDup     \* bound: datagrams the network duplicates

Commands == {"PTYPE_DEVICE_MGMT_PING", "PTYPE_DEVICE_MGMT_REBOOT",
             "PTYPE_DEVICE_MGMT_HALT"}
RunCmds  == {"PTYPE_DEVICE_MGMT_REBOOT", "PTYPE_DEVICE_MGMT_HALT"}

ASSUME ClientsAssumption == IsFiniteSet(Clients)
ASSUME ScriptAssumption == Script \in [Clients -> Seq(Commands) \ {<<>>}]
ASSUME DupAssumption == MaxDup \in Nat

VARIABLES
    pc,        \* control point of a client
    n,         \* index of its current command
    sock,      \* the socket it uses: closed ones get nothing
    hasty,     \* history: the clients whose sleep was over before the reboot was
    net,       \* datagrams in flight or in a receive queue
    dups,      \* number of duplicated datagrams so far
    spc,       \* control point of the server thread
    cur,       \* the datagram it is handling
    pending,   \* what init has been told to do
    up,        \* TRUE iff the device runs, and the server with it
    boots,     \* number of completed reboots
    received,  \* history: the commands the server has received
    refused    \* history: the reboot commands whose system() has failed

vars  == <<pc, n, sock, hasty, net, dups, spc, cur, pending, up, boots, received, refused>>
cvars == <<pc, n, sock, hasty>>
dvars == <<spc, cur, pending, up, boots, received, refused>>

\* A datagram carries one byte; client, sock and n tell where it belongs to.
Datagram(kind, c, s, j) == [kind |-> kind, client |-> c, sock |-> s, n |-> j]

\* CLEAN_DEVICE_MGMT_PROPS: neither a command nor an address to answer to.
Clean == [kind |-> "none"]

Init ==
    /\ pc = [c \in Clients |-> "send"]
    /\ n = [c \in Clients |-> 1]
    /\ sock = [c \in Clients |-> 1]
    /\ hasty = {}
    /\ net = {}
    /\ dups = 0
    /\ spc = "recv"
    /\ cur = Clean
    /\ pending = "none"
    /\ up = TRUE
    /\ boots = 0
    /\ received = {}
    /\ refused = {}

-----------------------------------------------------------------------------
(* The network *)

\* A datagram is taken from the network, once or not for the last time.
Take(m) ==
    \/ net' = net \ {m} /\ UNCHANGED dups
    \/ dups < MaxDup /\ dups' = dups + 1 /\ UNCHANGED net

Net_Lose ==
    /\ \E m \in net : net' = net \ {m}
    /\ UNCHANGED <<cvars, dups, dvars>>

-----------------------------------------------------------------------------
(* The clients *)

\* send() in simple_device_cmd.
Client_Send(c) ==
    /\ pc[c] = "send"
    /\ net' = net \cup {Datagram("cmd", c, sock[c], n[c])}
    /\ pc' = [pc EXCEPT ![c] = "recv"]
    /\ UNCHANGED <<n, sock, hasty, dups, dvars>>

\* send() fails: an ICMP error is pending, or there is no route.
Client_SendFails(c) ==
    /\ pc[c] = "send"
    /\ pc' = [pc EXCEPT ![c] = "failed"]
    /\ UNCHANGED <<n, sock, hasty, net, dups, dvars>>

\* Mutant: one ping too many.
Mut_OneMore(c) ==
    /\ n' = [n EXCEPT ![c] = @ + 1]
    /\ pc' = [pc EXCEPT ![c] = IF n[c] > Len(Script[c]) THEN "done" ELSE "send"]
    /\ UNCHANGED <<sock, hasty>>

\* simple_device_cmd returns 0: main goes on to the next command; the reboot
\* client closes its socket and sleeps first.
NextCommand(c) ==
    /\ n' = [n EXCEPT ![c] = @ + 1]
    /\ pc' = [pc EXCEPT ![c] =
                 IF n[c] = Len(Script[c]) THEN "done"
                 ELSE IF Script[c][n[c]] = "PTYPE_DEVICE_MGMT_REBOOT"
                      THEN "sleep" ELSE "send"]
    /\ UNCHANGED <<sock, hasty>>

\* recv() returns the first datagram that reached the socket. The server
\* sends nothing but PTYPE_RCV_ACK.
Client_Recv(c) ==
    /\ pc[c] = "recv"
    /\ \E m \in net : /\ m.kind = "ack" /\ m.client = c /\ m.sock = sock[c]
                      /\ Take(m)
    /\ NextCommand(c)
    /\ UNCHANGED dvars

\* Mutant: a timeout is not told from an answer.
Mut_TimeoutIsAck(c) ==
    /\ pc[c] = "recv"
    /\ NextCommand(c)
    /\ UNCHANGED <<net, dups, dvars>>

\* Mutant: after a timeout the command is sent again.
Mut_TimeoutResends(c) ==
    /\ pc[c] = "recv"
    /\ pc' = [pc EXCEPT ![c] = "send"]
    /\ UNCHANGED <<n, sock, hasty, net, dups, dvars>>

\* Mutant: recv() is called again after a timeout.
Mut_TimeoutRecvAgain(c) ==
    /\ pc[c] = "recv"
    /\ UNCHANGED vars

\* The receive timeout of the socket expires, or ICMP tells that nobody owns
\* the port: return -1, and main leaves with EXIT_FAILURE.
Client_RecvFails(c) ==
    /\ pc[c] = "recv"
    /\ pc' = [pc EXCEPT ![c] = "failed"]
    /\ UNCHANGED <<n, sock, hasty, net, dups, dvars>>

\* Nothing is going on at the device: it runs, or it is halted for good.
Settled == /\ spc = "recv"
           /\ pending = IF up THEN "none" ELSE "PTYPE_DEVICE_MGMT_HALT"

\* The reboot client has slept for 20 s, whatever the device does meanwhile.
\* Of the ten sockets it opens it uses the last one; connect() of a datagram
\* socket succeeds whether the device is up or not.
Client_Reconnect(c) ==
    /\ pc[c] = "sleep"
    /\ sock' = [sock EXCEPT ![c] = @ + 1]
    /\ hasty' = IF Settled THEN hasty ELSE hasty \cup {c}
    /\ pc' = [pc EXCEPT ![c] = "send"]
    /\ UNCHANGED <<n, net, dups, dvars>>

\* The last of the ten fails: usage(EXIT_FAILURE).
Client_ReconnectFails(c) ==
    /\ pc[c] = "sleep"
    /\ pc' = [pc EXCEPT ![c] = "failed"]
    /\ UNCHANGED <<n, sock, hasty, net, dups, dvars>>

-----------------------------------------------------------------------------
(* The device: baa_device_mgmt_th, and init *)

Server_Recv ==
    /\ up
    /\ spc = "recv"
    /\ \E m \in net : /\ m.kind = "cmd"
                      /\ Take(m)
                      /\ cur' = m
                      /\ received' = received \cup {<<m.client, m.n>>}
    /\ spc' = "ack"
    /\ UNCHANGED <<cvars, pending, up, boots, refused>>

CurCmd == Script[cur.client][cur.n]

\* Mutant: the command falls through to the branch of the ping.
Mut_AckOnly ==
    /\ up
    /\ spc = "ack"
    /\ net' = net \cup {Datagram("ack", cur.client, cur.sock, cur.n)}
    /\ spc' = "recv"
    /\ cur' = Clean
    /\ UNCHANGED <<cvars, dups, pending, up, boots, received, refused>>

\* SEND_RCV_ACK() to the address the datagram came from.
Server_Ack ==
    /\ up
    /\ spc = "ack"
    /\ net' = net \cup {Datagram("ack", cur.client, cur.sock, cur.n)}
    /\ IF CurCmd \in RunCmds
       THEN spc' = "run" /\ UNCHANGED cur
       ELSE spc' = "recv" /\ cur' = Clean
    /\ UNCHANGED <<cvars, dups, pending, up, boots, received, refused>>

\* baa_halt or baa_reboot: system("init 0") or system("init 6") only tells
\* init, and the thread goes back to its loop.
Server_Run ==
    /\ up
    /\ spc = "run"
    /\ pending' = CurCmd
    /\ spc' = "recv"
    /\ cur' = Clean
    /\ UNCHANGED <<cvars, net, dups, up, boots, received, refused>>

\* system() fails: no fork, no shell, no right to call init. The result is
\* ignored, and the device stays up.
Server_RunFails ==
    /\ up
    /\ spc = "run"
    /\ refused' = IF CurCmd = "PTYPE_DEVICE_MGMT_REBOOT"
                  THEN refused \cup {<<cur.client, cur.n>>} ELSE refused
    /\ spc' = "recv"
    /\ cur' = Clean
    /\ UNCHANGED <<cvars, net, dups, pending, up, boots, received>>

\* init stops the device, the server in whatever it is doing.
Device_Down ==
    /\ up
    /\ pending # "none"
    /\ up' = FALSE
    /\ spc' = "recv"
    /\ cur' = Clean
    /\ UNCHANGED <<cvars, net, dups, pending, boots, received, refused>>

\* The device comes back after a reboot and starts the server.
Device_Boot ==
    /\ ~up
    /\ pending = "PTYPE_DEVICE_MGMT_REBOOT"
    /\ up' = TRUE
    /\ pending' = "none"
    /\ boots' = boots + 1
    /\ UNCHANGED <<cvars, net, dups, spc, cur, received, refused>>

-----------------------------------------------------------------------------
ClientNext(c) ==
    \/ Client_Send(c)
    \/ Client_SendFails(c)
    \/ Client_Recv(c)
    \/ Client_RecvFails(c)
    \/ Client_Reconnect(c)
    \/ Client_ReconnectFails(c)

DeviceNext ==
    \/ Server_Recv
    \/ Server_Ack
    \/ Server_Run
    \/ Server_RunFails
    \/ Device_Down
    \/ Device_Boot

\* All clients have left.
AllLeft == (\A c \in Clients : pc[c] \in {"done", "failed"}) /\ UNCHANGED vars

Next ==
    \/ \E c \in Clients : ClientNext(c)
    \/ DeviceNext
    \/ Net_Lose
    \/ AllLeft

Spec == Init /\ [][Next]_vars

\* Clients run and their timeouts expire. Nothing is assumed of the network and
\* the device.
FairSpec == Spec /\ \A c \in Clients : WF_vars(ClientNext(c))

-----------------------------------------------------------------------------
(* Properties *)

\* The commands of all scripts that reboot the device.
Reboots == {j \in UNION {{c} \X DOMAIN Script[c] : c \in Clients} :
                Script[j[1]][j[2]] = "PTYPE_DEVICE_MGMT_REBOOT"}

\* Type invariant; a client never runs past its script.
TypeOK ==
    /\ pc \in [Clients -> {"send", "recv", "sleep", "done", "failed"}]
    /\ \A c \in Clients : n[c] \in 1 .. Len(Script[c]) + 1
    /\ \A c \in Clients : pc[c] \in {"send", "recv"} => n[c] \in DOMAIN Script[c]
    /\ sock \in [Clients -> Nat \ {0}]
    /\ hasty \subseteq Clients
    /\ dups \in 0 .. MaxDup
    /\ spc \in {"recv", "ack", "run"}
    /\ pending \in RunCmds \cup {"none"}
    /\ up \in BOOLEAN
    /\ boots \in Nat

\* Every command that has returned 0 has been received, that very command.
AckedMeansReceived == \A c \in Clients :
    \A j \in 1 .. n[c] - 1 : <<c, j>> \in received

\* "PTYPE_RCV_ACK -> received the message" (libbaalue.h) holds as long as the
\* network has duplicated nothing: loss, delay, reordering and the reboot of
\* the device do no harm. (A duplicated answer is taken for the answer to the
\* next command: answers carry no identity.)
AckedUnlessDuplicated == dups = 0 => AckedMeansReceived

\* The device reboots at most once for every reboot command of a client and
\* every duplicated datagram.
AtMostOnce == boots <= Cardinality(Reboots) + dups

\* When the reboot client leaves with success ("until node back again", its
\* last ping answered) the device has rebooted, and there are two ways only in
\* which it has not: the system() of this very command has failed unnoticed, or
\* the 20 s were over before the reboot was. No loss, delay, duplication, other
\* client or halt makes the ping be answered by the old incarnation.
RebootConfirmed == \A c \in Clients : \A j \in Reboots :
    pc[c] = "done" /\ j[1] = c => boots > 0 \/ j \in refused \/ c \in hasty

\* A command always returns, lost datagrams and a halted device or not.
CommandReturns == \A c \in Clients :
    (pc[c] = "recv") ~> (pc[c] # "recv")

=============================================================================
