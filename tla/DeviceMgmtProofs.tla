-------------------------- MODULE DeviceMgmtProofs --------------------------
(***************************************************************************)
(* Proofs about DeviceMgmt for any number of clients, any scripts and any  *)
(* number of duplicated datagrams.                                         *)
(***************************************************************************)
EXTENDS DeviceMgmt, FiniteSetTheorems, TLAPS

\* The two commands that stop the device.
REBOOT == "PTYPE_DEVICE_MGMT_REBOOT"
HALT   == "PTYPE_DEVICE_MGMT_HALT"

\* A command or an answer belongs to a command of its client's script.
Datagrams == {m \in [kind : {"cmd", "ack"}, client : Clients, sock : Nat \ {0}, n : Nat \ {0}] :
                 m.n \in DOMAIN Script[m.client]}

\* What TypeOK leaves open.
TypeInv ==
    /\ TypeOK
    /\ n \in [Clients -> Nat \ {0}]
    /\ \A c \in Clients : pc[c] = "sleep" => n[c] \in DOMAIN Script[c]
    /\ net \subseteq Datagrams /\ IsFiniteSet(net)
    /\ spc # "recv" => cur \in Datagrams
    /\ spc = "run" => CurCmd \in RunCmds

\* Nothing is acknowledged that was not received.
ReceivedInv ==
    /\ \A m \in net : m.kind = "ack" => <<m.client, m.n>> \in received
    /\ spc = "ack" => <<cur.client, cur.n>> \in received

\* Of a client there is one datagram under way, on the wire or in the hands of
\* the server, and it belongs to the command the client has sent last.
OneTrace ==
    /\ \A m \in net : m.n = n[m.client] /\ pc[m.client] \in {"recv", "failed"}
    /\ \A m, o \in net : m.client = o.client => m = o
    /\ spc = "ack" => /\ cur.n = n[cur.client] /\ pc[cur.client] \in {"recv", "failed"}
                      /\ \A m \in net : m.client # cur.client

\* What AckedUnlessDuplicated needs.
AckInv == ReceivedInv /\ (dups = 0 => OneTrace /\ AckedMeansReceived)

\* The reboots that are yet to be asked for, are on their way to the server,
\* are in its hands, or are in those of init.
Unsent == {j \in Reboots : \/ n[j[1]] < j[2]
                           \/ n[j[1]] = j[2] /\ pc[j[1]] \in {"send", "sleep"}}
Flying == {m \in net : m.kind = "cmd" /\ Script[m.client][m.n] = REBOOT}
Held   == IF spc \in {"ack", "run"} /\ CurCmd = REBOOT THEN 1 ELSE 0
Due    == IF pending = REBOOT THEN 1 ELSE 0

\* What AtMostOnce needs: every reboot comes from a script or a duplicate.
RebootInv ==
    Cardinality(Unsent) + Cardinality(Flying) + Held + Due + boots <= Cardinality(Reboots) + dups

\* The scripts of the examples: a reboot comes first, and is not all.
RebootFirst == \A c \in Clients : \A j \in DOMAIN Script[c] :
    Script[c][j] = REBOOT => j = 1 /\ Len(Script[c]) > 1

\* The clients that ask for a reboot.
Rebooter(c) == Script[c][1] = REBOOT

\* The two ways in which a reboot client is misled.
Misled(c) == <<c, 1>> \in refused \/ c \in hasty

\* Unless it is misled: the device has rebooted; it has, or is halted for good;
\* it has, or is about to go down, or init is about to be told.
Confirmed(c) == Misled(c) \/ boots > 0
Over(c)      == Confirmed(c) \/ (~up /\ pending = HALT)
UnderWay(c)  == Confirmed(c) \/ pending # "none" \/ (spc = "run" /\ cur.client = c /\ cur.n = 1)

\* The reboot client uses one socket for the reboot and another one for what
\* follows: of a client, of a datagram, and of the one the server holds.
ClientSocket(c) ==
    /\ pc[c] \in {"send", "recv"} => sock[c] = IF n[c] = 1 THEN 1 ELSE 2
    /\ pc[c] = "sleep" => sock[c] = 1 /\ n[c] > 1 /\ UnderWay(c)
    /\ pc[c] = "done" => Confirmed(c)
    /\ sock[c] = 2 => Over(c)
SentFrom(m) ==
    /\ m.sock = IF m.n = 1 THEN 1 ELSE 2
    /\ m.sock = 2 => sock[m.client] = 2
AckSent(m) ==
    m.kind = "ack" => IF m.sock = 1 THEN UnderWay(m.client) ELSE Confirmed(m.client)

\* What RebootConfirmed needs.
SocketInv ==
    /\ \A c \in Clients : Rebooter(c) => ClientSocket(c)
    /\ \A m \in net : Rebooter(m.client) => SentFrom(m) /\ AckSent(m)
    /\ spc \in {"ack", "run"} /\ Rebooter(cur.client) => SentFrom(cur)
    /\ ~up => pending # "none" /\ spc = "recv"

-----------------------------------------------------------------------------
(* Scripts and datagrams *)

\* A script is a sequence of commands that is not empty.
LEMMA Scripts ==
    ASSUME NEW c \in Clients
    PROVE  /\ Script[c] \in Seq(Commands) /\ Len(Script[c]) \in Nat \ {0}
           /\ DOMAIN Script[c] = 1 .. Len(Script[c])
           /\ \A j \in 1 .. Len(Script[c]) : Script[c][j] \in Commands
  BY ScriptAssumption

\* What Datagram makes.
LEMMA DatagramType ==
    ASSUME NEW k \in {"cmd", "ack"}, NEW c \in Clients, NEW s \in Nat \ {0},
           NEW j \in 1 .. Len(Script[c])
    PROVE  /\ Datagram(k, c, s, j) \in Datagrams
           /\ Datagram(k, c, s, j).kind = k /\ Datagram(k, c, s, j).client = c
           /\ Datagram(k, c, s, j).sock = s /\ Datagram(k, c, s, j).n = j
  BY Scripts DEF Datagram, Datagrams

\* The fields of a datagram.
LEMMA Fields ==
    ASSUME NEW m \in Datagrams
    PROVE  /\ m.kind \in {"cmd", "ack"} /\ m.client \in Clients /\ m.sock \in Nat \ {0}
           /\ m.n \in 1 .. Len(Script[m.client]) /\ Script[m.client][m.n] \in Commands
  BY Scripts DEF Datagrams

\* What a step may do to the network.
LEMMA TakeEffect ==
    ASSUME TypeInv, NEW m \in net, Take(m)
    PROVE  /\ net' \subseteq net /\ IsFiniteSet(net') /\ dups' \in 0 .. MaxDup
           /\ \/ net' = net \ {m} /\ dups' = dups
              \/ net' = net /\ dups' = dups + 1 /\ dups' # 0
  <1>1. dups \in 0 .. MaxDup /\ IsFiniteSet(net) /\ MaxDup \in Nat
    BY DupAssumption DEF TypeInv, TypeOK
  <1>2. CASE net' = net \ {m} /\ UNCHANGED dups
    BY <1>1, <1>2, FS_RemoveElement
  <1>3. CASE dups < MaxDup /\ dups' = dups + 1 /\ UNCHANGED net
    BY <1>1, <1>3
  <1> QED BY <1>2, <1>3 DEF Take

-----------------------------------------------------------------------------
(* Types *)

\* The types of the initial state.
LEMMA InitType == Init => TypeInv
  <1> SUFFICES ASSUME Init PROVE TypeInv
    OBVIOUS
  <1>1. TypeOK
    BY Scripts, DupAssumption DEF Init, TypeOK, RunCmds
  <1> QED BY <1>1, FS_EmptySet DEF Init, TypeInv

\* The next command of a script, or the end of it.
LEMMA NextCommandType ==
    ASSUME TypeInv, NEW c \in Clients, pc[c] = "recv", NextCommand(c)
    PROVE  /\ pc' \in [Clients -> {"send", "recv", "sleep", "done", "failed"}]
           /\ n' \in [Clients -> Nat \ {0}] /\ sock' = sock /\ hasty' = hasty
           /\ n'[c] = n[c] + 1 /\ \A d \in Clients : d # c => n'[d] = n[d] /\ pc'[d] = pc[d]
           /\ n[c] \in 1 .. Len(Script[c])
           /\ \/ n[c] = Len(Script[c]) /\ pc'[c] = "done"
              \/ n[c] < Len(Script[c]) /\ pc'[c] = "sleep" /\ Script[c][n[c]] = REBOOT
              \/ n[c] < Len(Script[c]) /\ pc'[c] = "send" /\ Script[c][n[c]] # REBOOT
           /\ \A d \in Clients : /\ n'[d] \in 1 .. Len(Script[d]) + 1
                                 /\ pc'[d] \in {"send", "recv", "sleep"} => n'[d] \in DOMAIN Script[d]
  <1>1. /\ n[c] \in 1 .. Len(Script[c]) /\ n \in [Clients -> Nat \ {0}]
        /\ pc \in [Clients -> {"send", "recv", "sleep", "done", "failed"}]
        /\ Len(Script[c]) \in Nat \ {0}
    BY Scripts DEF TypeInv, TypeOK
  <1>2. /\ n'[c] = n[c] + 1 /\ n' \in [Clients -> Nat \ {0}] /\ sock' = sock /\ hasty' = hasty
        /\ pc' \in [Clients -> {"send", "recv", "sleep", "done", "failed"}]
        /\ \A d \in Clients : d # c => n'[d] = n[d] /\ pc'[d] = pc[d]
    BY <1>1 DEF NextCommand
  <1>3. \/ n[c] = Len(Script[c]) /\ pc'[c] = "done"
        \/ n[c] < Len(Script[c]) /\ pc'[c] = "sleep" /\ Script[c][n[c]] = REBOOT
        \/ n[c] < Len(Script[c]) /\ pc'[c] = "send" /\ Script[c][n[c]] # REBOOT
    BY <1>1 DEF NextCommand, REBOOT
  <1>4. ASSUME NEW d \in Clients
        PROVE  /\ n'[d] \in 1 .. Len(Script[d]) + 1
               /\ pc'[d] \in {"send", "recv", "sleep"} => n'[d] \in DOMAIN Script[d]
    <2>1. CASE d = c
      BY <1>1, <1>2, <1>3, <2>1, Scripts
    <2>2. CASE d # c
      BY <1>2, <2>2 DEF TypeInv, TypeOK
    <2> QED BY <2>1, <2>2
  <1> QED BY <1>1, <1>2, <1>3, <1>4

\* Every step keeps the types.
LEMMA TypeStep ==
    ASSUME TypeInv, [Next]_vars
    PROVE  TypeInv'
  <1> USE DEF TypeInv, TypeOK
  <1>1. CASE UNCHANGED vars
    BY <1>1 DEF vars, CurCmd
  <1>2. ASSUME NEW c \in Clients, Client_Send(c) PROVE TypeInv'
    <2>1. Datagram("cmd", c, sock[c], n[c]) \in Datagrams
      BY <1>2, Scripts, DatagramType DEF Client_Send
    <2>2. net' \subseteq Datagrams /\ IsFiniteSet(net')
      BY <1>2, <2>1, FS_AddElement DEF Client_Send
    <2>3. /\ pc' = [pc EXCEPT ![c] = "recv"] /\ pc[c] = "send"
          /\ UNCHANGED <<n, sock, hasty, dups, dvars>>
      BY <1>2 DEF Client_Send
    <2> QED BY <2>2, <2>3 DEF dvars, CurCmd
  <1>3. ASSUME NEW c \in Clients,
               Client_SendFails(c) \/ Client_RecvFails(c) \/ Client_ReconnectFails(c)
        PROVE  TypeInv'
    <2>1. pc' = [pc EXCEPT ![c] = "failed"] /\ UNCHANGED <<n, sock, hasty, net, dups, dvars>>
      BY <1>3 DEF Client_SendFails, Client_RecvFails, Client_ReconnectFails
    <2> QED BY <2>1 DEF dvars, CurCmd
  <1>4. ASSUME NEW c \in Clients, Client_Recv(c) PROVE TypeInv'
    <2>1. net' \subseteq net /\ IsFiniteSet(net') /\ dups' \in 0 .. MaxDup
      BY <1>4, TakeEffect DEF Client_Recv
    <2>2. pc[c] = "recv" /\ NextCommand(c) /\ UNCHANGED dvars
      BY <1>4 DEF Client_Recv
    <2>3. /\ pc' \in [Clients -> {"send", "recv", "sleep", "done", "failed"}]
          /\ n' \in [Clients -> Nat \ {0}] /\ sock' = sock /\ hasty' = hasty
          /\ \A d \in Clients : /\ n'[d] \in 1 .. Len(Script[d]) + 1
                                /\ pc'[d] \in {"send", "recv", "sleep"} => n'[d] \in DOMAIN Script[d]
      BY <2>2, NextCommandType
    <2> QED BY <2>1, <2>2, <2>3 DEF dvars, CurCmd
  <1>5. ASSUME NEW c \in Clients, Client_Reconnect(c) PROVE TypeInv'
    <2>1. /\ pc[c] = "sleep" /\ sock' = [sock EXCEPT ![c] = @ + 1] /\ pc' = [pc EXCEPT ![c] = "send"]
          /\ UNCHANGED <<n, net, dups, dvars>> /\ hasty' \subseteq hasty \cup {c}
      BY <1>5 DEF Client_Reconnect
    <2> QED BY <2>1 DEF dvars, CurCmd
  <1>6. ASSUME Server_Recv PROVE TypeInv'
    <2>1. PICK m \in net : Take(m) /\ cur' = m
      BY <1>6 DEF Server_Recv
    <2>2. net' \subseteq net /\ IsFiniteSet(net') /\ dups' \in 0 .. MaxDup
      BY <2>1, TakeEffect
    <2>3. spc' = "ack" /\ UNCHANGED <<cvars, pending, up, boots>>
      BY <1>6 DEF Server_Recv
    <2> QED BY <2>1, <2>2, <2>3 DEF cvars
  <1>7. ASSUME Server_Ack PROVE TypeInv'
    <2>0. cur \in Datagrams
      BY <1>7 DEF Server_Ack
    <2>1. Datagram("ack", cur.client, cur.sock, cur.n) \in Datagrams
      BY <2>0, Fields, DatagramType
    <2>2. net' \subseteq Datagrams /\ IsFiniteSet(net')
      BY <1>7, <2>1, FS_AddElement DEF Server_Ack
    <2>3. /\ \/ CurCmd \in RunCmds /\ spc' = "run" /\ cur' = cur
             \/ spc' = "recv"
          /\ UNCHANGED <<cvars, dups, pending, up, boots>>
      BY <1>7 DEF Server_Ack
    <2> QED BY <2>0, <2>2, <2>3 DEF cvars, CurCmd
  <1>8. ASSUME Server_Run \/ Server_RunFails \/ Device_Down \/ Device_Boot PROVE TypeInv'
    <2>1. /\ UNCHANGED <<cvars, net, dups>> /\ (spc' = "recv" \/ UNCHANGED <<spc, cur>>)
          /\ pending' \in RunCmds \cup {"none"} /\ up' \in BOOLEAN /\ boots' \in Nat
      <3>1. CASE Server_Run
        BY <3>1 DEF Server_Run, cvars
      <3>2. CASE Device_Down
        BY <3>2 DEF Device_Down, cvars
      <3>3. CASE Device_Boot
        BY <3>3 DEF Device_Boot, cvars
      <3>4. CASE Server_RunFails
        BY <3>4 DEF Server_RunFails, cvars
      <3> QED BY <1>8, <3>1, <3>2, <3>3, <3>4
    <2> QED BY <2>1 DEF cvars, CurCmd
  <1>9. ASSUME Net_Lose PROVE TypeInv'
    <2>1. PICK m \in net : net' = net \ {m}
      BY <1>9 DEF Net_Lose
    <2>2. IsFiniteSet(net') /\ net' \subseteq net
      BY <2>1, FS_RemoveElement
    <2>3. UNCHANGED <<cvars, dups, dvars>>
      BY <1>9 DEF Net_Lose
    <2> QED BY <2>2, <2>3 DEF cvars, dvars, CurCmd
  <1> QED BY <1>1, <1>2, <1>3, <1>4, <1>5, <1>6, <1>7, <1>8, <1>9
          DEF Next, ClientNext, DeviceNext, AllLeft

\* The types hold throughout.
LEMMA TypeInvariance == Spec => []TypeInv
  <1>1. TypeInv /\ [Next]_vars => TypeInv'
    BY TypeStep
  <1> QED BY <1>1, InitType, PTL DEF Spec

\* Every variable keeps its type, and no client runs past its script.
THEOREM TypeCorrect == Spec => []TypeOK
  <1>1. TypeInv => TypeOK
    BY DEF TypeInv
  <1> QED BY <1>1, TypeInvariance, PTL

-----------------------------------------------------------------------------
(* Answers *)

\* The trace of a client's command before it is sent, and after its answer.
LEMMA AckStep ==
    ASSUME TypeInv, AckInv, [Next]_vars
    PROVE  AckInv'
  <1>0. /\ n \in [Clients -> Nat \ {0}] /\ net \subseteq Datagrams
        /\ spc # "recv" => cur \in Datagrams
        /\ pc \in [Clients -> {"send", "recv", "sleep", "done", "failed"}]
        /\ dups \in 0 .. MaxDup /\ MaxDup \in Nat
    BY DupAssumption DEF TypeInv, TypeOK
  <1>1. CASE UNCHANGED vars
    BY <1>1 DEF vars, AckInv, ReceivedInv, OneTrace, AckedMeansReceived
  <1>2. ASSUME NEW c \in Clients, Client_Send(c) PROVE AckInv'
    <2> DEFINE m == Datagram("cmd", c, sock[c], n[c])
    <2>1. /\ m.kind = "cmd" /\ m.client = c /\ m.n = n[c]
      BY DEF Datagram
    <2>2. /\ pc[c] = "send" /\ net' = net \cup {m} /\ pc' = [pc EXCEPT ![c] = "recv"]
          /\ UNCHANGED <<n, dups, spc, cur, received>>
      BY <1>2 DEF Client_Send, dvars
    <2> HIDE DEF m
    <2>3. ReceivedInv'
      BY <2>1, <2>2 DEF AckInv, ReceivedInv
    <2>4. ASSUME dups = 0 PROVE OneTrace' /\ AckedMeansReceived'
      <3>1. OneTrace /\ AckedMeansReceived
        BY <2>4 DEF AckInv
      <3>2. (\A o \in net : o.client # c) /\ (spc = "ack" => cur.client # c)
        BY <2>2, <3>1 DEF OneTrace
      <3>3. pc'[c] = "recv" /\ \A d \in Clients : d # c => pc'[d] = pc[d]
        BY <1>0, <2>2
      <3>4. OneTrace'
        <4>1. \A o \in net' : o.n = n'[o.client] /\ pc'[o.client] \in {"recv", "failed"}
          BY <1>0, <2>1, <2>2, <3>1, <3>2, <3>3, Fields DEF OneTrace
        <4>2. \A o, p \in net' : o.client = p.client => o = p
          BY <2>1, <2>2, <3>1, <3>2 DEF OneTrace
        <4>3. spc' = "ack" => /\ cur'.n = n'[cur'.client] /\ pc'[cur'.client] \in {"recv", "failed"}
                              /\ \A o \in net' : o.client # cur'.client
          BY <1>0, <2>1, <2>2, <3>1, <3>2, <3>3, Fields DEF OneTrace
        <4> QED BY <4>1, <4>2, <4>3 DEF OneTrace
      <3> QED BY <2>2, <3>1, <3>4 DEF AckedMeansReceived
    <2> QED BY <2>2, <2>3, <2>4 DEF AckInv
  <1>3. ASSUME NEW c \in Clients,
               \/ Client_SendFails(c) \/ Client_RecvFails(c)
               \/ Client_Reconnect(c) \/ Client_ReconnectFails(c)
        PROVE  AckInv'
    <2>1. /\ UNCHANGED <<n, net, dups, spc, cur, received>>
          /\ \A d \in Clients : pc[d] \in {"recv", "failed"} => pc'[d] \in {"recv", "failed"}
      BY <1>0, <1>3 DEF Client_SendFails, Client_RecvFails, Client_Reconnect, Client_ReconnectFails, dvars
    <2> QED BY <1>0, <2>1, Fields DEF AckInv, ReceivedInv, OneTrace, AckedMeansReceived
  <1>4. ASSUME NEW c \in Clients, Client_Recv(c) PROVE AckInv'
    <2>1. PICK m \in net : m.kind = "ack" /\ m.client = c /\ Take(m)
      BY <1>4 DEF Client_Recv
    <2>2. pc[c] = "recv" /\ NextCommand(c) /\ UNCHANGED <<spc, cur, received>>
      BY <1>4 DEF Client_Recv, dvars
    <2>3. /\ n'[c] = n[c] + 1 /\ \A d \in Clients : d # c => n'[d] = n[d] /\ pc'[d] = pc[d]
      BY <2>2, NextCommandType
    <2>4. /\ net' \subseteq net
          /\ \/ net' = net \ {m} /\ dups' = dups
             \/ net' = net /\ dups' = dups + 1 /\ dups' # 0
      BY <2>1, TakeEffect
    <2>5. ReceivedInv'
      BY <2>2, <2>4 DEF AckInv, ReceivedInv
    <2>6. ASSUME dups' = 0 PROVE OneTrace' /\ AckedMeansReceived'
      <3>1. net' = net \ {m} /\ OneTrace /\ AckedMeansReceived
        BY <2>4, <2>6 DEF AckInv
      <3>2. m.n = n[c] /\ <<c, n[c]>> \in received
        BY <2>1, <3>1 DEF OneTrace, AckInv, ReceivedInv
      <3>3. (\A o \in net' : o.client # c) /\ (spc = "ack" => cur.client # c)
        BY <2>1, <3>1 DEF OneTrace
      <3>4. OneTrace'
        BY <1>0, <2>2, <2>3, <3>1, <3>3, Fields DEF OneTrace
      <3>5. AckedMeansReceived'
        <4> SUFFICES ASSUME NEW d \in Clients, NEW j \in 1 .. n'[d] - 1
                     PROVE  <<d, j>> \in received
          BY <2>2 DEF AckedMeansReceived
        <4>1. CASE j \in 1 .. n[d] - 1
          BY <3>1, <4>1 DEF AckedMeansReceived
        <4>2. CASE j \notin 1 .. n[d] - 1
          <5>1. d = c
            BY <2>3, <4>2
          <5>2. j = n[c]
            BY <1>0, <2>3, <4>2, <5>1
          <5> QED BY <3>2, <5>1, <5>2
        <4> QED BY <4>1, <4>2
      <3> QED BY <3>4, <3>5
    <2> QED BY <2>5, <2>6 DEF AckInv
  <1>5. ASSUME Server_Recv PROVE AckInv'
    <2>1. PICK m \in net : /\ m.kind = "cmd" /\ Take(m) /\ cur' = m
                           /\ received' = received \cup {<<m.client, m.n>>}
      BY <1>5 DEF Server_Recv
    <2>2. spc' = "ack" /\ UNCHANGED <<pc, n>>
      BY <1>5 DEF Server_Recv, cvars
    <2>3. /\ net' \subseteq net
          /\ \/ net' = net \ {m} /\ dups' = dups
             \/ net' = net /\ dups' = dups + 1 /\ dups' # 0
      BY <2>1, TakeEffect
    <2>4. ReceivedInv'
      BY <2>1, <2>3 DEF AckInv, ReceivedInv
    <2>5. ASSUME dups' = 0 PROVE OneTrace' /\ AckedMeansReceived'
      <3>1. net' = net \ {m} /\ OneTrace /\ AckedMeansReceived
        BY <2>3, <2>5 DEF AckInv
      <3>2. OneTrace'
        BY <2>1, <2>2, <3>1 DEF OneTrace
      <3>3. AckedMeansReceived'
        BY <2>1, <2>2, <3>1 DEF AckedMeansReceived
      <3> QED BY <3>2, <3>3
    <2> QED BY <2>4, <2>5 DEF AckInv
  <1>6. ASSUME Server_Ack PROVE AckInv'
    <2> DEFINE m == Datagram("ack", cur.client, cur.sock, cur.n)
    <2>1. m.kind = "ack" /\ m.client = cur.client /\ m.n = cur.n
      BY DEF Datagram
    <2>2. /\ spc = "ack" /\ spc' # "ack" /\ net' = net \cup {m}
          /\ UNCHANGED <<pc, n, dups, received>>
      BY <1>6 DEF Server_Ack, cvars
    <2> HIDE DEF m
    <2>3. ReceivedInv'
      BY <2>1, <2>2 DEF AckInv, ReceivedInv
    <2>4. ASSUME dups = 0 PROVE OneTrace' /\ AckedMeansReceived'
      <3>1. OneTrace /\ AckedMeansReceived
        BY <2>4 DEF AckInv
      <3> QED BY <2>1, <2>2, <3>1 DEF OneTrace, AckedMeansReceived
    <2> QED BY <2>2, <2>3, <2>4 DEF AckInv
  <1>7. ASSUME Server_Run \/ Server_RunFails \/ Device_Down \/ Device_Boot \/ Net_Lose
        PROVE  AckInv'
    <2>1. /\ UNCHANGED <<pc, n, dups, received>> /\ net' \subseteq net
          /\ spc' = "ack" => spc = "ack" /\ cur' = cur
      <3>1. CASE Server_Run
        BY <3>1 DEF Server_Run, cvars
      <3>2. CASE Device_Down
        BY <3>2 DEF Device_Down, cvars
      <3>3. CASE Device_Boot
        BY <3>3 DEF Device_Boot, cvars
      <3>4. CASE Net_Lose
        BY <3>4 DEF Net_Lose, cvars, dvars
      <3>5. CASE Server_RunFails
        BY <3>5 DEF Server_RunFails, cvars
      <3> QED BY <1>7, <3>1, <3>2, <3>3, <3>4, <3>5
    <2> QED BY <2>1 DEF AckInv, ReceivedInv, OneTrace, AckedMeansReceived
  <1> QED BY <1>1, <1>2, <1>3, <1>4, <1>5, <1>6, <1>7
          DEF Next, ClientNext, DeviceNext, AllLeft

\* As long as the network has duplicated nothing, every command for which
\* simple_device_cmd returned 0 has been received by baa_device_mgmt_th.
THEOREM AckedUnlessDuplicatedHolds == Spec => []AckedUnlessDuplicated
  <1>1. Init => AckInv
    BY DEF Init, AckInv, ReceivedInv, OneTrace, AckedMeansReceived
  <1>2. TypeInv /\ AckInv /\ [Next]_vars => AckInv'
    BY AckStep
  <1>3. AckInv => AckedUnlessDuplicated
    BY DEF AckInv, AckedUnlessDuplicated
  <1> QED BY <1>1, <1>2, <1>3, TypeInvariance, PTL DEF Spec

-----------------------------------------------------------------------------
(* Reboots *)

\* There are finitely many reboots to ask for.
LEMMA RebootsFinite == IsFiniteSet(Reboots)
  <1> DEFINE f == [c \in Clients |-> {c} \X DOMAIN Script[c]]
             T == {{c} \X DOMAIN Script[c] : c \in Clients}
  <1>1. f \in Surjection(Clients, T)
    BY DEF Surjection
  <1>2. IsFiniteSet(T)
    BY <1>1, ClientsAssumption, FS_Surjection
  <1>3. ASSUME NEW c \in Clients PROVE IsFiniteSet({c} \X DOMAIN Script[c])
    <2>1. IsFiniteSet({c}) /\ IsFiniteSet(DOMAIN Script[c])
      <3>1. DOMAIN Script[c] = 1 .. Len(Script[c]) /\ Len(Script[c]) \in Int /\ 1 \in Int
        BY Scripts
      <3>2. IsFiniteSet(1 .. Len(Script[c]))
        BY <3>1, FS_Interval
      <3> QED BY <3>1, <3>2, FS_Singleton
    <2> QED BY <2>1, FS_Product
  <1>4. IsFiniteSet(UNION T)
    BY <1>2, <1>3, FS_UNION
  <1>5. Reboots \in SUBSET UNION T
    BY DEF Reboots
  <1> QED BY <1>4, <1>5, FS_Subset

\* The reboot of a script is one of Reboots.
LEMMA RebootsMember ==
    ASSUME NEW c \in Clients, NEW j \in 1 .. Len(Script[c])
    PROVE  <<c, j>> \in Reboots <=> Script[c][j] = REBOOT
  <1>1. <<c, j>> \in UNION {{d} \X DOMAIN Script[d] : d \in Clients}
    BY Scripts
  <1> QED BY <1>1 DEF Reboots, REBOOT

\* The numbers the balance consists of.
LEMMA Numbers ==
    ASSUME TypeInv
    PROVE  /\ IsFiniteSet(Unsent) /\ IsFiniteSet(Flying)
           /\ Cardinality(Unsent) \in Nat /\ Cardinality(Flying) \in Nat
           /\ Held \in {0, 1} /\ Due \in {0, 1} /\ boots \in Nat /\ dups \in Nat
           /\ Cardinality(Reboots) \in Nat
  <1>1. Unsent \in SUBSET Reboots /\ Flying \in SUBSET net /\ IsFiniteSet(net)
    BY DEF Unsent, Flying, TypeInv
  <1>2. IsFiniteSet(Unsent) /\ IsFiniteSet(Flying)
    BY <1>1, RebootsFinite, FS_Subset
  <1> QED BY <1>2, RebootsFinite, FS_CardinalityType, DupAssumption
          DEF Held, Due, TypeInv, TypeOK

\* A part of a finite set has no more elements.
LEMMA Smaller ==
    ASSUME NEW S, IsFiniteSet(S), NEW T, T \subseteq S
    PROVE  Cardinality(T) <= Cardinality(S)
  BY FS_Subset

\* No step creates a reboot, and only a duplicated datagram multiplies one.
LEMMA RebootStep ==
    ASSUME TypeInv, TypeInv', RebootInv, [Next]_vars
    PROVE  RebootInv'
  <1> DEFINE U == Cardinality(Unsent)
             F == Cardinality(Flying)
             R == Cardinality(Reboots)
  <1>0. /\ U \in Nat /\ F \in Nat /\ Held \in {0, 1} /\ Due \in {0, 1}
        /\ boots \in Nat /\ dups \in Nat /\ R \in Nat
        /\ U' \in Nat /\ F' \in Nat /\ Held' \in {0, 1} /\ Due' \in {0, 1}
        /\ boots' \in Nat /\ dups' \in Nat /\ R' = R
        /\ IsFiniteSet(Unsent) /\ IsFiniteSet(Flying)
    <2>1. /\ IsFiniteSet(Unsent') /\ IsFiniteSet(Flying')
      <3>1. Unsent' \in SUBSET Reboots /\ Flying' \in SUBSET net' /\ IsFiniteSet(net')
        BY DEF Unsent, Flying, TypeInv
      <3> QED BY <3>1, RebootsFinite, FS_Subset
    <2>2. boots' \in Nat /\ dups' \in Nat /\ Held' \in {0, 1} /\ Due' \in {0, 1}
      BY DupAssumption DEF Held, Due, TypeInv, TypeOK
    <2> QED BY <2>1, <2>2, Numbers, FS_CardinalityType DEF Reboots
  <1>a. U + F + Held + Due + boots <= R + dups
    BY DEF RebootInv
  <1>i. /\ U \in Int /\ F \in Int /\ Held \in Int /\ Due \in Int
        /\ boots \in Int /\ dups \in Int /\ R \in Int
    BY <1>0
  <1>p. PICK u \in Int, f \in Int, h \in Int, d \in Int, b \in Int, k \in Int :
            u = U' /\ f = F' /\ h = Held' /\ d = Due' /\ b = boots' /\ k = dups'
    BY <1>0
  <1>b. SUFFICES u + f + h + d + b <= R + k
    BY <1>0, <1>p, Zenon DEF RebootInv
  <1> HIDE DEF U, F, R
  <1>1. ASSUME Unsent' \subseteq Unsent PROVE U' <= U
    BY <1>0, <1>1, Smaller DEF U
  <1>2. ASSUME net' \subseteq net PROVE F' <= F
    <2>1. Flying' \subseteq Flying
      BY <1>2 DEF Flying
    <2> QED BY <1>0, <2>1, Smaller DEF F
  <1>c. ASSUME u <= U, f <= F, h <= Held, d <= Due, b = boots, k >= dups
        PROVE  u + f + h + d + b <= R + k
    BY <1>i, <1>a, <1>c
  <1>3. CASE UNCHANGED vars
    <2>1. U' = U /\ F' = F /\ Held' = Held /\ Due' = Due /\ boots' = boots /\ dups' = dups
      BY <1>3 DEF vars, U, F, Unsent, Flying, Held, Due, CurCmd
    <2> QED BY <1>c, <1>i, <1>p, <2>1
  <1>4. ASSUME NEW c \in Clients, Client_Send(c) PROVE u + f + h + d + b <= R + k
    <2> DEFINE m == Datagram("cmd", c, sock[c], n[c])
    <2>1. /\ pc[c] = "send" /\ net' = net \cup {m} /\ pc' = [pc EXCEPT ![c] = "recv"]
          /\ UNCHANGED <<n, dups, spc, cur, pending, boots>>
      BY <1>4 DEF Client_Send, dvars
    <2>2. n[c] \in 1 .. Len(Script[c]) /\ m.kind = "cmd" /\ m.client = c /\ m.n = n[c]
      BY <2>1, Scripts DEF TypeInv, TypeOK, Datagram
    <2>3. Held' = Held /\ Due' = Due
      BY <2>1 DEF Held, Due, CurCmd
    <2> HIDE DEF m
    <2>4. ASSUME NEW j \in Unsent' PROVE j \in Unsent /\ j # <<c, n[c]>>
      <3>1. /\ j \in Reboots
            /\ \/ n[j[1]] < j[2]
               \/ n[j[1]] = j[2] /\ pc'[j[1]] \in {"send", "sleep"}
        BY <2>1, <2>4 DEF Unsent, Reboots
      <3>2. j[1] \in Clients
        BY <3>1 DEF Reboots
      <3>3. pc'[j[1]] \in {"send", "sleep"} => j[1] # c /\ pc[j[1]] \in {"send", "sleep"}
        BY <2>1, <3>2 DEF TypeInv, TypeOK
      <3>4. j # <<c, n[c]>>
        BY <2>2, <3>1, <3>3
      <3> QED BY <3>1, <3>3, <3>4 DEF Unsent
    <2>5. CASE Script[c][n[c]] = REBOOT
      <3>1. <<c, n[c]>> \in Unsent
        BY <2>1, <2>2, <2>5, RebootsMember DEF Unsent
      <3>2. Unsent' \subseteq Unsent \ {<<c, n[c]>>}
        BY <2>4
      <3>3. /\ IsFiniteSet(Unsent \ {<<c, n[c]>>})
            /\ Cardinality(Unsent \ {<<c, n[c]>>}) = U - 1
        BY <1>0, <3>1, FS_RemoveElement DEF U
      <3>4. U' <= U - 1
        BY <3>2, <3>3, Smaller DEF U
      <3>5. Flying' \subseteq Flying \cup {m}
        BY <2>1 DEF Flying
      <3>6. IsFiniteSet(Flying \cup {m}) /\ Cardinality(Flying \cup {m}) <= F + 1
        <4>1. /\ IsFiniteSet(Flying \cup {m})
              /\ Cardinality(Flying \cup {m}) = IF m \in Flying THEN F ELSE F + 1
          BY <1>0, FS_AddElement DEF F
        <4> QED BY <1>i, <4>1
      <3>7. f <= F + 1
        <4>1. F' <= Cardinality(Flying \cup {m}) /\ Cardinality(Flying \cup {m}) \in Nat
          BY <3>5, <3>6, Smaller, FS_CardinalityType DEF F
        <4>2. f <= Cardinality(Flying \cup {m})
          BY <1>p, <4>1
        <4> QED BY <1>i, <3>6, <4>1, <4>2
      <3>8. u <= U - 1 /\ f <= F + 1 /\ h = Held /\ d = Due /\ b = boots /\ k = dups
        BY <1>p, <2>1, <2>3, <3>4, <3>7
      <3> QED BY <1>i, <1>a, <3>8
    <2>6. CASE Script[c][n[c]] # REBOOT
      <3>1. Flying' \subseteq Flying
        BY <2>1, <2>2, <2>6 DEF Flying
      <3>2. F' <= F
        BY <1>0, <3>1, Smaller DEF F
      <3>3. U' <= U
        BY <1>1, <2>4
      <3>4. u <= U /\ f <= F /\ h = Held /\ d = Due /\ b = boots /\ k = dups
        BY <1>p, <2>1, <2>3, <3>2, <3>3
      <3> QED BY <1>i, <1>a, <3>4
    <2> QED BY <2>5, <2>6
  <1>5. ASSUME NEW c \in Clients,
               \/ Client_SendFails(c) \/ Client_RecvFails(c)
               \/ Client_Reconnect(c) \/ Client_ReconnectFails(c)
        PROVE  u + f + h + d + b <= R + k
    <2>1. /\ UNCHANGED <<n, net, dups, spc, cur, pending, boots>>
          /\ \A o \in Clients : pc'[o] \in {"send", "sleep"} => pc[o] \in {"send", "sleep"}
      BY <1>5 DEF Client_SendFails, Client_RecvFails, Client_Reconnect, Client_ReconnectFails, dvars, TypeInv, TypeOK
    <2>2. Held' = Held /\ Due' = Due
      BY <2>1 DEF Held, Due, CurCmd
    <2>3. Unsent' \subseteq Unsent
      BY <2>1 DEF Unsent, Reboots
    <2>4. U' <= U /\ F' <= F
      BY <1>1, <1>2, <2>1, <2>3
    <2>5. u <= U /\ f <= F /\ h <= Held /\ d = Due /\ b = boots /\ k >= dups
      BY <1>i, <1>p, <2>1, <2>2, <2>4
    <2> QED BY <1>c, <1>i, <2>5
  <1>6. ASSUME NEW c \in Clients, Client_Recv(c) PROVE u + f + h + d + b <= R + k
    <2>1. PICK m \in net : Take(m)
      BY <1>6 DEF Client_Recv
    <2>2. pc[c] = "recv" /\ NextCommand(c) /\ UNCHANGED <<spc, cur, pending, boots>>
      BY <1>6 DEF Client_Recv, dvars
    <2>3. net' \subseteq net /\ dups' >= dups
      BY <1>0, <2>1, TakeEffect
    <2>4. n'[c] = n[c] + 1 /\ \A o \in Clients : o # c => n'[o] = n[o] /\ pc'[o] = pc[o]
      BY <2>2, NextCommandType
    <2>5. ASSUME NEW j \in Unsent' PROVE j \in Unsent
      <3>1. /\ j \in Reboots
            /\ \/ n'[j[1]] < j[2]
               \/ n'[j[1]] = j[2] /\ pc'[j[1]] \in {"send", "sleep"}
        BY <2>5 DEF Unsent, Reboots
      <3>2. j[1] \in Clients /\ j[2] \in Int /\ n[j[1]] \in Int
        BY <3>1, Scripts DEF Reboots, TypeInv
      <3> QED BY <2>4, <3>1, <3>2 DEF Unsent
    <2>6. Held' = Held /\ Due' = Due
      BY <2>2 DEF Held, Due, CurCmd
    <2>7. U' <= U /\ F' <= F
      BY <1>1, <1>2, <2>3, <2>5
    <2>8. u <= U /\ f <= F /\ h <= Held /\ d = Due /\ b = boots /\ k >= dups
      BY <1>i, <1>p, <2>2, <2>3, <2>6, <2>7
    <2> QED BY <1>c, <1>i, <2>8
  <1>7. ASSUME Server_Recv PROVE u + f + h + d + b <= R + k
    <2>1. PICK m \in net : m.kind = "cmd" /\ Take(m) /\ cur' = m
      BY <1>7 DEF Server_Recv
    <2>2. spc = "recv" /\ spc' = "ack" /\ UNCHANGED <<pc, n, pending, boots>>
      BY <1>7 DEF Server_Recv, cvars
    <2>3. /\ net' \subseteq net
          /\ \/ net' = net \ {m} /\ dups' = dups
             \/ net' = net /\ dups' = dups + 1
      BY <2>1, TakeEffect
    <2>4. Held = 0 /\ Due' = Due /\ U' = U
      BY <2>2 DEF Held, Due, U, Unsent
    <2>5. Held' = IF Script[m.client][m.n] = REBOOT THEN 1 ELSE 0
      BY <2>1, <2>2 DEF Held, CurCmd
    <2>6. F' <= F
      BY <1>2, <2>3
    <2>7. CASE Script[m.client][m.n] = REBOOT /\ net' = net \ {m} /\ dups' = dups
      <3>1. m \in Flying /\ Flying' = Flying \ {m}
        BY <2>1, <2>7 DEF Flying
      <3>2. F' = F - 1
        BY <1>0, <3>1, FS_RemoveElement DEF F
      <3>3. h <= 1 /\ f = F - 1
        BY <1>0, <1>p, <3>2
      <3>4. u = U /\ d = Due /\ b = boots /\ k = dups
        BY <1>p, <2>2, <2>4, <2>7
      <3> QED BY <1>i, <1>a, <2>4, <3>3, <3>4
    <2>8. CASE dups' = dups + 1
      <3>1. h <= 1 /\ f <= F /\ u = U /\ d = Due /\ b = boots /\ k = dups + 1
        BY <1>0, <1>p, <2>2, <2>4, <2>6, <2>8
      <3>2. Held = 0
        BY <2>4
      <3> QED BY <1>i, <1>a, <3>1, <3>2
    <2>9. CASE Script[m.client][m.n] # REBOOT
      <3>1. h = 0 /\ f <= F /\ u = U /\ d = Due /\ b = boots /\ Held = 0
        BY <1>p, <2>2, <2>4, <2>5, <2>6, <2>9
      <3>2. dups' >= dups
        BY <1>i, <2>3
      <3>3. k >= dups
        BY <1>p, <3>2
      <3> QED BY <1>i, <1>c, <3>1, <3>3
    <2> QED BY <2>3, <2>7, <2>8, <2>9
  <1>8. ASSUME Server_Ack PROVE u + f + h + d + b <= R + k
    <2> DEFINE m == Datagram("ack", cur.client, cur.sock, cur.n)
    <2>1. /\ spc = "ack" /\ net' = net \cup {m} /\ UNCHANGED <<pc, n, dups, pending, boots>>
          /\ m.kind = "ack" /\ (spc' = "recv" \/ cur' = cur)
      BY <1>8 DEF Server_Ack, cvars, Datagram
    <2> HIDE DEF m
    <2>2. Held' <= Held /\ Due' = Due /\ U' = U
      BY <2>1 DEF Held, Due, U, Unsent, CurCmd
    <2>3. Flying' = Flying
      BY <2>1 DEF Flying
    <2>4. F' = F
      BY <2>3 DEF F
    <2>5. u <= U /\ f <= F /\ h <= Held /\ d = Due /\ b = boots /\ k >= dups
      BY <1>i, <1>p, <2>1, <2>2, <2>4
    <2> QED BY <1>c, <1>i, <2>5
  <1>9. ASSUME Server_Run PROVE u + f + h + d + b <= R + k
    <2>1. /\ spc = "run" /\ spc' = "recv" /\ pending' = CurCmd
          /\ UNCHANGED <<pc, n, net, dups, boots>>
      BY <1>9 DEF Server_Run, cvars
    <2>2. Held' = 0 /\ Due' = Held /\ U' = U /\ F' = F
      BY <2>1 DEF Held, Due, U, F, Unsent, Flying
    <2>3. h = 0 /\ d = Held /\ u = U /\ f = F /\ b = boots /\ k = dups
      BY <1>p, <2>1, <2>2
    <2>4. Held >= 0 /\ Due >= 0
      BY <1>0
    <2> QED BY <1>i, <1>a, <2>3, <2>4
  <1>10. ASSUME Device_Down PROVE u + f + h + d + b <= R + k
    <2>1. spc' = "recv" /\ UNCHANGED <<pc, n, net, dups, pending, boots>>
      BY <1>10 DEF Device_Down, cvars
    <2>2. Held' = 0 /\ Due' = Due /\ U' = U /\ F' = F
      BY <2>1 DEF Held, Due, U, F, Unsent, Flying
    <2>3. h = 0 /\ d = Due /\ u = U /\ f = F /\ b = boots /\ k = dups
      BY <1>p, <2>1, <2>2
    <2>4. Held >= 0 /\ Due >= 0
      BY <1>0
    <2> QED BY <1>i, <1>a, <2>3, <2>4
  <1>11. ASSUME Device_Boot PROVE u + f + h + d + b <= R + k
    <2>1. /\ pending = REBOOT /\ pending' = "none" /\ boots' = boots + 1
          /\ UNCHANGED <<pc, n, net, dups, spc, cur>>
      BY <1>11 DEF Device_Boot, cvars, REBOOT
    <2>2. Held' = Held /\ Due = 1 /\ Due' = 0 /\ U' = U /\ F' = F
      BY <2>1 DEF Held, Due, U, F, Unsent, Flying, CurCmd, REBOOT
    <2>3. h = Held /\ d = 0 /\ Due = 1 /\ u = U /\ f = F /\ b = boots + 1 /\ k = dups
      BY <1>p, <2>1, <2>2
    <2>4. Held >= 0 /\ Due >= 0
      BY <1>0
    <2> QED BY <1>i, <1>a, <2>3, <2>4
  <1>13. ASSUME Server_RunFails PROVE u + f + h + d + b <= R + k
    <2>1. spc' = "recv" /\ UNCHANGED <<pc, n, net, dups, pending, boots>>
      BY <1>13 DEF Server_RunFails, cvars
    <2>2. Held' = 0 /\ Due' = Due /\ U' = U /\ F' = F
      BY <2>1 DEF Held, Due, U, F, Unsent, Flying
    <2>3. h = 0 /\ d = Due /\ u = U /\ f = F /\ b = boots /\ k = dups
      BY <1>p, <2>1, <2>2
    <2>4. Held >= 0 /\ Due >= 0
      BY <1>0
    <2> QED BY <1>i, <1>a, <2>3, <2>4
  <1>12. ASSUME Net_Lose PROVE u + f + h + d + b <= R + k
    <2>1. UNCHANGED <<pc, n, dups, spc, cur, pending, boots>> /\ net' \subseteq net
      BY <1>12 DEF Net_Lose, cvars, dvars
    <2>2. Held' = Held /\ Due' = Due /\ U' = U
      BY <2>1 DEF Held, Due, U, Unsent, CurCmd
    <2>3. F' <= F
      BY <1>2, <2>1
    <2>4. u <= U /\ f <= F /\ h <= Held /\ d = Due /\ b = boots /\ k >= dups
      BY <1>i, <1>p, <2>1, <2>2, <2>3
    <2> QED BY <1>c, <1>i, <2>4
  <1> QED BY <1>3, <1>4, <1>5, <1>6, <1>7, <1>8, <1>9, <1>10, <1>11, <1>12, <1>13
          DEF Next, ClientNext, DeviceNext, AllLeft

\* The device reboots at most once for every reboot command of a script and
\* every datagram the network duplicated.
THEOREM AtMostOnceHolds == Spec => []AtMostOnce
  <1>1. ASSUME Init PROVE RebootInv
    <2>1. Unsent \subseteq Reboots /\ Flying = {} /\ Held = 0 /\ Due = 0 /\ boots = 0 /\ dups = 0
      BY <1>1 DEF Init, Unsent, Flying, Held, Due, REBOOT
    <2>2. Cardinality(Unsent) <= Cardinality(Reboots) /\ Cardinality(Flying) = 0
      BY <2>1, RebootsFinite, Smaller, FS_EmptySet
    <2>3. TypeInv
      BY <1>1, InitType
    <2> QED BY <2>1, <2>2, <2>3, Numbers DEF RebootInv
  <1>2. TypeInv /\ TypeInv' /\ RebootInv /\ [Next]_vars => RebootInv'
    BY RebootStep
  <1>3. ASSUME TypeInv, RebootInv PROVE AtMostOnce
    BY <1>3, Numbers DEF RebootInv, AtMostOnce
  <1> QED BY <1>1, <1>2, <1>3, TypeInvariance, PTL DEF Spec

-----------------------------------------------------------------------------
(* The reboot client *)

\* Once a reboot or a halt is under way it stays so, and so does its end; the
\* system() of a reboot client's first command fails for it alone.
LEMMA DeviceMoves ==
    ASSUME TypeInv, SocketInv, [Next]_vars
    PROVE  /\ \A c \in Clients : Rebooter(c) /\ UnderWay(c) => UnderWay(c)'
           /\ \A c \in Clients : Over(c) => Over(c)'
           /\ \A c \in Clients : Confirmed(c) => Confirmed(c)'
           /\ ~up' => pending' # "none" /\ spc' = "recv"
  <1> USE DEF UnderWay, Over, Confirmed, Misled
  <1>1. CASE UNCHANGED dvars /\ hasty \subseteq hasty'
    BY <1>1 DEF dvars, SocketInv
  <1>2. CASE Server_Recv
    BY <1>2 DEF Server_Recv, cvars
  <1>3. CASE Server_Ack
    BY <1>3 DEF Server_Ack, cvars
  <1>4. CASE Server_Run
    BY <1>4 DEF Server_Run, TypeInv, RunCmds, cvars
  <1>5. CASE Device_Down
    BY <1>5 DEF Device_Down, cvars
  <1>6. CASE Device_Boot
    <2>1. boots \in Nat /\ boots' = boots + 1 /\ up' /\ ~up /\ pending = REBOOT
      BY <1>6 DEF Device_Boot, TypeInv, TypeOK, REBOOT
    <2>2. boots' > 0
      BY <2>1
    <2> QED BY <2>1, <2>2 DEF HALT, REBOOT
  <1>9. CASE Server_RunFails
    <2>1. /\ up /\ spc = "run" /\ UNCHANGED <<hasty, up, pending, boots>>
          /\ refused \subseteq refused' /\ up' = up
          /\ CurCmd = REBOOT => <<cur.client, cur.n>> \in refused'
      BY <1>9 DEF Server_RunFails, cvars, REBOOT
    <2>2. ASSUME NEW c \in Clients, Rebooter(c), cur.client = c, cur.n = 1
          PROVE  <<c, 1>> \in refused'
      BY <2>1, <2>2 DEF CurCmd, Rebooter
    <2> QED BY <2>1, <2>2
  <1>7. ASSUME NEW c \in Clients, ClientNext(c) PROVE UNCHANGED dvars /\ hasty \subseteq hasty'
    BY <1>7 DEF ClientNext, Client_Send, Client_SendFails, Client_Recv, Client_RecvFails,
                Client_Reconnect, Client_ReconnectFails, NextCommand
  <1>8. ASSUME Net_Lose \/ AllLeft \/ UNCHANGED vars PROVE UNCHANGED dvars /\ hasty \subseteq hasty'
    BY <1>8 DEF Net_Lose, AllLeft, vars, dvars, cvars
  <1> QED BY <1>1, <1>2, <1>3, <1>4, <1>5, <1>6, <1>7, <1>8, <1>9 DEF Next, DeviceNext

\* A client that does not move keeps what SocketInv says of it, and so does a
\* datagram.
LEMMA Unmoved ==
    ASSUME TypeInv, SocketInv, [Next]_vars
    PROVE  /\ \A c \in Clients :
                Rebooter(c) /\ ClientSocket(c) /\ pc'[c] = pc[c] /\ n'[c] = n[c] /\ sock'[c] = sock[c]
                => ClientSocket(c)'
           /\ \A m \in Datagrams : /\ SentFrom(m) /\ (sock[m.client] = 2 => sock'[m.client] = 2) => SentFrom(m)'
                                   /\ Rebooter(m.client) /\ AckSent(m) => AckSent(m)'
  <1>1. ASSUME NEW c \in Clients, Rebooter(c), ClientSocket(c),
               pc'[c] = pc[c] /\ n'[c] = n[c] /\ sock'[c] = sock[c]
        PROVE  ClientSocket(c)'
    <2>1. (UnderWay(c) => UnderWay(c)') /\ (Over(c) => Over(c)') /\ (Confirmed(c) => Confirmed(c)')
      BY <1>1, DeviceMoves
    <2> QED BY <1>1, <2>1 DEF ClientSocket
  <1>2. ASSUME NEW m \in Datagrams, SentFrom(m), sock[m.client] = 2 => sock'[m.client] = 2
        PROVE  SentFrom(m)'
    BY <1>2 DEF SentFrom
  <1>3. ASSUME NEW m \in Datagrams, Rebooter(m.client), AckSent(m)
        PROVE  AckSent(m)'
    <2>1. PICK c \in Clients : c = m.client
      BY Fields
    <2>2. (UnderWay(c) => UnderWay(c)') /\ (Confirmed(c) => Confirmed(c)')
      BY <1>3, <2>1, DeviceMoves
    <2> QED BY <1>3, <2>1, <2>2 DEF AckSent
  <1>4. \A c \in Clients :
            Rebooter(c) /\ ClientSocket(c) /\ pc'[c] = pc[c] /\ n'[c] = n[c] /\ sock'[c] = sock[c]
            => ClientSocket(c)'
    BY <1>1
  <1>5. \A m \in Datagrams : SentFrom(m) /\ (sock[m.client] = 2 => sock'[m.client] = 2) => SentFrom(m)'
    BY <1>2
  <1>6. \A m \in Datagrams : Rebooter(m.client) /\ AckSent(m) => AckSent(m)'
    BY <1>3
  <1> QED BY <1>4, <1>5, <1>6, Zenon

\* No answer on the second socket of a reboot client comes from the device as
\* it was before the reboot.
LEMMA SocketStep ==
    ASSUME RebootFirst, TypeInv, SocketInv, [Next]_vars
    PROVE  SocketInv'
  <1>1. ~up' => pending' # "none" /\ spc' = "recv"
    BY DeviceMoves
  <1>2. /\ net \subseteq Datagrams /\ (spc # "recv" => cur \in Datagrams)
        /\ \A m \in Datagrams : m.client \in Clients
    BY Fields DEF TypeInv
  <1>3. ASSUME UNCHANGED <<pc, n, sock, spc, cur>>, net' \subseteq net
        PROVE  SocketInv'
    <2>1. \A c \in Clients : Rebooter(c) => ClientSocket(c)'
      BY <1>3, Unmoved DEF SocketInv
    <2>2. \A m \in net' : Rebooter(m.client) => SentFrom(m)' /\ AckSent(m)'
      BY <1>2, <1>3, Unmoved DEF SocketInv
    <2>3. spc' \in {"ack", "run"} /\ Rebooter(cur.client) => SentFrom(cur)'
      BY <1>2, <1>3 DEF SocketInv, SentFrom
    <2> QED BY <1>1, <1>3, <2>1, <2>2, <2>3 DEF SocketInv, Rebooter
  <1>4. ASSUME NEW c \in Clients, UNCHANGED <<spc, cur>>,
               \A d \in Clients \ {c} : pc'[d] = pc[d] /\ n'[d] = n[d] /\ sock'[d] = sock[d],
               Rebooter(c) => ClientSocket(c)' /\ (sock[c] = 2 => sock'[c] = 2),
               \A m \in net' \ net : Rebooter(m.client) => SentFrom(m)' /\ AckSent(m)'
        PROVE  SocketInv'
    <2>1. \A d \in Clients : Rebooter(d) => ClientSocket(d)' /\ (sock[d] = 2 => sock'[d] = 2)
      BY <1>4, Unmoved DEF SocketInv
    <2>2. \A m \in Datagrams : Rebooter(m.client) /\ SentFrom(m) => SentFrom(m)'
      BY <1>2, <2>1, Unmoved
    <2>3. \A m \in net' : Rebooter(m.client) => SentFrom(m)' /\ AckSent(m)'
      BY <1>2, <1>4, <2>2, Unmoved DEF SocketInv
    <2>4. spc' \in {"ack", "run"} /\ Rebooter(cur.client) => SentFrom(cur)'
      BY <1>2, <1>4, <2>2 DEF SocketInv
    <2>5. cur' = cur
      BY <1>4
    <2> QED BY <1>1, <2>1, <2>3, <2>4, <2>5 DEF SocketInv, Rebooter, SentFrom
  <1>5. ASSUME NEW c \in Clients, Client_Send(c) PROVE SocketInv'
    <2>0. PICK m : m = Datagram("cmd", c, sock[c], n[c])
      OBVIOUS
    <2>1. /\ pc[c] = "send" /\ net' = net \cup {m} /\ pc' = [pc EXCEPT ![c] = "recv"]
          /\ UNCHANGED <<n, sock, spc, cur>> /\ pc \in [Clients -> {"send", "recv", "sleep", "done", "failed"}]
      BY <1>5, <2>0 DEF Client_Send, dvars, TypeInv, TypeOK
    <2>2. m.kind = "cmd" /\ m.client = c /\ m.n = n[c] /\ m.sock = sock[c]
      BY <2>0 DEF Datagram
    <2>3. ASSUME Rebooter(c) PROVE ClientSocket(c)' /\ SentFrom(m)'
      <3>1. ClientSocket(c)
        BY <2>3 DEF SocketInv
      <3> QED BY <2>1, <2>2, <3>1, DeviceMoves DEF ClientSocket, SentFrom
    <2>4. AckSent(m)'
      BY <2>2 DEF AckSent
    <2>5. \A d \in Clients \ {c} : pc'[d] = pc[d] /\ n'[d] = n[d] /\ sock'[d] = sock[d]
      BY <2>1
    <2>6. \A o \in net' \ net : o = m
      BY <2>1
    <2> QED BY <1>4, <2>1, <2>2, <2>3, <2>4, <2>5, <2>6
  <1>6. ASSUME NEW c \in Clients, 
               Client_SendFails(c) \/ Client_RecvFails(c) \/ Client_ReconnectFails(c)
        PROVE  SocketInv'
    <2>1. /\ pc' = [pc EXCEPT ![c] = "failed"] /\ UNCHANGED <<n, sock, net, spc, cur>>
          /\ pc \in [Clients -> {"send", "recv", "sleep", "done", "failed"}]
      BY <1>6 DEF Client_SendFails, Client_RecvFails, Client_ReconnectFails, dvars, TypeInv, TypeOK
    <2>2. ASSUME Rebooter(c) PROVE ClientSocket(c)'
      <3>1. ClientSocket(c)
        BY <2>2 DEF SocketInv
      <3> QED BY <2>1, <3>1, DeviceMoves DEF ClientSocket
    <2>3. \A d \in Clients \ {c} : pc'[d] = pc[d] /\ n'[d] = n[d] /\ sock'[d] = sock[d]
      BY <2>1
    <2> QED BY <1>4, <2>1, <2>2, <2>3
  <1>7. ASSUME NEW c \in Clients, Client_Recv(c) PROVE SocketInv'
    <2>1. PICK m \in net : m.kind = "ack" /\ m.client = c /\ m.sock = sock[c] /\ Take(m)
      BY <1>7 DEF Client_Recv
    <2>2. pc[c] = "recv" /\ NextCommand(c) /\ UNCHANGED <<spc, cur>>
      BY <1>7 DEF Client_Recv, dvars
    <2>3. net' \subseteq net
      BY <2>1, TakeEffect
    <2>4. /\ sock' = sock /\ n'[c] = n[c] + 1 /\ n[c] \in 1 .. Len(Script[c])
          /\ \A d \in Clients : d # c => n'[d] = n[d] /\ pc'[d] = pc[d]
          /\ \/ n[c] = Len(Script[c]) /\ pc'[c] = "done"
             \/ n[c] < Len(Script[c]) /\ pc'[c] = "sleep" /\ Script[c][n[c]] = REBOOT
             \/ n[c] < Len(Script[c]) /\ pc'[c] = "send" /\ Script[c][n[c]] # REBOOT
      BY <2>2, NextCommandType
    <2>5. ASSUME Rebooter(c) PROVE ClientSocket(c)'
      <3>1. ClientSocket(c) /\ AckSent(m) /\ SentFrom(m)
        BY <2>1, <2>5 DEF SocketInv
      <3>2. Len(Script[c]) > 1 /\ \A j \in 1 .. Len(Script[c]) : Script[c][j] = REBOOT => j = 1
        BY <2>5, Scripts DEF RebootFirst, Rebooter
      <3>3. n[c] = 1 => sock[c] = 1 /\ UnderWay(c) /\ n'[c] = 2
        BY <2>1, <2>2, <2>4, <3>1 DEF ClientSocket, AckSent
      <3>4. n[c] # 1 => sock[c] = 2 /\ Confirmed(c)
        BY <2>1, <2>2, <3>1 DEF ClientSocket, AckSent
      <3>5. CASE n[c] = 1
        <4>1. pc'[c] = "sleep"
          BY <2>4, <2>5, <3>2, <3>5 DEF Rebooter
        <4> QED BY <2>4, <2>5, <3>3, <3>5, <4>1, DeviceMoves DEF ClientSocket
      <3>6. CASE n[c] # 1
        <4>1. pc'[c] \in {"done", "send"} /\ n'[c] # 1
          BY <2>4, <3>2, <3>6
        <4>2. sock'[c] = 2 /\ Confirmed(c)' /\ Over(c)'
          BY <2>4, <3>4, <3>6, DeviceMoves DEF Over
        <4> QED BY <4>1, <4>2 DEF ClientSocket
      <3> QED BY <3>5, <3>6
    <2>6. \A d \in Clients \ {c} : pc'[d] = pc[d] /\ n'[d] = n[d] /\ sock'[d] = sock[d]
      BY <2>4
    <2> QED BY <1>4, <2>2, <2>3, <2>4, <2>5, <2>6
  <1>8. ASSUME NEW c \in Clients, Client_Reconnect(c) PROVE SocketInv'
    <2>1. /\ pc[c] = "sleep" /\ (Settled \/ c \in hasty')
          /\ sock' = [sock EXCEPT ![c] = @ + 1] /\ pc' = [pc EXCEPT ![c] = "send"]
          /\ UNCHANGED <<n, net, spc, cur>>
          /\ pc \in [Clients -> {"send", "recv", "sleep", "done", "failed"}]
          /\ sock \in [Clients -> Nat \ {0}]
      BY <1>8 DEF Client_Reconnect, dvars, TypeInv, TypeOK
    <2>2. ASSUME Rebooter(c) PROVE ClientSocket(c)' /\ (sock[c] = 2 => sock'[c] = 2)
      <3>1. sock[c] = 1 /\ n[c] > 1 /\ UnderWay(c)
        BY <2>1, <2>2 DEF SocketInv, ClientSocket
      <3>2. CASE Settled
        <4>1. Over(c)
          BY <3>1, <3>2 DEF UnderWay, Over, Settled, HALT
        <4> QED BY <2>1, <3>1, <4>1, DeviceMoves DEF ClientSocket
      <3>3. CASE c \in hasty'
        <4>1. Over(c)'
          BY <3>3 DEF Over, Confirmed, Misled
        <4> QED BY <2>1, <3>1, <4>1 DEF ClientSocket
      <3> QED BY <2>1, <3>2, <3>3
    <2>3. \A d \in Clients \ {c} : pc'[d] = pc[d] /\ n'[d] = n[d] /\ sock'[d] = sock[d]
      BY <2>1
    <2> QED BY <1>4, <2>1, <2>2, <2>3
  <1>9. ASSUME UNCHANGED <<pc, n, sock>>, net' \subseteq Datagrams,
               \A m \in net' : Rebooter(m.client) => SentFrom(m)' /\ AckSent(m)',
               spc' \in {"ack", "run"} /\ Rebooter(cur'.client) => SentFrom(cur')
        PROVE  SocketInv'
    <2>1. \A c \in Clients : Rebooter(c) => ClientSocket(c)'
      BY <1>9, Unmoved DEF SocketInv
    <2>2. spc' \in {"ack", "run"} /\ Rebooter(cur'.client) => SentFrom(cur)'
      BY <1>9 DEF SentFrom
    <2> QED BY <1>1, <1>9, <2>1, <2>2 DEF SocketInv, Rebooter
  <1>10. \A m \in net : Rebooter(m.client) /\ UNCHANGED sock => SentFrom(m)' /\ AckSent(m)'
    BY <1>2, Unmoved DEF SocketInv
  <1>t. net' \subseteq Datagrams
    BY TypeStep DEF TypeInv
  <1>11. ASSUME Server_Recv PROVE SocketInv'
    <2>1. PICK m \in net : Take(m) /\ cur' = m
      BY <1>11 DEF Server_Recv
    <2>2. UNCHANGED <<pc, n, sock>> /\ net' \subseteq net
      BY <1>11, <2>1, TakeEffect DEF Server_Recv, cvars
    <2>3. Rebooter(cur'.client) => SentFrom(cur')
      BY <2>1 DEF SocketInv
    <2> QED BY <1>9, <1>10, <1>t, <2>2, <2>3
  <1>12. ASSUME Server_Ack PROVE SocketInv'
    <2>0. PICK m : m = Datagram("ack", cur.client, cur.sock, cur.n)
      OBVIOUS
    <2>1. m.kind = "ack" /\ m.client = cur.client /\ m.n = cur.n /\ m.sock = cur.sock
      BY <2>0 DEF Datagram
    <2>2. /\ up /\ spc = "ack" /\ net' = net \cup {m} /\ UNCHANGED <<pc, n, sock, hasty, boots, refused>>
          /\ \/ CurCmd \in RunCmds /\ spc' = "run" /\ cur' = cur
             \/ CurCmd \notin RunCmds /\ spc' = "recv"
      BY <1>12, <2>0 DEF Server_Ack, cvars
    <2>3. ASSUME Rebooter(cur.client) PROVE SentFrom(m)' /\ AckSent(m)' /\ SentFrom(cur)
      <3>1. SentFrom(cur) /\ ClientSocket(cur.client)
        BY <1>2, <2>2, <2>3 DEF SocketInv
      <3>2. SentFrom(m)'
        BY <2>1, <2>2, <3>1 DEF SentFrom
      <3>3. CASE cur.n = 1
        <4>1. CurCmd \in RunCmds
          BY <2>3, <3>3 DEF CurCmd, RunCmds, Rebooter, REBOOT
        <4>2. UnderWay(m.client)' /\ m.sock = 1
          BY <2>1, <2>2, <3>1, <3>3, <4>1 DEF UnderWay, SentFrom
        <4> QED BY <2>1, <3>1, <3>2, <4>2 DEF AckSent
      <3>4. CASE cur.n # 1
        <4>1. m.sock = 2 /\ Over(m.client)
          BY <2>1, <3>1, <3>4 DEF SentFrom, ClientSocket
        <4>2. Confirmed(m.client)'
          BY <2>2, <4>1 DEF Over, Confirmed, Misled
        <4> QED BY <2>1, <3>1, <3>2, <4>1, <4>2 DEF AckSent
      <3> QED BY <3>3, <3>4
    <2>4. \A o \in net' : o \in net \/ o = m
      BY <2>2
    <2>5. \A o \in net' : Rebooter(o.client) => SentFrom(o)' /\ AckSent(o)'
      BY <1>10, <2>1, <2>2, <2>3, <2>4
    <2> QED BY <1>9, <1>t, <2>2, <2>3, <2>5
  <1>13. ASSUME Server_Run \/ Server_RunFails \/ Device_Down PROVE SocketInv'
    <2>1. UNCHANGED <<pc, n, sock, net>> /\ spc' = "recv"
      BY <1>13 DEF Server_Run, Server_RunFails, Device_Down, cvars
    <2> QED BY <1>9, <1>10, <1>t, <2>1
  <1>14. ASSUME Device_Boot \/ Net_Lose \/ AllLeft \/ UNCHANGED vars PROVE SocketInv'
    <2>1. UNCHANGED <<pc, n, sock, spc, cur>> /\ net' \subseteq net
      BY <1>14 DEF Device_Boot, Net_Lose, AllLeft, vars, cvars, dvars
    <2> QED BY <1>3, <2>1
  <1> QED BY <1>5, <1>6, <1>7, <1>8, <1>11, <1>12, <1>13, <1>14
          DEF Next, ClientNext, DeviceNext

\* If the reboot client asks for the reboot first and goes on with another
\* command, as udp_mgmt_reboot does, its success means that the device has
\* rebooted, that system() has failed for its command, or that it slept too
\* short: there is no other way to be misled, with any number of clients and
\* any loss, delay, reordering and duplication of datagrams.
THEOREM RebootConfirmedHolds ==
    ASSUME RebootFirst
    PROVE  Spec => []RebootConfirmed
  <1>1. Init => SocketInv
    BY DEF Init, SocketInv, ClientSocket
  <1>2. TypeInv /\ SocketInv /\ [Next]_vars => SocketInv'
    BY SocketStep
  <1>3. ASSUME SocketInv PROVE RebootConfirmed
    <2> SUFFICES ASSUME NEW c \in Clients, NEW j \in Reboots, pc[c] = "done", j[1] = c
                 PROVE  boots > 0 \/ j \in refused \/ c \in hasty
      BY DEF RebootConfirmed
    <2>1. j[2] \in DOMAIN Script[c] /\ Script[c][j[2]] = REBOOT /\ j = <<j[1], j[2]>>
      BY DEF Reboots, REBOOT
    <2>2. j = <<c, 1>> /\ Rebooter(c)
      BY <2>1 DEF RebootFirst, Rebooter
    <2> QED BY <1>3, <2>2 DEF SocketInv, ClientSocket, Confirmed, Misled
  <1> QED BY <1>1, <1>2, <1>3, TypeInvariance, PTL DEF Spec
=============================================================================
