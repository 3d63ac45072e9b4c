-------------------------- MODULE SchedPropsProofs --------------------------
(***************************************************************************)
(* Proofs about SchedProps for any number of clients, elements and crashes *)
(* and any lengths of the queues. What is said of a client's progress      *)
(* holds where each makes one call on its socket, as time_triggert_uds.c   *)
(* does; sched_retry shows that a second one breaks it.                    *)
(***************************************************************************)
EXTENDS SchedProps, SerializeProofs, SequenceTheorems

\* The control points at which the server has a request in its hands, and
\* those at which a client may have one under way.
Working == {"rcv_ack", "set", "sched", "cmd_ack"}
Waiting == {"read", "fail", "gone"}

\* The server works on a request of c.
Works(c) == srv \in Working /\ cur.client = c

\* The answers a client may have in its queue.
RcvAck  == <<"PTYPE_RCV_ACK">>
CmdAck  == <<"PTYPE_CMD_ACK">>
BothAck == <<"PTYPE_RCV_ACK", "PTYPE_CMD_ACK">>

\* Integers, the properties of a thread, and the requests for them.
Ints     == Fitting("L")
Props    == [policy : Ints, cpu : Ints, prio : Ints]
Calls    == UNION {KernelCalls(p) : p \in Props}
Requests == {Request(c, e, tid) : c \in Clients, e \in Elements, tid \in Ints}

\* What TypeOK leaves open.
TypeInv ==
    /\ TypeOK
    /\ squeue \in Seq(Requests)
    /\ timely \in BOOLEAN
    /\ told \in [Tids \cup {0} -> SUBSET Calls]
    /\ \A c \in Clients : cpc[c] \notin {"idle", "gone"} => calls[c] > 0

\* A request that waits is the only one of its client, is for the element the
\* client works on, and has had no effect.
QueuedAt(c, j) ==
    /\ ci[c] \in Elements
    /\ \E tid \in TidsRead(c, ci[c]) : squeue[j] = Request(c, ci[c], tid)
    /\ \A k \in 1 .. Len(squeue) : squeue[k].client = c => k = j
    /\ ~Works(c)
    /\ cpc[c] \in Waiting
    /\ c \notin finished
    /\ ackq[c] = <<>>
    /\ applied[c] = 1 .. ci[c] - 1

\* What is true of every request of c that waits.
QueueOf(c) == \A j \in 1 .. Len(squeue) : squeue[j].client = c => QueuedAt(c, j)

\* The request the server works on, as far as it has come.
WorkOf(c) == Works(c) =>
    /\ ci[c] \in Elements
    /\ cur.elem = ci[c]
    /\ cur.fiber.tid \in TidsRead(c, ci[c])
    /\ cur.fiber.props = Table[ci[c]]
    /\ cpc[c] \in Waiting
    /\ c \notin finished
    /\ ackq[c] = <<>> \/ (ackq[c] = RcvAck /\ srv # "rcv_ack")
    /\ applied[c] = IF srv = "cmd_ack" THEN 1 .. ci[c] ELSE 1 .. ci[c] - 1

\* What a client has read, and what it is yet to read.
ClientOf(c) ==
    /\ ackq[c] \in {<<>>, RcvAck, CmdAck, BothAck}
    /\ ackq[c] \in {CmdAck, BothAck} => applied[c] = 1 .. ci[c] /\ ~Works(c)
    /\ applied[c] \in {1 .. ci[c] - 1, 1 .. ci[c]}
    /\ cpc[c] \notin {"read", "fail"} => ackq[c] = <<>>
    /\ cpc[c] \in {"idle", "send", "ok"} => applied[c] = 1 .. ci[c] - 1
    /\ cpc[c] = "idle" => ci[c] = 1
    /\ cpc[c] = "ok" => ci[c] = Count + 1
    /\ c \in finished => cpc[c] \in {"ok", "gone"}

\* Where the request of c is, and how far c has come.
ProtocolOf(c) == QueueOf(c) /\ WorkOf(c) /\ ClientOf(c)

\* What the kernel was told is what was applied, as long as the thread lives;
\* between its two calls the server has made the first.
ToldInv ==
    /\ timely => told[0] = {}
    /\ \A c \in Clients, e \in Elements :
          /\ told[Tid[c][e]] \subseteq KernelCalls(Table[e])
          /\ timely /\ cpc[c] # "gone" /\ e \in applied[c] => told[Tid[c][e]] = KernelCalls(Table[e])
          /\ c \in finished /\ cpc[c] = "gone" => told[Tid[c][e]] = {}
    /\ \A c \in Clients : timely /\ srv = "sched" /\ cur.client = c /\ cpc[c] # "gone" =>
          Affinity(Table[cur.elem]) \in told[Tid[c][cur.elem]]

\* The inductive invariant.
IInv == TypeInv /\ (\A c \in Clients : ProtocolOf(c)) /\ ToldInv

-----------------------------------------------------------------------------
(* A request is read as it was written *)

\* The elements of a concatenation.
LEMMA Appended ==
    ASSUME NEW s \in Seq(Int), NEW p \in Seq(Int)
    PROVE  /\ s \o p \in Seq(Int) /\ Len(s \o p) = Len(s) + Len(p) /\ Len(s) \in Nat
           /\ \A i \in 1 .. Len(s) : (s \o p)[i] = s[i]
           /\ \A i \in 1 .. Len(p) : (s \o p)[Len(s) + i] = p[i]
  OBVIOUS

\* A long takes four bytes.
LEMMA Packed32 == ASSUME NEW i \in Int PROVE pack_32(i) \in Seq(Int) /\ Len(pack_32(i)) = 4
  <1>1. /\ (i \div (Radix2 * Radix)) % Radix \in Int /\ (i \div Radix2) % Radix \in Int
        /\ (i \div Radix) % Radix \in Int /\ i % Radix \in Int
    BY Radixes, Divided
  <1> QED BY <1>1 DEF pack_32

\* The format of a request is "cLLLL".
LEMMA FormatLetters ==
    Len(Format) = 5 /\ Format[1] = "c" /\ \A k \in 2 .. 5 : Format[k] = "L"
  BY DEF Format

\* The bytes of a message of this format.
LEMMA MessageBytes ==
    ASSUME NEW args \in [1 .. 5 -> Int]
    PROVE  LET buf == baa_pack(Format, args)
           IN  /\ buf[1] = args[1] % Radix
               /\ \A j \in 1 .. 4 :
                     /\ buf[1 + j] = pack_32(args[2])[j] /\ buf[5 + j] = pack_32(args[3])[j]
                     /\ buf[9 + j] = pack_32(args[4])[j] /\ buf[13 + j] = pack_32(args[5])[j]
  <1> DEFINE p1 == pack_8(args[1])
             p2 == pack_32(args[2])
             p3 == pack_32(args[3])
             p4 == pack_32(args[4])
             p5 == pack_32(args[5])
             m1 == <<>> \o p1
             m2 == m1 \o p2
             m3 == m2 \o p3
             m4 == m3 \o p4
             m5 == m4 \o p5
             Rec(g) == g = [k \in 0 .. Len(Format) |->
                               IF k = 0 THEN <<>> ELSE g[k - 1] \o Packed(Format[k], args[k])]
             closed == [k \in 0 .. 5 |-> CASE k = 0 -> <<>> [] k = 1 -> m1 [] k = 2 -> m2
                                           [] k = 3 -> m3 [] k = 4 -> m4 [] k = 5 -> m5]
             msg == CHOOSE g : Rec(g)
  <1>1. baa_pack(Format, args) = msg[5]
    BY FormatLetters DEF baa_pack
  <1>2. /\ Packed(Format[1], args[1]) = p1 /\ Packed(Format[2], args[2]) = p2
        /\ Packed(Format[3], args[3]) = p3 /\ Packed(Format[4], args[4]) = p4
        /\ Packed(Format[5], args[5]) = p5
    BY FormatLetters DEF Packed
  <1>3. p1 \in Seq(Int) /\ p1[1] = args[1] % Radix
    BY Radixes, Divided DEF pack_8
  <1>4. p2 \in Seq(Int) /\ p3 \in Seq(Int) /\ p4 \in Seq(Int) /\ p5 \in Seq(Int)
    BY Packed32
  <1>5. Len(p1) = 1 /\ Len(p2) = 4 /\ Len(p3) = 4 /\ Len(p4) = 4 /\ Len(p5) = 4
    BY Packed32 DEF pack_8
  <1> HIDE DEF p1, p2, p3, p4, p5
  <1>6. Rec(closed)
    <2>1. /\ m1 = <<>> \o p1 /\ m2 = m1 \o p2 /\ m3 = m2 \o p3
          /\ m4 = m3 \o p4 /\ m5 = m4 \o p5
      OBVIOUS
    <2> HIDE DEF m1, m2, m3, m4, m5
    <2>2. /\ closed[0] = <<>> /\ closed[1] = m1 /\ closed[2] = m2 /\ closed[3] = m3
          /\ closed[4] = m4 /\ closed[5] = m5 /\ closed = [k \in 0 .. 5 |-> closed[k]]
      OBVIOUS
    <2> HIDE DEF closed
    <2>3. ASSUME NEW k \in 0 .. 5
          PROVE  closed[k] = IF k = 0 THEN <<>> ELSE closed[k - 1] \o Packed(Format[k], args[k])
      <3>1. CASE k = 0
        BY <2>2, <3>1
      <3>2. CASE k = 1
        <4>1. k # 0 /\ k - 1 = 0
          BY <3>2
        <4> QED BY <1>2, <2>1, <2>2, <3>2, <4>1, Zenon
      <3>3. CASE k = 2
        <4>1. k # 0 /\ k - 1 = 1
          BY <3>3
        <4> QED BY <1>2, <2>1, <2>2, <3>3, <4>1, Zenon
      <3>4. CASE k = 3
        <4>1. k # 0 /\ k - 1 = 2
          BY <3>4
        <4> QED BY <1>2, <2>1, <2>2, <3>4, <4>1, Zenon
      <3>5. CASE k = 4
        <4>1. k # 0 /\ k - 1 = 3
          BY <3>5
        <4> QED BY <1>2, <2>1, <2>2, <3>5, <4>1, Zenon
      <3>6. CASE k = 5
        <4>1. k # 0 /\ k - 1 = 4
          BY <3>6
        <4> QED BY <1>2, <2>1, <2>2, <3>6, <4>1, Zenon
      <3> QED BY <3>1, <3>2, <3>3, <3>4, <3>5, <3>6
    <2> QED BY <2>2, <2>3, FormatLetters
  <1>7. Rec(msg)
    <2> HIDE DEF Rec
    <2> QED BY <1>6
  <1> HIDE DEF msg
  <1>8. msg[5] = m5
    <2>1. ASSUME NEW k \in 0 .. 5
          PROVE  msg[k] = IF k = 0 THEN <<>> ELSE msg[k - 1] \o Packed(Format[k], args[k])
      BY <1>7, FormatLetters
    <2>a. /\ 0 \in 0 .. 5 /\ 1 \in 0 .. 5 /\ 2 \in 0 .. 5 /\ 3 \in 0 .. 5 /\ 4 \in 0 .. 5 /\ 5 \in 0 .. 5
          /\ 1 - 1 = 0 /\ 2 - 1 = 1 /\ 3 - 1 = 2 /\ 4 - 1 = 3 /\ 5 - 1 = 4
          /\ 1 # 0 /\ 2 # 0 /\ 3 # 0 /\ 4 # 0 /\ 5 # 0
      OBVIOUS
    <2>2. /\ msg[0] = <<>> /\ msg[1] = msg[0] \o Packed(Format[1], args[1])
          /\ msg[2] = msg[1] \o Packed(Format[2], args[2])
          /\ msg[3] = msg[2] \o Packed(Format[3], args[3])
          /\ msg[4] = msg[3] \o Packed(Format[4], args[4])
          /\ msg[5] = msg[4] \o Packed(Format[5], args[5])
      BY <2>1, <2>a, Zenon
    <2> QED BY <1>2, <2>2, Zenon
  <1>9. m1 = p1
    BY <1>3
  <1> DEFINE Glued(s, p, t) == /\ t \in Seq(Int) /\ Len(t) = Len(s) + Len(p)
                               /\ \A i \in 1 .. Len(s) : t[i] = s[i]
                               /\ \A i \in 1 .. Len(p) : t[Len(s) + i] = p[i]
  <1> HIDE DEF m1, closed
  <1>10. Glued(m1, p2, m2)
    BY <1>3, <1>4, <1>9, Appended
  <1> HIDE DEF m2
  <1>11. Glued(m2, p3, m3)
    BY <1>4, <1>10, Appended
  <1> HIDE DEF m3
  <1>12. Glued(m3, p4, m4)
    BY <1>4, <1>11, Appended
  <1> HIDE DEF m4
  <1>13. Glued(m4, p5, m5)
    BY <1>4, <1>12, Appended
  <1> HIDE DEF m5
  <1>14. Len(m1) = 1 /\ Len(m2) = 5 /\ Len(m3) = 9 /\ Len(m4) = 13
    BY <1>5, <1>9, <1>10, <1>11, <1>12
  <1>15. m2[1] = p1[1] /\ \A j \in 1 .. 4 : m2[1 + j] = p2[j]
    <2>1. m2[1] = m1[1] /\ \A j \in 1 .. 4 : m2[1 + j] = p2[j]
      BY <1>5, <1>10, <1>14
    <2> QED BY <1>9, <2>1, Zenon
  <1>16. (\A j \in 1 .. 5 : m3[j] = m2[j]) /\ \A j \in 1 .. 4 : m3[5 + j] = p3[j]
    BY <1>5, <1>11, <1>14
  <1>17. (\A j \in 1 .. 9 : m4[j] = m3[j]) /\ \A j \in 1 .. 4 : m4[9 + j] = p4[j]
    BY <1>5, <1>12, <1>14
  <1>18. (\A j \in 1 .. 13 : m5[j] = m4[j]) /\ \A j \in 1 .. 4 : m5[13 + j] = p5[j]
    BY <1>5, <1>13, <1>14
  <1>19. ASSUME NEW j \in 1 .. 4
         PROVE  m5[1 + j] = p2[j] /\ m5[5 + j] = p3[j] /\ m5[9 + j] = p4[j] /\ m5[13 + j] = p5[j]
    <2>1. /\ 1 + j \in 1 .. 5 /\ 1 + j \in 1 .. 9 /\ 1 + j \in 1 .. 13
          /\ 5 + j \in 1 .. 9 /\ 5 + j \in 1 .. 13 /\ 9 + j \in 1 .. 13
      OBVIOUS
    <2>2. m5[1 + j] = m4[1 + j] /\ m4[1 + j] = m3[1 + j] /\ m3[1 + j] = m2[1 + j]
      BY <1>16, <1>17, <1>18, <2>1, Zenon
    <2>3. m5[5 + j] = m4[5 + j] /\ m4[5 + j] = m3[5 + j] /\ m5[9 + j] = m4[9 + j]
      BY <1>17, <1>18, <2>1, Zenon
    <2> QED BY <1>15, <1>16, <1>17, <1>18, <2>2, <2>3, Zenon
  <1>20. m5[1] = p1[1]
    BY <1>15, <1>16, <1>17, <1>18
  <1> QED BY <1>1, <1>3, <1>8, <1>19, <1>20 DEF p2, p3, p4, p5

\* Each field is read as it was written.
LEMMA FieldsRead ==
    ASSUME NEW args \in [1 .. 5 -> Int], args[1] = 0,
           \A k \in 2 .. 5 : args[k] \in Fitting("L")
    PROVE  LET buf == baa_pack(Format, args)
           IN  /\ buf[1] = 0
               /\ Unpacked("c", SubSeq(buf, 1, 1)) = args[1]
               /\ Unpacked("L", SubSeq(buf, 2, 5)) = args[2]
               /\ Unpacked("L", SubSeq(buf, 6, 9)) = args[3]
               /\ Unpacked("L", SubSeq(buf, 10, 13)) = args[4]
               /\ Unpacked("L", SubSeq(buf, 14, 17)) = args[5]
  <1> DEFINE buf == baa_pack(Format, args)
  <1>1. /\ buf[1] = args[1] % Radix
        /\ \A j \in 1 .. 4 :
              /\ buf[1 + j] = pack_32(args[2])[j] /\ buf[5 + j] = pack_32(args[3])[j]
              /\ buf[9 + j] = pack_32(args[4])[j] /\ buf[13 + j] = pack_32(args[5])[j]
    BY MessageBytes
  <1> HIDE DEF buf
  <1>2. buf[1] = 0
    BY <1>1, Radixes
  <1>3. ASSUME NEW i \in Fitting("L"), NEW o \in Nat,
               \A j \in 1 .. 4 : buf[o + j] = pack_32(i)[j]
        PROVE  Unpacked("L", SubSeq(buf, o + 1, o + 4)) = i
    <2> DEFINE b == SubSeq(buf, o + 1, o + 4)
    <2>1. \A j \in 1 .. 4 : b[j] = pack_32(i)[j]
      BY <1>3 
    <2> HIDE DEF b
    <2>2. Unpacked("L", b) = Unpacked("L", pack_32(i))
      BY <2>1 DEF Unpacked, unpack_i32, unpack_32
    <2>3. i + 0 * Values("L") = i
      BY Radixes DEF Fitting, Values
    <2>4. Unpacked("L", Packed("L", i + 0 * Values("L"))) = i
      BY PackThenUnpack DEF RoundTrip, Letters
    <2>5. Packed("L", i) = pack_32(i)
      BY DEF Packed
    <2> QED BY <2>2, <2>3, <2>4, <2>5 DEF b
  <1>4. Unpacked("c", SubSeq(buf, 1, 1)) = 0
    BY <1>2 DEF Unpacked
  <1>5. /\ Unpacked("L", SubSeq(buf, 1 + 1, 1 + 4)) = args[2]
        /\ Unpacked("L", SubSeq(buf, 5 + 1, 5 + 4)) = args[3]
        /\ Unpacked("L", SubSeq(buf, 9 + 1, 9 + 4)) = args[4]
        /\ Unpacked("L", SubSeq(buf, 13 + 1, 13 + 4)) = args[5]
    <2>1. \A k \in {2, 3, 4, 5} : args[k] \in Fitting("L")
      OBVIOUS
    <2>2. 1 \in Nat /\ 5 \in Nat /\ 9 \in Nat /\ 13 \in Nat
      OBVIOUS
    <2> QED BY <1>1, <1>3, <2>1, <2>2, Zenon
  <1> QED BY <1>2, <1>4, <1>5 DEF buf

\* Where the fields of a message begin.
LEMMA Offsets ==
    /\ Offset(Format, 1) = 0 /\ Offset(Format, 2) = 1 /\ Offset(Format, 3) = 5
    /\ Offset(Format, 4) = 9 /\ Offset(Format, 5) = 13
  <1> DEFINE Rec(g) == g = [n \in 0 .. Len(Format) |->
                               IF n = 0 THEN 0 ELSE g[n - 1] + Size(Format[n])]
             closed == [n \in 0 .. 5 |-> IF n = 0 THEN 0 ELSE 4 * n - 3]
             off == CHOOSE g : Rec(g)
  <1>1. Size("c") = 1 /\ Size("L") = 4
    BY DEF Size
  <1>2. Rec(closed)
    <2>1. ASSUME NEW n \in 0 .. 5
          PROVE  closed[n] = IF n = 0 THEN 0 ELSE closed[n - 1] + Size(Format[n])
      BY <1>1, FormatLetters
    <2> QED BY <2>1, FormatLetters
  <1>3. Rec(off)
    <2> HIDE DEF Rec
    <2> QED BY <1>2
  <1>4. \A k \in 1 .. 5 : Offset(Format, k) = off[k - 1]
    BY DEF Offset
  <1> HIDE DEF off
  <1>5. \A n \in 0 .. 5 : off[n] = IF n = 0 THEN 0 ELSE off[n - 1] + Size(Format[n])
    BY <1>3, FormatLetters
  <1>6. off[0] = 0 /\ off[1] = 1 /\ off[2] = 5 /\ off[3] = 9 /\ off[4] = 13
    BY <1>1, <1>5, FormatLetters
  <1> QED BY <1>4, <1>6

\* The words of fiber_element.
Memory == [0 .. 18 -> Int]

\* A store through a pointer to long sets its word, and disturbs at most the
\* next one.
Stored(old, new, word, i) ==
    /\ new \in Memory /\ new[word] = i
    /\ \A w \in 0 .. 18 : w # word /\ w # word + 1 => new[w] = old[w]

\* The turn of baa_unpack for 'L' is such a store, on either width of long.
LEMMA StoreLong ==
    ASSUME NEW mem \in Memory, NEW word \in 0 .. 17, NEW i \in Fitting("L"), NEW lp64 \in BOOLEAN
    PROVE  Stored(mem, Store(mem, "L", word, i, lp64), word, i)
  <1>0. i \in -(Radix4 \div 2) .. Radix4 \div 2 - 1
    BY DEF Fitting, Values
  <1>1. Signed((i + 0 * Radix4) % Radix4, Radix4 - 1) = i /\ i \in Int
    <2>1. 0 \in Int /\ i \in Int
      BY <1>0, Radixes
    <2> QED BY <1>0, <2>1, Radixes, SignedLow, Zenon
  <1>2. i + 0 * Radix4 = i
    BY <1>1, Radixes
  <1>3. Signed(i % Radix4, Radix4 - 1) = i
    BY <1>1, <1>2
  <1>4. CASE lp64
    BY <1>1, <1>3, <1>4 DEF Store, Memory, Stored
  <1>5. CASE ~lp64
    BY <1>1, <1>5 DEF Store, Memory, Stored
  <1> QED BY <1>4, <1>5

\* The fields of fiber_element the server finds in a message.
LEMMA FiberElementRead ==
    ASSUME NEW args \in [1 .. 5 -> Int], args[1] = 0,
           \A k \in 2 .. 5 : args[k] \in Fitting("L"), NEW lp64 \in BOOLEAN
    PROVE  FiberElement(baa_pack(Format, args), lp64) =
               [tid |-> args[2], props |-> [policy |-> args[3], cpu |-> args[4], prio |-> args[5]]]
  <1> DEFINE buf == baa_pack(Format, args)
             lay == Layout(lp64)
             addr == Targets(lay)
             Field(k) == Unpacked(Format[k],
                             SubSeq(buf, Offset(Format, k) + 1, Offset(Format, k) + Size(Format[k])))
             a1 == Store(Zeroed, "c", lay.protocol_type, 0, lp64)
             a2 == Store(a1, "L", lay.kernel_tid, args[2], lp64)
             a3 == Store(a2, "L", lay.policy, args[3], lp64)
             a4 == Store(a3, "L", lay.cpu, args[4], lp64)
             a5 == Store(a4, "L", lay.prio, args[5], lp64)
             Rec(g) == g = [k \in 0 .. Len(Format) |->
                 IF k = 0 THEN Zeroed
                 ELSE LET o == Offset(Format, k)
                          b == SubSeq(buf, o + 1, o + Size(Format[k]))
                      IN  Store(g[k - 1], Format[k], addr[k], Unpacked(Format[k], b), lp64)]
             closed == [k \in 0 .. 5 |-> CASE k = 0 -> Zeroed [] k = 1 -> a1 [] k = 2 -> a2
                                           [] k = 3 -> a3 [] k = 4 -> a4 [] k = 5 -> a5]
             after == CHOOSE g : Rec(g)
  <1>1. baa_unpack(Zeroed, buf, Format, addr, lp64) = after[5]
    BY FormatLetters DEF baa_unpack
  <1>2. /\ Field(1) = 0 /\ Field(2) = args[2] /\ Field(3) = args[3]
        /\ Field(4) = args[4] /\ Field(5) = args[5]
    <2>1. Size("c") = 1 /\ Size("L") = 4
      BY DEF Size
    <2>2. /\ Unpacked("c", SubSeq(buf, 1, 1)) = args[1]
          /\ Unpacked("L", SubSeq(buf, 2, 5)) = args[2]
          /\ Unpacked("L", SubSeq(buf, 6, 9)) = args[3]
          /\ Unpacked("L", SubSeq(buf, 10, 13)) = args[4]
          /\ Unpacked("L", SubSeq(buf, 14, 17)) = args[5]
      BY FieldsRead
    <2> HIDE DEF buf
    <2> QED BY <2>1, <2>2, FormatLetters, Offsets
  <1>3. /\ addr[1] = lay.protocol_type /\ addr[2] = lay.kernel_tid /\ addr[3] = lay.policy
        /\ addr[4] = lay.cpu /\ addr[5] = lay.prio
    BY DEF Targets
  <1> HIDE DEF lay, addr, buf
  <1>l. /\ Format[1] = "c" /\ Format[2] = "L" /\ Format[3] = "L"
        /\ Format[4] = "L" /\ Format[5] = "L"
    BY FormatLetters
  <1>4. Rec(closed)
    <2>1. /\ a1 = Store(Zeroed, "c", lay.protocol_type, 0, lp64)
          /\ a2 = Store(a1, "L", lay.kernel_tid, args[2], lp64)
          /\ a3 = Store(a2, "L", lay.policy, args[3], lp64)
          /\ a4 = Store(a3, "L", lay.cpu, args[4], lp64)
          /\ a5 = Store(a4, "L", lay.prio, args[5], lp64)
      OBVIOUS
    <2> HIDE DEF a1, a2, a3, a4, a5
    <2>2. /\ closed[0] = Zeroed /\ closed[1] = a1 /\ closed[2] = a2 /\ closed[3] = a3
          /\ closed[4] = a4 /\ closed[5] = a5 /\ closed = [k \in 0 .. 5 |-> closed[k]]
      OBVIOUS
    <2> HIDE DEF closed
    <2>3. ASSUME NEW k \in 0 .. 5
          PROVE  closed[k] = IF k = 0 THEN Zeroed
                             ELSE Store(closed[k - 1], Format[k], addr[k], Field(k), lp64)
      <3>1. CASE k = 0
        BY <2>2, <3>1
      <3>2. CASE k = 1
        <4>1. k # 0 /\ k - 1 = 0
          BY <3>2
        <4> QED BY <1>2, <1>3, <2>1, <2>2, <3>2, <4>1, <1>l, Zenon
      <3>3. CASE k = 2
        <4>1. k # 0 /\ k - 1 = 1
          BY <3>3
        <4> QED BY <1>2, <1>3, <2>1, <2>2, <3>3, <4>1, <1>l, Zenon
      <3>4. CASE k = 3
        <4>1. k # 0 /\ k - 1 = 2
          BY <3>4
        <4> QED BY <1>2, <1>3, <2>1, <2>2, <3>4, <4>1, <1>l, Zenon
      <3>5. CASE k = 4
        <4>1. k # 0 /\ k - 1 = 3
          BY <3>5
        <4> QED BY <1>2, <1>3, <2>1, <2>2, <3>5, <4>1, <1>l, Zenon
      <3>6. CASE k = 5
        <4>1. k # 0 /\ k - 1 = 4
          BY <3>6
        <4> QED BY <1>2, <1>3, <2>1, <2>2, <3>6, <4>1, <1>l, Zenon
      <3> QED BY <3>1, <3>2, <3>3, <3>4, <3>5, <3>6
    <2> QED BY <2>2, <2>3, FormatLetters
  <1>5. Rec(after)
    <2> HIDE DEF Rec
    <2> QED BY <1>4
  <1> HIDE DEF after
  <1>6. after[5] = a5
    <2>1. ASSUME NEW k \in 0 .. 5
          PROVE  after[k] = IF k = 0 THEN Zeroed
                            ELSE Store(after[k - 1], Format[k], addr[k], Field(k), lp64)
      BY <1>5, FormatLetters
    <2>2. /\ 0 \in 0 .. 5 /\ 1 \in 0 .. 5 /\ 2 \in 0 .. 5 /\ 3 \in 0 .. 5 /\ 4 \in 0 .. 5 /\ 5 \in 0 .. 5
          /\ 1 - 1 = 0 /\ 2 - 1 = 1 /\ 3 - 1 = 2 /\ 4 - 1 = 3 /\ 5 - 1 = 4
          /\ 1 # 0 /\ 2 # 0 /\ 3 # 0 /\ 4 # 0 /\ 5 # 0
      OBVIOUS
    <2>3. /\ after[0] = Zeroed
          /\ after[1] = Store(after[0], Format[1], addr[1], Field(1), lp64)
          /\ after[2] = Store(after[1], Format[2], addr[2], Field(2), lp64)
          /\ after[3] = Store(after[2], Format[3], addr[3], Field(3), lp64)
          /\ after[4] = Store(after[3], Format[4], addr[4], Field(4), lp64)
          /\ after[5] = Store(after[4], Format[5], addr[5], Field(5), lp64)
      <3> HIDE DEF Field
      <3> QED BY <2>1, <2>2, Zenon
    <2> QED BY <1>2, <1>3, <1>l, <2>3, Zenon
  <1>7. a1 \in Memory
    BY DEF lay, Layout, Store, Zeroed, Memory
  <1>8. /\ lay.kernel_tid \in 0 .. 17 /\ lay.policy \in 0 .. 17 /\ lay.cpu \in 0 .. 17 /\ lay.prio \in 0 .. 17
        /\ lay.policy \notin {lay.kernel_tid, lay.kernel_tid + 1}
        /\ lay.kernel_tid \notin {lay.policy + 1, lay.cpu, lay.cpu + 1, lay.prio, lay.prio + 1}
        /\ lay.policy \notin {lay.cpu, lay.cpu + 1, lay.prio, lay.prio + 1}
        /\ lay.cpu \notin {lay.prio, lay.prio + 1}
    BY DEF lay, Layout
  <1>9. \A k \in {2, 3, 4, 5} : args[k] \in Fitting("L")
    OBVIOUS
  <1> HIDE DEF a1
  <1>10. Stored(a1, a2, lay.kernel_tid, args[2])
    BY <1>7, <1>8, <1>9, StoreLong, Zenon
  <1>10m. a2 \in Memory
    BY <1>10 DEF Stored
  <1> HIDE DEF a2
  <1>11. Stored(a2, a3, lay.policy, args[3])
    BY <1>10m, <1>8, <1>9, StoreLong, Zenon
  <1>11m. a3 \in Memory
    BY <1>11 DEF Stored
  <1> HIDE DEF a3
  <1>12. Stored(a3, a4, lay.cpu, args[4])
    BY <1>11m, <1>8, <1>9, StoreLong, Zenon
  <1>12m. a4 \in Memory
    BY <1>12 DEF Stored
  <1> HIDE DEF a4
  <1>13. Stored(a4, a5, lay.prio, args[5])
    BY <1>12m, <1>8, <1>9, StoreLong, Zenon
  <1> HIDE DEF a5
  <1>14. /\ a5[lay.kernel_tid] = args[2] /\ a5[lay.policy] = args[3]
         /\ a5[lay.cpu] = args[4] /\ a5[lay.prio] = args[5]
    BY <1>8, <1>10, <1>11, <1>12, <1>13 DEF Stored
  <1> QED BY <1>1, <1>6, <1>14 DEF FiberElement, buf, addr, lay

\* The server finds the id and the properties a client has sent.
LEMMA RequestRead ==
    ASSUME NEW c \in Clients, NEW e \in Elements, NEW tid \in Ints, NEW lp64 \in BOOLEAN
    PROVE  FiberElement(Request(c, e, tid).buf, lp64) = [tid |-> tid, props |-> Table[e]]
  <1> DEFINE args == <<PTYPE_SCHED_PROPS, tid, Table[e].policy, Table[e].cpu, Table[e].prio>>
  <1>1. Table[e] \in [policy : Ints, cpu : Ints, prio : Ints]
    BY TableAssumption DEF Ints
  <1>2. Ints \subseteq Int
    BY Radixes DEF Ints, Fitting, Values
  <1>3. args \in [1 .. 5 -> Int] /\ args[1] = 0 /\ \A k \in 2 .. 5 : args[k] \in Fitting("L")
    BY <1>1, <1>2 DEF PTYPE_SCHED_PROPS, Ints
  <1>4. Table[e] = [policy |-> args[3], cpu |-> args[4], prio |-> args[5]] /\ tid = args[2]
    BY <1>1
  <1>5. Request(c, e, tid).buf = baa_pack(Format, args)
    BY DEF Request
  <1> HIDE DEF args
  <1> QED BY <1>3, <1>4, <1>5, FiberElementRead

-----------------------------------------------------------------------------
(* Operators of the model *)

\* A request says whose it is.
LEMMA RequestFields ==
    ASSUME NEW c, NEW e, NEW tid
    PROVE  Request(c, e, tid).client = c /\ Request(c, e, tid).elem = e
  BY DEF Request

\* Ids are ints, as the fields of the table are.
LEMMA TidsReadInts ==
    ASSUME NEW c \in Clients, NEW e \in Elements
    PROVE  TidsRead(c, e) \subseteq Ints /\ 0 \in Ints
  <1>1. 0 \in Ints
    BY Radixes DEF Ints, Fitting, Values
  <1> QED BY <1>1, TidAssumption DEF TidsRead, Ints

\* A table, its elements and the ids of its threads.
LEMMA Constants ==
    /\ Count \in Nat \ {0} /\ Elements = 1 .. Count
    /\ \A e \in Elements : Table[e] \in Props
    /\ \A c \in Clients, e \in Elements : Tid[c][e] \in Tids /\ Tid[c][e] # 0
    /\ \A c, d \in Clients, e, f \in Elements : Tid[c][e] = Tid[d][f] => c = d /\ e = f
  BY CountAssumption, TableAssumption, TidAssumption DEF Elements, Props, Ints, Tids

\* The message of a waiting request is taken from a queue.
LEMMA QueueTail ==
    ASSUME NEW S, NEW q \in Seq(S), q # <<>>
    PROVE  /\ Len(q) \in Nat \ {0} /\ Head(q) = q[1] /\ q[1] \in S
           /\ Tail(q) \in Seq(S) /\ Len(Tail(q)) = Len(q) - 1
           /\ \A j \in 1 .. Len(q) - 1 : Tail(q)[j] = q[j + 1]
  OBVIOUS

\* The elements of a queue after a datagram has arrived.
LEMMA QueueAppend ==
    ASSUME NEW S, NEW q \in Seq(S), NEW m \in S
    PROVE  /\ Append(q, m) \in Seq(S) /\ Len(Append(q, m)) = Len(q) + 1
           /\ Len(q) \in Nat
           /\ \A j \in 1 .. Len(q) : Append(q, m)[j] = q[j]
           /\ Append(q, m)[Len(q) + 1] = m
  OBVIOUS

\* The answers are read in the order they were sent in.
LEMMA Answers ==
    /\ RcvAck # <<>> /\ CmdAck # <<>> /\ BothAck # <<>>
    /\ RcvAck # CmdAck /\ RcvAck # BothAck /\ CmdAck # BothAck
    /\ Head(RcvAck) = "PTYPE_RCV_ACK" /\ Tail(RcvAck) = <<>>
    /\ Head(CmdAck) = "PTYPE_CMD_ACK" /\ Tail(CmdAck) = <<>>
    /\ Head(BothAck) = "PTYPE_RCV_ACK" /\ Tail(BothAck) = CmdAck
    /\ Append(<<>>, "PTYPE_RCV_ACK") = RcvAck /\ Append(<<>>, "PTYPE_CMD_ACK") = CmdAck
    /\ Append(RcvAck, "PTYPE_CMD_ACK") = BothAck
    /\ Len(<<>>) = 0 /\ Len(RcvAck) = 1 /\ Len(CmdAck) = 1 /\ Len(BothAck) = 2
  <1>1. /\ RcvAck # <<>> /\ CmdAck # <<>> /\ BothAck # <<>>
        /\ Len(<<>>) = 0 /\ Len(RcvAck) = 1 /\ Len(CmdAck) = 1 /\ Len(BothAck) = 2
        /\ RcvAck[1] = "PTYPE_RCV_ACK" /\ CmdAck[1] = "PTYPE_CMD_ACK"
    BY DEF RcvAck, CmdAck, BothAck
  <1>2. /\ Head(RcvAck) = "PTYPE_RCV_ACK" /\ Tail(RcvAck) = <<>>
        /\ Head(CmdAck) = "PTYPE_CMD_ACK" /\ Tail(CmdAck) = <<>>
        /\ Head(BothAck) = "PTYPE_RCV_ACK" /\ Tail(BothAck) = CmdAck
    BY DEF RcvAck, CmdAck, BothAck
  <1>3. Append(<<>>, "PTYPE_RCV_ACK") = RcvAck /\ Append(<<>>, "PTYPE_CMD_ACK") = CmdAck
    BY DEF RcvAck, CmdAck
  <1>4. Append(RcvAck, "PTYPE_CMD_ACK") = BothAck
    <2>1. RcvAck \in Seq(PTypes) /\ BothAck \in Seq(PTypes) /\ "PTYPE_CMD_ACK" \in PTypes
      BY DEF RcvAck, BothAck, PTypes
    <2>2. BothAck[1] = RcvAck[1] /\ BothAck[2] = "PTYPE_CMD_ACK"
      BY DEF RcvAck, BothAck
    <2> DEFINE A == Append(RcvAck, "PTYPE_CMD_ACK")
    <2> HIDE DEF RcvAck, BothAck
    <2>3. A \in Seq(PTypes) /\ Len(A) = Len(RcvAck) + 1 /\ Len(RcvAck) \in Nat
          /\ (\A j \in 1 .. Len(RcvAck) : A[j] = RcvAck[j]) /\ A[Len(RcvAck) + 1] = "PTYPE_CMD_ACK"
      BY <2>1, QueueAppend
    <2> HIDE DEF A
    <2>4. Len(A) = Len(BothAck) /\ \A j \in 1 .. Len(A) : A[j] = BothAck[j]
      BY <1>1, <2>2, <2>3
    <2>5. A = BothAck
      BY <2>1, <2>3, <2>4, SeqEqual
    <2> QED BY <2>5 DEF A
  <1>5. RcvAck # CmdAck /\ RcvAck # BothAck /\ CmdAck # BothAck
    <2> HIDE DEF RcvAck, CmdAck, BothAck
    <2> QED BY <1>1
  <1> QED BY <1>1, <1>2, <1>3, <1>4, <1>5

-----------------------------------------------------------------------------
(* What a step leaves alone *)

Same(c) ==
    /\ cpc'[c] = cpc[c] /\ ci'[c] = ci[c] /\ ackq'[c] = ackq[c]
    /\ applied'[c] = applied[c] /\ (c \in finished' <=> c \in finished)

\* A client is as it was, and the server does not see it.
LEMMA FrameIdle ==
    ASSUME NEW c \in Clients, ProtocolOf(c), Same(c), UNCHANGED <<squeue, timely>>,
           ~Works(c), ~Works(c)'
    PROVE  ProtocolOf(c)'
  <1>1. QueueOf(c)'
    BY DEF ProtocolOf, QueueOf, QueuedAt, Same, TidsRead
  <1>2. WorkOf(c)' /\ ClientOf(c)'
    BY DEF ProtocolOf, WorkOf, ClientOf, Same
  <1> QED BY <1>1, <1>2 DEF ProtocolOf

\* A client is as it was, and so is the server.
LEMMA Frame ==
    ASSUME NEW c \in Clients, ProtocolOf(c), Same(c), UNCHANGED <<squeue, srv, cur, timely>>
    PROVE  ProtocolOf(c)'
  <1>1. Works(c)' <=> Works(c)
    BY DEF Works
  <1>2. QueueOf(c)'
    BY <1>1 DEF ProtocolOf, QueueOf, QueuedAt, Same, TidsRead
  <1>3. WorkOf(c)'
    BY <1>1 DEF ProtocolOf, WorkOf, Same, TidsRead
  <1>4. ClientOf(c)'
    BY <1>1 DEF ProtocolOf, ClientOf, Same
  <1> QED BY <1>2, <1>3, <1>4 DEF ProtocolOf

\* A client that is about to send has nothing under way.
LEMMA NothingUnderWay ==
    ASSUME NEW c \in Clients, ProtocolOf(c), cpc[c] \in {"idle", "send", "ok"}
    PROVE  /\ ~Works(c) /\ ackq[c] = <<>> /\ applied[c] = 1 .. ci[c] - 1
           /\ \A j \in 1 .. Len(squeue) : squeue[j].client # c
  BY DEF ProtocolOf, QueueOf, QueuedAt, WorkOf, ClientOf, Waiting

-----------------------------------------------------------------------------
(* The steps keep the invariant *)

\* The invariant holds before any call.
LEMMA InitInv == Init => IInv
  <1> SUFFICES ASSUME Init PROVE IInv
    OBVIOUS
  <1> USE Constants DEF Init
  <1>1. TypeInv
    BY BoundAssumption, QLenAssumption DEF TypeInv, TypeOK, PTypes
  <1>2. ASSUME NEW c \in Clients PROVE ProtocolOf(c)
    <2>1. QueueOf(c) /\ WorkOf(c)
      BY DEF QueueOf, WorkOf, Works, Working
    <2>2. ClientOf(c)
      BY Answers DEF ClientOf
    <2> QED BY <2>1, <2>2 DEF ProtocolOf
  <1>4. ToldInv
    BY DEF ToldInv
  <1> QED BY <1>1, <1>2, <1>4 DEF IInv

\* A client that has not called yet has nothing under way.
LEMMA CallStep ==
    ASSUME IInv, MaxCalls <= 1, NEW c \in Clients, Client_Call(c)
    PROVE  IInv'
  <1>1. cpc[c] = "idle" /\ ci[c] = 1
    <2>1. calls[c] \in 0 .. MaxCalls /\ calls[c] < MaxCalls
      BY DEF Client_Call, IInv, TypeInv, TypeOK
    <2>2. calls[c] = 0
      BY <2>1, BoundAssumption
    <2>3. cpc[c] = "idle"
      BY <2>2 DEF Client_Call, IInv, TypeInv
    <2> QED BY <2>3 DEF IInv, ProtocolOf, ClientOf
  <1>2. TypeInv'
    BY <1>1, Constants, BoundAssumption DEF Client_Call, IInv, TypeInv, TypeOK, svars, kvars
  <1>3. ASSUME NEW d \in Clients PROVE ProtocolOf(d)'
    <2>1. ProtocolOf(d) /\ UNCHANGED <<squeue, srv, cur, timely>>
      BY DEF IInv, Client_Call, svars
    <2>2. CASE d # c
      <3>1. Same(d)
        BY <2>2 DEF Client_Call, Same, kvars, IInv, TypeInv, TypeOK
      <3> QED BY <2>1, <3>1, Frame
    <2>3. CASE d = c
      <3>1. /\ cpc'[c] = "send" /\ ci'[c] = ci[c] /\ ackq' = ackq /\ applied' = applied
            /\ finished' = finished
        BY <1>1 DEF Client_Call, kvars, IInv, TypeInv, TypeOK
      <3>2. /\ ~Works(c)' /\ ackq[c] = <<>> /\ applied[c] = 1 .. ci[c] - 1
            /\ \A j \in 1 .. Len(squeue) : squeue[j].client # c
        BY <1>1, <2>1, <2>3, NothingUnderWay DEF Works
      <3>3. QueueOf(c)' /\ WorkOf(c)'
        BY <2>1, <3>2 DEF QueueOf, WorkOf
      <3>4. ClientOf(c)'
        BY <1>1, <2>1, <2>3, <3>1, <3>2 DEF ProtocolOf, ClientOf
      <3> QED BY <2>3, <3>3, <3>4 DEF ProtocolOf
    <2> QED BY <2>2, <2>3
  <1>4. ToldInv'
    BY <1>1 DEF Client_Call, IInv, ToldInv, TypeInv, TypeOK, svars, kvars
  <1> QED BY <1>2, <1>3, <1>4 DEF IInv

\* The request is for the element the client works on.
LEMMA SendStep ==
    ASSUME IInv, NEW c \in Clients, Client_Send(c)
    PROVE  IInv'
  <1>1. /\ cpc[c] = "send" /\ ci[c] \in Elements /\ Len(squeue) < SrvQLen
        /\ squeue \in Seq(Requests)
    BY DEF Client_Send, IInv, TypeInv, TypeOK
  <1>2. PICK tid \in TidsRead(c, ci[c]) : squeue' = Append(squeue, Request(c, ci[c], tid))
    BY DEF Client_Send
  <1> DEFINE m == Request(c, ci[c], tid)
  <1>3. m \in Requests /\ m.client = c
    BY <1>1, TidsReadInts, RequestFields DEF Requests
  <1>4. /\ squeue' \in Seq(Requests) /\ Len(squeue') = Len(squeue) + 1 /\ Len(squeue) \in Nat
        /\ \A j \in 1 .. Len(squeue) : squeue'[j] = squeue[j]
        /\ squeue'[Len(squeue) + 1] = m
    BY <1>1, <1>2, <1>3, QueueAppend
  <1>5. /\ cpc' = [cpc EXCEPT ![c] = "read"]
        /\ UNCHANGED <<ci, calls, finished, ackq, srv, cur, crashes, applied, told, reused, timely>>
    BY DEF Client_Send, kvars
  <1> HIDE DEF m
  <1>6. TypeInv'
    <2>1. \A n \in 1 .. Len(squeue') : squeue'[n].client \in Clients /\ squeue'[n].elem \in Elements
      BY <1>4, RequestFields DEF Requests
    <2>2. Len(squeue') <= SrvQLen
      BY <1>1, <1>4, QLenAssumption
    <2>3. \A d \in Clients : cpc'[d] \notin {"idle", "gone"} => calls[d] > 0
      BY <1>1, <1>5 DEF IInv, TypeInv, TypeOK
    <2>4. TypeOK'
      BY <1>1, <1>5, <2>1, <2>2 DEF IInv, TypeInv, TypeOK
    <2> QED BY <1>4, <1>5, <2>3, <2>4 DEF IInv, TypeInv
  <1>7. ASSUME NEW d \in Clients PROVE ProtocolOf(d)'
    <2>1. ProtocolOf(d) /\ (Works(d)' <=> Works(d))
      BY <1>5 DEF IInv, Works
    <2>2. CASE d # c
      <3>1. Same(d)
        BY <1>5, <2>2 DEF Same, IInv, TypeInv, TypeOK
      <3>2. QueueOf(d)'
        <4> SUFFICES ASSUME NEW j \in 1 .. Len(squeue'), squeue'[j].client = d
                     PROVE  QueuedAt(d, j)'
          BY DEF QueueOf
        <4>1. j \in 1 .. Len(squeue) /\ squeue'[j] = squeue[j]
          BY <1>3, <1>4, <2>2
        <4>2. QueuedAt(d, j)
          BY <2>1, <4>1 DEF ProtocolOf, QueueOf
        <4>3. \A k \in 1 .. Len(squeue') : squeue'[k].client = d => k = j
          BY <1>3, <1>4, <2>2, <4>2 DEF QueuedAt
        <4>4. \E t \in TidsRead(d, ci[d])' : squeue'[j] = Request(d, ci'[d], t)
          BY <1>5, <3>1, <4>1, <4>2 DEF QueuedAt, Same, TidsRead
        <4> QED BY <2>1, <3>1, <4>2, <4>3, <4>4 DEF QueuedAt, Same
      <3>3. WorkOf(d)' /\ ClientOf(d)'
        BY <1>5, <2>1, <3>1 DEF ProtocolOf, WorkOf, ClientOf, Same, TidsRead
      <3> QED BY <3>2, <3>3 DEF ProtocolOf
    <2>3. CASE d = c
      <3>1. /\ ~Works(c)' /\ ackq'[c] = <<>> /\ applied'[c] = 1 .. ci'[c] - 1
            /\ \A j \in 1 .. Len(squeue) : squeue[j].client # c
        BY <1>1, <1>5, <2>1, <2>3, NothingUnderWay
      <3>2. cpc'[c] = "read" /\ c \notin finished' /\ ci'[c] \in Elements
        BY <1>1, <1>5, <2>1, <2>3 DEF ProtocolOf, ClientOf, IInv, TypeInv, TypeOK
      <3>3. QueueOf(c)'
        <4> SUFFICES ASSUME NEW j \in 1 .. Len(squeue'), squeue'[j].client = c
                     PROVE  QueuedAt(c, j)'
          BY DEF QueueOf
        <4>1. j = Len(squeue) + 1
          BY <1>4, <3>1
        <4>2. \A k \in 1 .. Len(squeue') : squeue'[k].client = c => k = j
          BY <1>4, <3>1, <4>1
        <4>3. \E t \in TidsRead(c, ci[c])' : squeue'[j] = Request(c, ci'[c], t)
          BY <1>4, <1>5, <4>1 DEF m, TidsRead
        <4> QED BY <3>1, <3>2, <4>2, <4>3 DEF QueuedAt, Waiting
      <3>4. WorkOf(c)' /\ ClientOf(c)'
        BY <3>1, <3>2, Answers DEF WorkOf, ClientOf
      <3> QED BY <2>3, <3>3, <3>4 DEF ProtocolOf
    <2> QED BY <2>2, <2>3
  <1>8. ToldInv'
    BY <1>1, <1>5 DEF IInv, ToldInv, TypeInv, TypeOK
  <1> QED BY <1>6, <1>7, <1>8 DEF IInv

\* A client that gives up leaves what is under way where it is.
LEMMA FailStep ==
    ASSUME IInv, NEW c \in Clients, Client_SendFails(c) \/ Client_Timeout(c)
    PROVE  IInv'
  <1>1. /\ cpc[c] \in {"send", "read"} /\ cpc' = [cpc EXCEPT ![c] = "fail"]
        /\ UNCHANGED <<ci, calls, finished, ackq, squeue, srv, cur, crashes, applied, told, reused, timely>>
    BY DEF Client_SendFails, Client_Timeout, svars, kvars
  <1>2. TypeInv'
    BY <1>1, Constants DEF IInv, TypeInv, TypeOK
  <1>3. ASSUME NEW d \in Clients PROVE ProtocolOf(d)'
    <2>1. ProtocolOf(d) /\ UNCHANGED <<squeue, srv, cur, timely>>
      BY <1>1 DEF IInv
    <2>2. CASE d # c
      <3>1. Same(d)
        BY <1>1, <2>2 DEF Same, IInv, TypeInv, TypeOK
      <3> QED BY <2>1, <3>1, Frame
    <2>3. CASE d = c
      <3>1. cpc'[c] = "fail" /\ (Works(c)' <=> Works(c))
        BY <1>1 DEF IInv, TypeInv, TypeOK, Works
      <3>2. QueueOf(c)'
        BY <1>1, <2>1, <2>3, <3>1 DEF ProtocolOf, QueueOf, QueuedAt, Waiting, TidsRead
      <3>3. WorkOf(c)'
        BY <1>1, <2>1, <2>3, <3>1 DEF ProtocolOf, WorkOf, Waiting, TidsRead
      <3>4. ClientOf(c)'
        BY <1>1, <2>1, <2>3, <3>1 DEF ProtocolOf, ClientOf
      <3> QED BY <2>3, <3>2, <3>3, <3>4 DEF ProtocolOf
    <2> QED BY <2>2, <2>3
  <1>4. ToldInv'
    BY <1>1 DEF IInv, ToldInv, TypeInv, TypeOK
  <1> QED BY <1>2, <1>3, <1>4 DEF IInv

\* The first answer is passed over; at the second the element is set.
LEMMA ReadStep ==
    ASSUME IInv, NEW c \in Clients, Client_Read(c)
    PROVE  IInv'
  <1>1. /\ cpc[c] = "read" /\ ackq[c] # <<>> /\ ackq' = [ackq EXCEPT ![c] = Tail(@)]
        /\ UNCHANGED <<calls, squeue, srv, cur, crashes, applied, told, reused, timely>>
    BY DEF Client_Read, svars, kvars
  <1>2. ProtocolOf(c) /\ ackq[c] \in {RcvAck, CmdAck, BothAck} /\ ackq'[c] = Tail(ackq[c])
    BY <1>1 DEF IInv, ProtocolOf, ClientOf, TypeInv, TypeOK
  <1>3. \A j \in 1 .. Len(squeue) : squeue[j].client # c
    BY <1>1, <1>2 DEF ProtocolOf, QueueOf, QueuedAt
  <1>4. CASE ackq[c] \in {RcvAck, BothAck}
    <2>1. /\ UNCHANGED <<cpc, ci, finished>>
          /\ ackq'[c] = IF ackq[c] = RcvAck THEN <<>> ELSE CmdAck
      BY <1>2, <1>4, Answers DEF Client_Read
    <2>2. TypeInv'
      <3>1. ackq' \in [Clients -> Seq(PTypes)] /\ \A d \in Clients : Len(ackq'[d]) <= CliQLen
        BY <1>1, <1>2, <2>1, Answers, QLenAssumption DEF IInv, TypeInv, TypeOK
      <3> QED BY <1>1, <2>1, <3>1 DEF IInv, TypeInv, TypeOK
    <2>3. ASSUME NEW d \in Clients PROVE ProtocolOf(d)'
      <3>1. CASE d # c
        <4>1. Same(d) /\ ProtocolOf(d)
          BY <1>1, <2>1, <3>1 DEF Same, IInv, TypeInv, TypeOK
        <4> QED BY <1>1, <4>1, Frame
      <3>2. CASE d = c
        <4>1. Works(c)' <=> Works(c)
          BY <1>1 DEF Works
        <4>2. QueueOf(c)'
          BY <1>1, <1>3 DEF QueueOf
        <4>3. WorkOf(c)'
          BY <1>1, <1>2, <2>1, <4>1, Answers DEF ProtocolOf, WorkOf, TidsRead
        <4>4. ClientOf(c)'
          BY <1>1, <1>2, <2>1, <4>1, Answers DEF ProtocolOf, ClientOf
        <4> QED BY <3>2, <4>2, <4>3, <4>4 DEF ProtocolOf
      <3> QED BY <3>1, <3>2
    <2>4. ToldInv'
      BY <1>1, <2>1 DEF IInv, ToldInv
    <2> QED BY <2>2, <2>3, <2>4 DEF IInv
  <1>5. CASE ackq[c] = CmdAck
    <2>1. NextElement(c) /\ ackq'[c] = <<>>
      BY <1>2, <1>5, Answers DEF Client_Read
    <2>2. applied[c] = 1 .. ci[c] /\ ~Works(c) /\ ~Works(c)' /\ ci[c] \in Elements
      BY <1>1, <1>2, <1>5 DEF ProtocolOf, ClientOf, Works, IInv, TypeInv, TypeOK
    <2>3. /\ ci'[c] = ci[c] + 1 /\ ci' = [ci EXCEPT ![c] = ci[c] + 1]
          /\ \/ /\ ci[c] < Count /\ cpc' = [cpc EXCEPT ![c] = "send"] /\ finished' = finished
             \/ /\ ci[c] = Count /\ cpc' = [cpc EXCEPT ![c] = "ok"] /\ finished' = finished \cup {c}
      <3>1. ci[c] \in Int /\ ci[c] <= Count /\ Count \in Int /\ ci \in [Clients -> 1 .. Count + 1]
        BY <2>2, Constants DEF IInv, TypeInv, TypeOK
      <3>2. ci' = [ci EXCEPT ![c] = ci[c] + 1] /\ ci'[c] = ci[c] + 1
        BY <2>1, <3>1 DEF NextElement
      <3>3. CASE ci[c] < Count
        BY <2>1, <3>2, <3>3 DEF NextElement
      <3>4. CASE ~(ci[c] < Count)
        <4>1. ci[c] = Count
          BY <3>1, <3>4
        <4> QED BY <2>1, <3>2, <3>4, <4>1 DEF NextElement
      <3> QED BY <3>3, <3>4
    <2>4. TypeInv'
      <3>1. ackq' \in [Clients -> Seq(PTypes)] /\ \A d \in Clients : Len(ackq'[d]) <= CliQLen
        BY <1>1, <2>1, Answers, QLenAssumption DEF IInv, TypeInv, TypeOK
      <3>2. /\ ci' \in [Clients -> 1 .. Count + 1]
            /\ \A d \in Clients : cpc'[d] \in {"send", "read"} => ci'[d] \in Elements
        BY <2>2, <2>3, Constants DEF IInv, TypeInv, TypeOK
      <3>3. /\ cpc' \in [Clients -> {"idle", "send", "read", "ok", "fail", "gone"}]
            /\ finished' \subseteq Clients
            /\ \A d \in Clients : cpc'[d] \notin {"idle", "gone"} => calls[d] > 0
        BY <1>1, <2>3 DEF IInv, TypeInv, TypeOK
      <3> QED BY <1>1, <3>1, <3>2, <3>3 DEF IInv, TypeInv, TypeOK
    <2>5. ASSUME NEW d \in Clients PROVE ProtocolOf(d)'
      <3>1. CASE d # c
        <4>1. Same(d) /\ ProtocolOf(d)
          BY <1>1, <2>3, <3>1 DEF Same, IInv, TypeInv, TypeOK
        <4> QED BY <1>1, <4>1, Frame
      <3>2. CASE d = c
        <4>2. QueueOf(c)' /\ WorkOf(c)'
          BY <1>1, <1>3, <2>2 DEF QueueOf, WorkOf
        <4>3. /\ applied'[c] = 1 .. ci'[c] - 1 /\ ci'[c] \in Int
              /\ \/ cpc'[c] = "send" /\ c \notin finished'
                 \/ cpc'[c] = "ok" /\ ci'[c] = Count + 1
          <5>1. ci[c] \in Int /\ c \notin finished /\ applied'[c] = 1 .. ci[c]
            BY <1>1, <1>2, <2>2, Constants DEF ProtocolOf, ClientOf
          <5>2. ci'[c] - 1 = ci[c] /\ ci'[c] \in Int
            BY <2>3, <5>1
          <5> QED BY <1>1, <2>3, <5>1, <5>2 DEF IInv, TypeInv, TypeOK
        <4>4. ClientOf(c)'
          BY <2>1, <4>3, Answers DEF ClientOf
        <4> QED BY <3>2, <4>2, <4>4 DEF ProtocolOf
      <3> QED BY <3>1, <3>2
    <2>6. ToldInv'
      <3>1. ASSUME NEW d \in Clients
            PROVE  /\ cpc'[d] = "gone" <=> cpc[d] = "gone"
                   /\ cpc[d] = "gone" => (d \in finished' <=> d \in finished)
        BY <1>1, <2>3 DEF IInv, TypeInv, TypeOK
      <3> QED BY <1>1, <3>1 DEF IInv, ToldInv
    <2> QED BY <2>4, <2>5, <2>6 DEF IInv
  <1> QED BY <1>2, <1>4, <1>5

\* What a client leaves behind names threads that are gone.
LEMMA ExitStep ==
    ASSUME IInv, NEW c \in Clients, Client_Exit(c)
    PROVE  IInv'
  <1>1. /\ cpc' = [cpc EXCEPT ![c] = "gone"] /\ ackq' = [ackq EXCEPT ![c] = <<>>]
        /\ told' = [tid \in DOMAIN told |-> IF \E e \in Elements : tid = Tid[c][e]
                                            THEN {} ELSE told[tid]]
        /\ UNCHANGED <<ci, calls, finished, squeue, srv, cur, crashes, applied, reused, timely>>
    BY DEF Client_Exit, svars
  <1>2. TypeInv'
    <2>1. ackq' \in [Clients -> Seq(PTypes)] /\ \A d \in Clients : Len(ackq'[d]) <= CliQLen
      BY <1>1, Answers, QLenAssumption DEF IInv, TypeInv, TypeOK
    <2>2. told' \in [Tids \cup {0} -> SUBSET Calls]
      BY <1>1 DEF IInv, TypeInv
    <2>3. /\ cpc' \in [Clients -> {"idle", "send", "read", "ok", "fail", "gone"}]
          /\ \A d \in Clients : /\ cpc'[d] \in {"send", "read"} => ci[d] \in Elements
                                /\ cpc'[d] \notin {"idle", "gone"} => calls[d] > 0
      BY <1>1 DEF IInv, TypeInv, TypeOK
    <2> QED BY <1>1, <2>1, <2>2, <2>3 DEF IInv, TypeInv, TypeOK
  <1>3. ASSUME NEW d \in Clients PROVE ProtocolOf(d)'
    <2>1. ProtocolOf(d) /\ UNCHANGED <<squeue, srv, cur, timely>>
      BY <1>1 DEF IInv
    <2>2. CASE d # c
      <3>1. Same(d)
        BY <1>1, <2>2 DEF Same, IInv, TypeInv, TypeOK
      <3> QED BY <2>1, <3>1, Frame
    <2>3. CASE d = c
      <3>1. cpc'[c] = "gone" /\ ackq'[c] = <<>> /\ (Works(c)' <=> Works(c))
        BY <1>1 DEF IInv, TypeInv, TypeOK, Works
      <3>2. QueueOf(c)'
        BY <1>1, <2>1, <2>3, <3>1 DEF ProtocolOf, QueueOf, QueuedAt, Waiting, TidsRead
      <3>3. WorkOf(c)'
        BY <1>1, <2>1, <2>3, <3>1 DEF ProtocolOf, WorkOf, Waiting, TidsRead
      <3>4. ClientOf(c)'
        BY <1>1, <2>1, <2>3, <3>1, Answers DEF ProtocolOf, ClientOf
      <3> QED BY <2>3, <3>2, <3>3, <3>4 DEF ProtocolOf
    <2> QED BY <2>2, <2>3
  <1>4. ToldInv'
    <2>1. told'[0] = told[0]
      BY <1>1, Constants DEF IInv, TypeInv
    <2>2. ASSUME NEW d \in Clients, NEW e \in Elements
          PROVE  told'[Tid[d][e]] = IF d = c THEN {} ELSE told[Tid[d][e]]
      BY <1>1, Constants DEF IInv, TypeInv
    <2>3. ASSUME NEW d \in Clients
          PROVE  cpc'[d] = IF d = c THEN "gone" ELSE cpc[d]
      BY <1>1 DEF IInv, TypeInv, TypeOK
    <2>4. timely' => told'[0] = {}
      BY <1>1, <2>1 DEF IInv, ToldInv
    <2>5. ASSUME NEW d \in Clients, NEW e \in Elements
          PROVE  /\ told'[Tid[d][e]] \subseteq KernelCalls(Table[e])
                 /\ timely' /\ cpc'[d] # "gone" /\ e \in applied'[d] => told'[Tid[d][e]] = KernelCalls(Table[e])
                 /\ d \in finished' /\ cpc'[d] = "gone" => told'[Tid[d][e]] = {}
      <3>1. /\ told[Tid[d][e]] \subseteq KernelCalls(Table[e])
            /\ timely /\ cpc[d] # "gone" /\ e \in applied[d] => told[Tid[d][e]] = KernelCalls(Table[e])
            /\ d \in finished /\ cpc[d] = "gone" => told[Tid[d][e]] = {}
        BY DEF IInv, ToldInv
      <3>2. CASE d = c
        BY <2>2, <2>3, <3>2
      <3>3. CASE d # c
        <4>1. told'[Tid[d][e]] = told[Tid[d][e]] /\ cpc'[d] = cpc[d]
          BY <2>2, <2>3, <3>3
        <4> QED BY <1>1, <3>1, <4>1
      <3> QED BY <3>2, <3>3
    <2>6. ASSUME NEW d \in Clients, timely, srv = "sched", cur.client = d, cpc'[d] # "gone"
          PROVE  Affinity(Table[cur.elem]) \in told'[Tid[d][cur.elem]]
      <3>1. d # c /\ cpc[d] # "gone" /\ cur.elem \in Elements
        BY <2>3, <2>6 DEF IInv, TypeInv, TypeOK
      <3> QED BY <2>2, <2>6, <3>1 DEF IInv, ToldInv
    <2> QED BY <1>1, <2>4, <2>5, <2>6 DEF ToldInv
  <1> QED BY <1>2, <1>3, <1>4 DEF IInv

\* The server takes the request of a client, and reads it.
LEMMA RecvStep ==
    ASSUME IInv, Server_Recv
    PROVE  IInv'
  <1>1. /\ srv = "recv" /\ squeue # <<>> /\ squeue \in Seq(Requests) /\ squeue' = Tail(squeue)
        /\ srv' = "rcv_ack"
        /\ UNCHANGED <<cpc, ci, calls, finished, ackq, crashes, applied, told, reused, timely>>
    BY DEF Server_Recv, cvars, kvars, IInv, TypeInv
  <1>2. /\ Len(squeue) \in Nat \ {0} /\ Head(squeue) = squeue[1] /\ squeue[1] \in Requests
        /\ squeue' \in Seq(Requests) /\ Len(squeue') = Len(squeue) - 1
        /\ \A j \in 1 .. Len(squeue) - 1 : squeue'[j] = squeue[j + 1]
    BY <1>1, QueueTail
  <1> DEFINE c == squeue[1].client
  <1>3. c \in Clients /\ squeue[1].elem \in Elements
    BY <1>2, RequestFields DEF Requests
  <1>4. QueuedAt(c, 1)
    BY <1>2, <1>3 DEF IInv, ProtocolOf, QueueOf
  <1>5. PICK tid \in TidsRead(c, ci[c]) : squeue[1] = Request(c, ci[c], tid)
    BY <1>4 DEF QueuedAt
  <1>6. PICK lp64 \in BOOLEAN :
           cur' = [client |-> c, elem |-> squeue[1].elem, fiber |-> FiberElement(squeue[1].buf, lp64)]
    BY <1>2 DEF Server_Recv
  <1>7. ci[c] \in Elements /\ tid \in Ints
    BY <1>3, <1>4, <1>5, TidsReadInts DEF QueuedAt
  <1>8. FiberElement(squeue[1].buf, lp64) = [tid |-> tid, props |-> Table[ci[c]]]
    BY <1>3, <1>5, <1>7, RequestRead
  <1>9. /\ cur'.client = c /\ cur'.elem = ci[c] /\ cur'.fiber.tid = tid
        /\ cur'.fiber.props = Table[ci[c]]
    BY <1>5, <1>6, <1>8, RequestFields
  <1> HIDE DEF c
  <1>10. TypeInv'
    <2>1. \A n \in 1 .. Len(squeue') : squeue'[n].client \in Clients /\ squeue'[n].elem \in Elements
      BY <1>2, RequestFields DEF Requests
    <2>2. Len(squeue') <= SrvQLen
      BY <1>2, QLenAssumption DEF IInv, TypeInv, TypeOK
    <2> QED BY <1>1, <1>2, <1>3, <1>7, <1>9, <2>1, <2>2 DEF IInv, TypeInv, TypeOK
  <1>11. ASSUME NEW d \in Clients PROVE ProtocolOf(d)'
    <2>1. ProtocolOf(d) /\ ~Works(d) /\ (Works(d)' <=> d = c)
      BY <1>1, <1>9 DEF IInv, Works, Working
    <2>2. ClientOf(d)'
      <3>1. d = c => ackq[d] = <<>>
        BY <1>4 DEF QueuedAt
      <3> QED BY <1>1, <2>1, <3>1, Answers DEF ProtocolOf, ClientOf
    <2>3. WorkOf(d)'
      BY <1>1, <1>3, <1>4, <1>7, <1>9, <2>1 DEF WorkOf, QueuedAt, TidsRead
    <2>4. QueueOf(d)'
      <3> SUFFICES ASSUME NEW j \in 1 .. Len(squeue'), squeue'[j].client = d
                   PROVE  QueuedAt(d, j)'
        BY DEF QueueOf
      <3>1. j + 1 \in 1 .. Len(squeue) /\ squeue'[j] = squeue[j + 1] /\ 1 \in 1 .. Len(squeue)
        BY <1>2
      <3>2. QueuedAt(d, j + 1)
        BY <2>1, <3>1 DEF ProtocolOf, QueueOf
      <3>3. d # c
        <4>1. d = c => 1 = j + 1
          BY <1>3, <3>1, <3>2 DEF QueuedAt, c
        <4> QED BY <4>1
      <3>4. \A k \in 1 .. Len(squeue') : squeue'[k].client = d => k = j
        BY <1>2, <3>1, <3>2 DEF QueuedAt
      <3>5. \E t \in TidsRead(d, ci[d])' : squeue'[j] = Request(d, ci'[d], t)
        BY <1>1, <3>1, <3>2 DEF QueuedAt, TidsRead
      <3> QED BY <1>1, <2>1, <3>2, <3>3, <3>4, <3>5 DEF QueuedAt
    <2> QED BY <2>2, <2>3, <2>4 DEF ProtocolOf
  <1>12. ToldInv'
    BY <1>1 DEF IInv, ToldInv
  <1> QED BY <1>10, <1>11, <1>12 DEF IInv

\* The client the server works for.
LEMMA WorkedFor ==
    ASSUME IInv, srv \in Working
    PROVE  cur.client \in Clients /\ Works(cur.client) /\ WorkOf(cur.client)
  BY DEF IInv, TypeInv, TypeOK, ProtocolOf, Works, Working

\* An answer is put behind those a client has not read, if there is room.
LEMMA SendToQueue ==
    ASSUME IInv, NEW c \in Clients, NEW p \in PTypes, SendTo(c, p)
    PROVE  /\ ackq' \in [Clients -> Seq(PTypes)]
           /\ \A d \in Clients : Len(ackq'[d]) <= CliQLen
           /\ \A d \in Clients : d # c => ackq'[d] = ackq[d]
           /\ ackq'[c] = ackq[c] \/ (ackq'[c] = Append(ackq[c], p) /\ cpc[c] # "gone")
  <1>1. ackq \in [Clients -> Seq(PTypes)] /\ \A d \in Clients : Len(ackq[d]) <= CliQLen
    BY DEF IInv, TypeInv, TypeOK
  <1>2. CASE UNCHANGED ackq
    BY <1>1, <1>2
  <1>3. CASE /\ cpc[c] # "gone" /\ Len(ackq[c]) < CliQLen
             /\ ackq' = [ackq EXCEPT ![c] = Append(@, p)]
    <2>1. Append(ackq[c], p) \in Seq(PTypes) /\ Len(Append(ackq[c], p)) = Len(ackq[c]) + 1
          /\ Len(ackq[c]) \in Nat
      BY <1>1, QueueAppend
    <2>2. ackq'[c] = Append(ackq[c], p) /\ \A d \in Clients : d # c => ackq'[d] = ackq[d]
      BY <1>1, <1>3
    <2>3. Len(ackq'[c]) <= CliQLen
      BY <1>3, <2>1, <2>2, QLenAssumption
    <2>4. ackq' \in [Clients -> Seq(PTypes)]
      BY <1>1, <1>3, <2>1
    <2> QED BY <1>1, <1>3, <2>2, <2>3, <2>4
  <1> QED BY <1>2, <1>3 DEF SendTo

\* The first answer says nothing about the element.
LEMMA RcvAckStep ==
    ASSUME IInv, SEND_RCV_ACK
    PROVE  IInv'
  <1> DEFINE c == cur.client
  <1>1. /\ srv = "rcv_ack" /\ srv' = "set" /\ SendTo(c, "PTYPE_RCV_ACK")
        /\ UNCHANGED <<cpc, ci, calls, finished, squeue, cur, crashes, applied, told, reused, timely>>
    BY DEF SEND_RCV_ACK, cvars, kvars
  <1>2. c \in Clients /\ Works(c) /\ WorkOf(c)
    BY <1>1, WorkedFor DEF Working
  <1>3. /\ ackq' \in [Clients -> Seq(PTypes)]
        /\ \A d \in Clients : Len(ackq'[d]) <= CliQLen
        /\ \A d \in Clients : d # c => ackq'[d] = ackq[d]
        /\ ackq'[c] = ackq[c] \/ (ackq'[c] = Append(ackq[c], "PTYPE_RCV_ACK") /\ cpc[c] # "gone")
    BY <1>1, <1>2, SendToQueue DEF PTypes
  <1>4. ackq[c] = <<>> /\ (ackq'[c] = <<>> \/ (ackq'[c] = RcvAck /\ cpc[c] # "gone"))
    BY <1>1, <1>2, <1>3, Answers DEF WorkOf
  <1>5. TypeInv'
    BY <1>1, <1>3 DEF IInv, TypeInv, TypeOK
  <1>6. ASSUME NEW d \in Clients PROVE ProtocolOf(d)'
    <2>1. ProtocolOf(d)
      BY DEF IInv
    <2>2. CASE d # c
      <3>1. Same(d) /\ ~Works(d) /\ ~Works(d)'
        BY <1>1, <1>3, <2>2 DEF Same, Works
      <3> QED BY <1>1, <2>1, <3>1, FrameIdle
    <2>3. CASE d = c
      <3>1. QueueOf(d)'
        BY <1>1, <1>2, <2>1, <2>3 DEF ProtocolOf, QueueOf, QueuedAt
      <3>2. WorkOf(d)'
        BY <1>1, <1>2, <1>4, <2>3 DEF WorkOf, TidsRead
      <3>3. ClientOf(d)'
        BY <1>1, <1>2, <1>4, <2>1, <2>3, Answers DEF ProtocolOf, ClientOf, WorkOf, Waiting
      <3> QED BY <2>3, <3>1, <3>2, <3>3 DEF ProtocolOf
    <2> QED BY <2>2, <2>3
  <1>7. ToldInv'
    BY <1>1 DEF IInv, ToldInv
  <1> QED BY <1>5, <1>6, <1>7 DEF IInv

\* A call of the server's baa_set_schedule_props reaches the thread of the
\* element, if it lives, or the server's own if the fiber was late.
LEMMA TellStep ==
    ASSUME IInv, srv \in {"set", "sched"}, NEW c \in Clients, c = cur.client,
           NEW call \in KernelCalls(cur.fiber.props), told' = Told(call)
    PROVE  /\ told' \in [Tids \cup {0} -> SUBSET Calls]
           /\ timely => told'[0] = {}
           /\ \A d \in Clients, e \in Elements :
                 /\ told[Tid[d][e]] \subseteq told'[Tid[d][e]]
                 /\ told'[Tid[d][e]] \subseteq KernelCalls(Table[e])
                 /\ d \in finished => told'[Tid[d][e]] = told[Tid[d][e]]
           /\ timely /\ cpc[c] # "gone" => call \in told'[Tid[c][cur.elem]]
  <1> DEFINE tid == cur.fiber.tid
             n   == ci[c]
  <1>1. /\ n \in Elements /\ cur.elem = n /\ tid \in TidsRead(c, n)
        /\ cur.fiber.props = Table[n] /\ c \notin finished
    BY WorkedFor DEF Working, WorkOf
  <1>2. tid \in {0, Tid[c][n]} /\ (timely => tid = Tid[c][n])
    BY <1>1 DEF TidsRead
  <1>3. tid \in Tids \cup {0} /\ Table[n] \in Props /\ told \in [Tids \cup {0} -> SUBSET Calls]
    BY <1>1, <1>2, Constants DEF IInv, TypeInv
  <1>4. call \in KernelCalls(Table[n]) /\ call \in Calls
    BY <1>1, <1>3 DEF Calls
  <1>5. told' = IF Reached(tid) THEN [told EXCEPT ![tid] = @ \cup {call}] ELSE told
    BY DEF Told
  <1> HIDE DEF tid, n
  <1>6. /\ told' \in [Tids \cup {0} -> SUBSET Calls]
        /\ \A t \in Tids \cup {0} : t # tid => told'[t] = told[t]
        /\ told'[tid] = told[tid] \/ told'[tid] = told[tid] \cup {call}
        /\ Reached(tid) => told'[tid] = told[tid] \cup {call}
    BY <1>3, <1>4, <1>5
  <1>7. timely => told'[0] = {}
    BY <1>1, <1>2, <1>6, Constants DEF IInv, ToldInv
  <1>8. ASSUME NEW d \in Clients, NEW e \in Elements
        PROVE  /\ told[Tid[d][e]] \subseteq told'[Tid[d][e]]
               /\ told'[Tid[d][e]] \subseteq KernelCalls(Table[e])
               /\ d \in finished => told'[Tid[d][e]] = told[Tid[d][e]]
    <2>1. told[Tid[d][e]] \subseteq KernelCalls(Table[e]) /\ Tid[d][e] \in Tids
      BY Constants DEF IInv, ToldInv
    <2>2. CASE Tid[d][e] = tid
      <3>1. d = c /\ e = n
        BY <1>1, <1>2, <2>2, Constants
      <3> QED BY <1>1, <1>4, <1>6, <2>1, <2>2, <3>1
    <2>3. CASE Tid[d][e] # tid
      BY <1>6, <2>1, <2>3
    <2> QED BY <2>2, <2>3
  <1>9. timely /\ cpc[c] # "gone" => call \in told'[Tid[c][cur.elem]]
    BY <1>1, <1>2, <1>6 DEF Reached
  <1> QED BY <1>6, <1>7, <1>8, <1>9

\* A set that has grown up to a bound it had already met.
LEMMA Grown ==
    ASSUME NEW A, NEW B, NEW K, A \subseteq B, B \subseteq K
    PROVE  A = K => B = K
  OBVIOUS

\* The first call of baa_set_schedule_props: nothing is applied yet.
LEMMA AffinityStep ==
    ASSUME IInv, Server_SetAffinity
    PROVE  IInv'
  <1> DEFINE c == cur.client
  <1>1. /\ srv = "set" /\ srv' = "sched" /\ told' = Told(Affinity(cur.fiber.props))
        /\ UNCHANGED <<cpc, ci, calls, finished, ackq, squeue, cur, crashes, applied, reused, timely>>
    BY DEF Server_SetAffinity, cvars
  <1>2. c \in Clients /\ Works(c) /\ WorkOf(c) /\ Works(c)'
    BY <1>1, WorkedFor DEF Working, Works
  <1>3. Affinity(cur.fiber.props) \in KernelCalls(cur.fiber.props)
        /\ cur.fiber.props = Table[cur.elem]
    BY <1>2 DEF KernelCalls, WorkOf
  <1>4. /\ told' \in [Tids \cup {0} -> SUBSET Calls]
        /\ timely => told'[0] = {}
        /\ \A d \in Clients, e \in Elements :
              /\ told[Tid[d][e]] \subseteq told'[Tid[d][e]]
              /\ told'[Tid[d][e]] \subseteq KernelCalls(Table[e])
              /\ d \in finished => told'[Tid[d][e]] = told[Tid[d][e]]
        /\ timely /\ cpc[c] # "gone" => Affinity(cur.fiber.props) \in told'[Tid[c][cur.elem]]
    BY <1>1, <1>2, <1>3, TellStep
  <1>5. TypeInv'
    BY <1>1, <1>4 DEF IInv, TypeInv, TypeOK
  <1>6. ASSUME NEW d \in Clients PROVE ProtocolOf(d)'
    <2>1. ProtocolOf(d)
      BY DEF IInv
    <2>2. CASE d # c
      <3>1. Same(d) /\ ~Works(d) /\ ~Works(d)'
        BY <1>1, <2>2 DEF Same, Works
      <3> QED BY <1>1, <2>1, <3>1, FrameIdle
    <2>3. CASE d = c
      <3>1. QueueOf(d)'
        BY <1>1, <1>2, <2>1, <2>3 DEF ProtocolOf, QueueOf, QueuedAt
      <3>2. WorkOf(d)'
        BY <1>1, <1>2, <2>3 DEF WorkOf, TidsRead
      <3>3. ClientOf(d)'
        BY <1>1, <1>2, <2>1, <2>3 DEF ProtocolOf, ClientOf
      <3> QED BY <2>3, <3>1, <3>2, <3>3 DEF ProtocolOf
    <2> QED BY <2>2, <2>3
  <1>7. ToldInv'
    <2>1. ASSUME NEW d \in Clients, NEW e \in Elements
          PROVE  /\ told'[Tid[d][e]] \subseteq KernelCalls(Table[e])
                 /\ timely /\ cpc[d] # "gone" /\ e \in applied[d] => told'[Tid[d][e]] = KernelCalls(Table[e])
                 /\ d \in finished /\ cpc[d] = "gone" => told'[Tid[d][e]] = {}
      <3>1. /\ timely /\ cpc[d] # "gone" /\ e \in applied[d] => told[Tid[d][e]] = KernelCalls(Table[e])
            /\ d \in finished /\ cpc[d] = "gone" => told[Tid[d][e]] = {}
        BY DEF IInv, ToldInv
      <3>2. /\ told[Tid[d][e]] \subseteq told'[Tid[d][e]]
            /\ told'[Tid[d][e]] \subseteq KernelCalls(Table[e])
            /\ d \in finished => told'[Tid[d][e]] = told[Tid[d][e]]
        BY <1>4
      <3>3. told[Tid[d][e]] = KernelCalls(Table[e]) => told'[Tid[d][e]] = KernelCalls(Table[e])
        BY <3>2, Grown
      <3> QED BY <3>1, <3>2, <3>3, Zenon
    <2>2. ASSUME NEW d \in Clients, timely, cur.client = d, cpc[d] # "gone"
          PROVE  Affinity(Table[cur.elem]) \in told'[Tid[d][cur.elem]]
      BY <1>3, <1>4, <2>2
    <2> QED BY <1>1, <1>4, <2>1, <2>2 DEF ToldInv
  <1> QED BY <1>5, <1>6, <1>7 DEF IInv

\* The second call: the element is set, for the thread whose id the request has.
LEMMA SetStep ==
    ASSUME IInv, Server_SetScheduler
    PROVE  IInv'
  <1> DEFINE c == cur.client
  <1>1. /\ srv = "sched" /\ srv' = "cmd_ack" /\ told' = Told(Scheduler(cur.fiber.props))
        /\ applied' = [applied EXCEPT ![c] = @ \cup {cur.elem}]
        /\ UNCHANGED <<cpc, ci, calls, finished, ackq, squeue, cur, crashes, reused, timely>>
    BY DEF Server_SetScheduler, cvars
  <1>2. c \in Clients /\ Works(c) /\ WorkOf(c) /\ Works(c)'
    BY <1>1, WorkedFor DEF Working, Works
  <1>3. /\ ci[c] \in Elements /\ cur.elem = ci[c] /\ cur.fiber.tid \in TidsRead(c, ci[c])
        /\ cur.fiber.props = Table[ci[c]] /\ c \notin finished /\ cpc[c] \in Waiting
        /\ applied[c] = 1 .. ci[c] - 1 /\ ackq[c] \in {<<>>, RcvAck}
    BY <1>1, <1>2 DEF WorkOf
  <1>4. Scheduler(cur.fiber.props) \in KernelCalls(cur.fiber.props)
    BY DEF KernelCalls
  <1>5. applied'[c] = 1 .. ci[c] /\ \A d \in Clients : d # c => applied'[d] = applied[d]
    <2>1. ci[c] \in Nat \ {0}
      BY <1>3, Constants
    <2>2. (1 .. ci[c] - 1) \cup {ci[c]} = 1 .. ci[c]
      BY <2>1
    <2>3. applied \in [Clients -> SUBSET Elements]
      BY DEF IInv, TypeInv, TypeOK
    <2> QED BY <1>1, <1>2, <1>3, <2>2, <2>3
  <1>6. /\ told' \in [Tids \cup {0} -> SUBSET Calls]
        /\ timely => told'[0] = {}
        /\ \A d \in Clients, e \in Elements :
              /\ told[Tid[d][e]] \subseteq told'[Tid[d][e]]
              /\ told'[Tid[d][e]] \subseteq KernelCalls(Table[e])
              /\ d \in finished => told'[Tid[d][e]] = told[Tid[d][e]]
        /\ timely /\ cpc[c] # "gone" => Scheduler(cur.fiber.props) \in told'[Tid[c][cur.elem]]
    BY <1>1, <1>2, <1>4, TellStep
  <1>7. TypeInv'
    <2>1. applied' \in [Clients -> SUBSET Elements]
      BY <1>1, <1>2, <1>3 DEF IInv, TypeInv, TypeOK
    <2> QED BY <1>1, <1>6, <2>1 DEF IInv, TypeInv, TypeOK
  <1>8. ASSUME NEW d \in Clients PROVE ProtocolOf(d)'
    <2>1. ProtocolOf(d)
      BY DEF IInv
    <2>2. CASE d # c
      <3>1. Same(d) /\ ~Works(d) /\ ~Works(d)'
        BY <1>1, <1>5, <2>2 DEF Same, Works
      <3> QED BY <1>1, <2>1, <3>1, FrameIdle
    <2>3. CASE d = c
      <3>1. QueueOf(d)'
        BY <1>1, <1>2, <2>1, <2>3 DEF ProtocolOf, QueueOf, QueuedAt
      <3>2. WorkOf(d)'
        BY <1>1, <1>3, <1>5, <2>3 DEF WorkOf, TidsRead
      <3>3. ClientOf(d)'
        BY <1>1, <1>2, <1>3, <1>5, <2>1, <2>3, Answers DEF ProtocolOf, ClientOf, Waiting
      <3> QED BY <2>3, <3>1, <3>2, <3>3 DEF ProtocolOf
    <2> QED BY <2>2, <2>3
  <1>9. ToldInv'
    <2>1. ASSUME NEW d \in Clients, NEW e \in Elements
          PROVE  /\ told'[Tid[d][e]] \subseteq KernelCalls(Table[e])
                 /\ timely /\ cpc[d] # "gone" /\ e \in applied'[d] => told'[Tid[d][e]] = KernelCalls(Table[e])
                 /\ d \in finished /\ cpc[d] = "gone" => told'[Tid[d][e]] = {}
      <3>0. /\ told[Tid[d][e]] \subseteq told'[Tid[d][e]]
            /\ told'[Tid[d][e]] \subseteq KernelCalls(Table[e])
            /\ d \in finished => told'[Tid[d][e]] = told[Tid[d][e]]
        BY <1>6
      <3>1. CASE d = c /\ e = ci[c]
        <4>1. timely /\ cpc[c] # "gone" => Affinity(Table[e]) \in told[Tid[d][e]]
          BY <1>1, <1>3, <3>1 DEF IInv, ToldInv
        <4>2. timely /\ cpc[c] # "gone" => Scheduler(Table[e]) \in told'[Tid[d][e]]
          BY <1>3, <1>6, <3>1
        <4>3. timely /\ cpc[c] # "gone" => KernelCalls(Table[e]) \subseteq told'[Tid[d][e]]
          BY <3>0, <4>1, <4>2 DEF KernelCalls
        <4> QED BY <1>3, <3>0, <3>1, <4>3, Zenon
      <3>2. CASE ~(d = c /\ e = ci[c])
        <4>1. e \in applied'[d] => e \in applied[d]
          BY <1>1, <1>2, <1>3, <3>2 DEF IInv, TypeInv, TypeOK
        <4>2. /\ timely /\ cpc[d] # "gone" /\ e \in applied[d] => told[Tid[d][e]] = KernelCalls(Table[e])
              /\ d \in finished /\ cpc[d] = "gone" => told[Tid[d][e]] = {}
          BY DEF IInv, ToldInv
        <4>3. told[Tid[d][e]] = KernelCalls(Table[e]) => told'[Tid[d][e]] = KernelCalls(Table[e])
          BY <3>0, Grown
        <4> QED BY <3>0, <4>1, <4>2, <4>3, Zenon
      <3> QED BY <3>1, <3>2
    <2> QED BY <1>1, <1>6, <2>1 DEF ToldInv
  <1> QED BY <1>7, <1>8, <1>9 DEF IInv

\* The second answer says that the element is set.
LEMMA CmdAckStep ==
    ASSUME IInv, SEND_CMD_ACK
    PROVE  IInv'
  <1> DEFINE c == cur.client
  <1>1. /\ srv = "cmd_ack" /\ srv' = "recv" /\ SendTo(c, "PTYPE_CMD_ACK")
        /\ UNCHANGED <<cpc, ci, calls, finished, squeue, crashes, applied, told, reused, timely>>
    BY DEF SEND_CMD_ACK, cvars, kvars
  <1>2. c \in Clients /\ Works(c) /\ WorkOf(c)
    BY <1>1, WorkedFor DEF Working
  <1>3. /\ ackq' \in [Clients -> Seq(PTypes)]
        /\ \A d \in Clients : Len(ackq'[d]) <= CliQLen
        /\ \A d \in Clients : d # c => ackq'[d] = ackq[d]
        /\ ackq'[c] = ackq[c] \/ (ackq'[c] = Append(ackq[c], "PTYPE_CMD_ACK") /\ cpc[c] # "gone")
    BY <1>1, <1>2, SendToQueue DEF PTypes
  <1>4. ackq'[c] = ackq[c] \/ (ackq'[c] \in {CmdAck, BothAck} /\ cpc[c] # "gone")
    BY <1>1, <1>2, <1>3, Answers DEF WorkOf
  <1>5. TypeInv'
    BY <1>1, <1>3 DEF IInv, TypeInv, TypeOK
  <1>6. ASSUME NEW d \in Clients PROVE ProtocolOf(d)'
    <2>1. ProtocolOf(d) /\ ~Works(d)'
      BY <1>1 DEF IInv, Works, Working
    <2>2. CASE d # c
      <3>1. Same(d) /\ ~Works(d)
        BY <1>1, <1>3, <2>2 DEF Same, Works
      <3> QED BY <1>1, <2>1, <3>1, FrameIdle
    <2>3. CASE d = c
      <3>1. QueueOf(d)' /\ WorkOf(d)'
        BY <1>1, <1>2, <2>1, <2>3 DEF ProtocolOf, QueueOf, QueuedAt, WorkOf
      <3>2. ClientOf(d)'
        BY <1>1, <1>2, <1>4, <2>1, <2>3, Answers DEF ProtocolOf, ClientOf, WorkOf, Waiting
      <3> QED BY <3>1, <3>2 DEF ProtocolOf
    <2> QED BY <2>2, <2>3
  <1>7. ToldInv'
    BY <1>1 DEF IInv, ToldInv
  <1> QED BY <1>5, <1>6, <1>7 DEF IInv

\* A crash loses the requests, and with them nothing that was said.
LEMMA CrashStep ==
    ASSUME IInv, Server_Crash
    PROVE  IInv'
  <1>1. /\ crashes < MaxCrashes /\ crashes' = crashes + 1 /\ srv' = "down" /\ squeue' = <<>>
        /\ told' = [told EXCEPT ![0] = {}]
        /\ UNCHANGED <<cpc, ci, calls, finished, ackq, applied, reused, timely>>
    BY DEF Server_Crash, cvars
  <1>2. TypeInv'
    <2>1. told' \in [Tids \cup {0} -> SUBSET Calls] /\ crashes' \in 0 .. MaxCrashes
      BY <1>1, BoundAssumption DEF IInv, TypeInv, TypeOK
    <2>2. squeue' \in Seq(Requests) /\ Len(squeue') = 0 /\ Len(squeue') <= SrvQLen
      BY <1>1, QLenAssumption
    <2> QED BY <1>1, <2>1, <2>2 DEF IInv, TypeInv, TypeOK
  <1>3. ASSUME NEW d \in Clients PROVE ProtocolOf(d)'
    <2>1. ProtocolOf(d) /\ ~Works(d)'
      BY <1>1 DEF IInv, Works, Working
    <2>2. QueueOf(d)' /\ WorkOf(d)'
      BY <1>1, <2>1 DEF QueueOf, WorkOf
    <2>3. ClientOf(d)'
      BY <1>1, <2>1 DEF ProtocolOf, ClientOf
    <2> QED BY <2>2, <2>3 DEF ProtocolOf
  <1>4. ToldInv'
    <2>1. told'[0] = {} /\ \A t \in Tids : t # 0 => told'[t] = told[t]
      BY <1>1 DEF IInv, TypeInv
    <2>2. ASSUME NEW c \in Clients, NEW e \in Elements PROVE told'[Tid[c][e]] = told[Tid[c][e]]
      BY <2>1, Constants
    <2>3. ToldInv
      BY DEF IInv
    <2>4. ASSUME NEW c \in Clients, NEW e \in Elements
          PROVE  /\ told'[Tid[c][e]] \subseteq KernelCalls(Table[e])
                 /\ timely' /\ cpc'[c] # "gone" /\ e \in applied'[c] => told'[Tid[c][e]] = KernelCalls(Table[e])
                 /\ c \in finished' /\ cpc'[c] = "gone" => told'[Tid[c][e]] = {}
      BY <1>1, <2>2, <2>3 DEF ToldInv
    <2>5. timely' => told'[0] = {}
      BY <2>1
    <2> QED BY <1>1, <2>4, <2>5 DEF ToldInv
  <1> QED BY <1>2, <1>3, <1>4 DEF IInv

\* A server that starts has no request in its hands.
LEMMA StartStep ==
    ASSUME IInv, Server_Start
    PROVE  IInv'
  <1>1. /\ srv = "down" /\ srv' = "recv"
        /\ UNCHANGED <<cpc, ci, calls, finished, ackq, squeue, cur, crashes, applied, told, reused, timely>>
    BY DEF Server_Start, cvars, kvars
  <1>2. TypeInv'
    BY <1>1 DEF IInv, TypeInv, TypeOK
  <1>3. ASSUME NEW d \in Clients PROVE ProtocolOf(d)'
    <2>1. ProtocolOf(d) /\ Same(d) /\ ~Works(d) /\ ~Works(d)'
      BY <1>1 DEF IInv, Same, Works, Working
    <2> QED BY <1>1, <2>1, FrameIdle
  <1>4. ToldInv'
    BY <1>1 DEF IInv, ToldInv
  <1> QED BY <1>2, <1>3, <1>4 DEF IInv

\* What the kernel does with free ids does not concern the protocol.
LEMMA KernelStep ==
    ASSUME IInv, reused' \subseteq Tids,
           UNCHANGED <<cpc, ci, calls, finished, ackq, squeue, srv, cur, crashes, applied, told, timely>>
    PROVE  IInv'
  <1>1. TypeInv'
    BY DEF IInv, TypeInv, TypeOK
  <1>2. ASSUME NEW d \in Clients PROVE ProtocolOf(d)'
    <2>1. ProtocolOf(d) /\ Same(d)
      BY DEF IInv, Same
    <2> QED BY <2>1, Frame
  <1>3. ToldInv'
    BY DEF IInv, ToldInv
  <1> QED BY <1>1, <1>2, <1>3 DEF IInv

\* Every step keeps the invariant.
LEMMA NextInv ==
    ASSUME MaxCalls <= 1, IInv, [Next]_vars
    PROVE  IInv'
  <1>1. ASSUME UNCHANGED vars PROVE IInv'
    <2>1. reused' \subseteq Tids
      BY <1>1 DEF IInv, TypeInv, TypeOK, vars, kvars
    <2> QED BY <1>1, <2>1, KernelStep DEF vars, cvars, svars, kvars
  <1>2. ASSUME NEW c \in Clients, NEW e \in Elements, Kernel_ReuseTid(c, e) PROVE IInv'
    <2>1. reused' \subseteq Tids
      BY <1>2, Constants DEF IInv, TypeInv, TypeOK, Kernel_ReuseTid
    <2> QED BY <1>2, <2>1, KernelStep DEF Kernel_ReuseTid, cvars, svars
  <1>3. ASSUME NEW c \in Clients, Client_Call(c) \/ ClientNext(c) \/ Client_Exit(c) PROVE IInv'
    BY <1>3, CallStep, SendStep, FailStep, ReadStep, ExitStep DEF ClientNext
  <1>4. ASSUME ServerNext \/ Server_Crash \/ Server_Start PROVE IInv'
    BY <1>4, RecvStep, RcvAckStep, AffinityStep, SetStep, CmdAckStep, CrashStep, StartStep DEF ServerNext
  <1> QED BY <1>1, <1>2, <1>3, <1>4 DEF Next, AllGone

-----------------------------------------------------------------------------
(* Theorems *)

\* The inductive invariant of the protocol: of a client's request there is one
\* trace at a time, in the server's queue, in the server's hands or in the
\* client's queue, and the elements set are those before it.
THEOREM Invariance ==
    ASSUME MaxCalls <= 1
    PROVE  Spec => []IInv
  <1>1. IInv /\ [Next]_vars => IInv'
    BY NextInv
  <1> QED BY <1>1, InitInv, PTL DEF Spec

\* Every variable of the protocol keeps its type, and no queue ever holds
\* more than the kernel lets it.
THEOREM TypeCorrect ==
    ASSUME MaxCalls <= 1
    PROVE  Spec => []TypeOK
  <1>1. IInv => TypeOK
    BY DEF IInv, TypeInv
  <1> QED BY <1>1, Invariance, PTL

\* baa_schedule_server_th tells the kernel the right properties for the right
\* threads, through baa_pack and baa_unpack, on either kind of build.
THEOREM RightThreadsHolds ==
    ASSUME MaxCalls <= 1
    PROVE  Spec => []RightThreads
  <1>1. ASSUME IInv PROVE RightThreads
    <2>1. ASSUME NEW c \in Clients, NEW e \in Elements, c \in finished, timely
          PROVE  told[Tid[c][e]] = IF cpc[c] = "gone" THEN {} ELSE KernelCalls(Table[e])
      <3>1. CASE cpc[c] = "gone"
        BY <1>1, <2>1, <3>1 DEF IInv, ToldInv
      <3>2. CASE cpc[c] # "gone"
        <4>1. cpc[c] = "ok" /\ applied[c] = 1 .. ci[c] - 1 /\ ci[c] = Count + 1
          BY <1>1, <2>1, <3>2 DEF IInv, ProtocolOf, ClientOf
        <4>2. e \in applied[c]
          BY <4>1, Constants
        <4> QED BY <1>1, <2>1, <3>2, <4>2 DEF IInv, ToldInv
      <3> QED BY <3>1, <3>2
    <2> QED BY <1>1, <2>1 DEF IInv, ToldInv, RightThreads
  <1> QED BY <1>1, Invariance, PTL

\* baa_set_schedule_props_via_server and the server keep step: while a client
\* works on an element all the elements before it are set and none after it.
THEOREM InStepHolds ==
    ASSUME MaxCalls <= 1
    PROVE  Spec => []InStep
  <1>1. IInv => InStep
    BY DEF IInv, ProtocolOf, ClientOf, InStep
  <1> QED BY <1>1, Invariance, PTL

\* A client that makes one call leaves at most two answers unread, however
\* long its queue: it never makes sendto of the server wait.
THEOREM ServerNeverHeldUpHolds ==
    ASSUME MaxCalls <= 1
    PROVE  Spec => []ServerNeverHeldUp
  <1>1. IInv => ServerNeverHeldUp
    BY Answers DEF IInv, ProtocolOf, ClientOf, ServerNeverHeldUp
  <1> QED BY <1>1, Invariance, PTL

\* A call of baa_set_schedule_props_via_server that returned 0 has had every
\* element of its table set.
THEOREM OkMeansAppliedHolds ==
    ASSUME MaxCalls <= 1
    PROVE  Spec => []OkMeansApplied
  <1>1. IInv => OkMeansApplied
    BY Constants DEF IInv, ProtocolOf, ClientOf, OkMeansApplied
  <1> QED BY <1>1, Invariance, PTL

-----------------------------------------------------------------------------
(* The protocol implements the service *)

\* The initial states are those of the abstract service.
LEMMA ServiceInit == Init => Service!Init
  BY DEF Init, Service!Init, Result

\* The results change as the control points do.
LEMMA ServiceResult ==
    ASSUME NEW c \in Clients, NEW pc \in {"idle", "send", "read", "ok", "fail", "gone"},
           cpc \in [Clients -> {"idle", "send", "read", "ok", "fail", "gone"}],
           cpc' = [cpc EXCEPT ![c] = pc]
    PROVE  [d \in Clients |-> Result(d)]' = [[d \in Clients |-> Result(d)] EXCEPT ![c] =
               CASE pc = "ok" -> "ok"
                 [] pc \in {"fail", "gone"} -> "failed"
                 [] pc \in {"idle", "send", "read"} -> "none"]
  BY DEF Result

\* Giving up and ending are failures of the service, the last answer is its
\* success, and the call of the kernel its effect; the other steps are not
\* seen.
LEMMA ServiceStep ==
    ASSUME MaxCalls <= 1, IInv, [Next]_vars
    PROVE  [Service!Next]_<<applied, [c \in Clients |-> Result(c)]>>
  <1> DEFINE result == [c \in Clients |-> Result(c)]
  <1>0. cpc \in [Clients -> {"idle", "send", "read", "ok", "fail", "gone"}]
    BY DEF IInv, TypeInv, TypeOK
  <1>1. ASSUME UNCHANGED <<applied, cpc>> PROVE UNCHANGED <<applied, result>>
    BY <1>1 DEF Result
  <1>2. ASSUME NEW c \in Clients,
               cpc' = [cpc EXCEPT ![c] = "fail"] \/ cpc' = [cpc EXCEPT ![c] = "gone"],
               UNCHANGED applied
        PROVE  Service!Next
    <2>1. result' = [result EXCEPT ![c] = "failed"]
      BY <1>0, <1>2, ServiceResult
    <2> QED BY <1>2, <2>1 DEF Service!Next, Service!Fail
  <1>3. ASSUME NEW c \in Clients, cpc[c] \in {"idle", "send", "read"}, UNCHANGED applied,
               cpc' = [cpc EXCEPT ![c] = "send"] \/ cpc' = [cpc EXCEPT ![c] = "read"]
        PROVE  UNCHANGED <<applied, result>>
    <2>1. result' = [result EXCEPT ![c] = "none"] /\ result[c] = "none"
      BY <1>0, <1>3, ServiceResult DEF Result
    <2> QED BY <1>3, <2>1
  <1>4. ASSUME NEW c \in Clients, Client_Call(c) PROVE UNCHANGED <<applied, result>>
    <2>1. calls[c] \in 0 .. MaxCalls /\ calls[c] < MaxCalls
      BY <1>4 DEF Client_Call, IInv, TypeInv, TypeOK
    <2>2. calls[c] = 0
      BY <2>1, BoundAssumption
    <2>3. cpc[c] = "idle"
      BY <1>4, <2>2 DEF Client_Call, IInv, TypeInv
    <2> QED BY <1>3, <1>4, <2>3 DEF Client_Call, kvars
  <1>5. ASSUME NEW c \in Clients, Client_Send(c) PROVE UNCHANGED <<applied, result>>
    BY <1>3, <1>5 DEF Client_Send, kvars
  <1>6. ASSUME NEW c \in Clients, Client_Read(c) PROVE [Service!Next]_<<applied, result>>
    <2>1. cpc[c] = "read" /\ UNCHANGED applied /\ ci[c] \in Elements
      BY <1>6 DEF Client_Read, kvars, IInv, TypeInv, TypeOK
    <2>2. CASE UNCHANGED cpc
      BY <1>1, <2>1, <2>2
    <2>3. CASE NextElement(c) /\ ci[c] < Count
      <3>1. cpc' = [cpc EXCEPT ![c] = "send"]
        BY <2>3 DEF NextElement
      <3> QED BY <1>3, <2>1, <3>1
    <2>4. CASE NextElement(c) /\ ~(ci[c] < Count) /\ Head(ackq[c]) # "PTYPE_RCV_ACK"
      <3>1. cpc' = [cpc EXCEPT ![c] = "ok"] /\ ci[c] = Count
        BY <2>1, <2>4, Constants DEF NextElement
      <3>2. result' = [result EXCEPT ![c] = "ok"] /\ result[c] = "none"
        BY <1>0, <2>1, <3>1, ServiceResult DEF Result
      <3>3. ackq[c] = CmdAck
        BY <1>6, <2>4, Answers DEF Client_Read, IInv, ProtocolOf, ClientOf
      <3>4. applied[c] = 1 .. Count
        BY <3>1, <3>3 DEF IInv, ProtocolOf, ClientOf
      <3>5. Service!Succeed(c)
        BY <2>1, <3>2, <3>4 DEF Service!Succeed
      <3> QED BY <3>5 DEF Service!Next
    <2> QED BY <1>6, <2>2, <2>3, <2>4 DEF Client_Read
  <1>7. ASSUME Server_SetScheduler PROVE Service!Next
    <2> DEFINE c == cur.client
    <2>1. /\ srv = "sched" /\ applied' = [applied EXCEPT ![c] = @ \cup {cur.elem}] /\ UNCHANGED cpc
      BY <1>7 DEF Server_SetScheduler, cvars
    <2>2. c \in Clients /\ ci[c] \in Elements /\ cur.elem = ci[c] /\ applied[c] = 1 .. ci[c] - 1
      BY <2>1, WorkedFor DEF Working, WorkOf
    <2> HIDE DEF c
    <2>3. ci[c] \in Nat \ {0} /\ ci[c] <= Count
      BY <2>2, Constants
    <2>4. (1 .. ci[c] - 1) \cup {ci[c]} = 1 .. ci[c] /\ 1 .. ci[c] - 1 # 1 .. Count
      <3>1. ci[c] \in 1 .. Count /\ ci[c] \notin 1 .. ci[c] - 1
        BY <2>3, Constants
      <3>2. (1 .. ci[c] - 1) \cup {ci[c]} = 1 .. ci[c]
        BY <2>3
      <3> QED BY <3>1, <3>2, Zenon
    <2>5. applied' = [applied EXCEPT ![c] = 1 .. ci[c]]
      BY <2>1, <2>2, <2>4
    <2>6. UNCHANGED result
      BY <2>1 DEF Result
    <2>7. Service!Apply(c)
      BY <2>2, <2>3, <2>4, <2>5, <2>6, Constants DEF Service!Apply
    <2> QED BY <2>2, <2>7 DEF Service!Next
  <1>8. ASSUME NEW c \in Clients, Client_Call(c) \/ ClientNext(c) \/ Client_Exit(c)
        PROVE  [Service!Next]_<<applied, result>>
    <2>1. ASSUME Client_SendFails(c) \/ Client_Timeout(c) \/ Client_Exit(c) PROVE Service!Next
      BY <1>2, <2>1 DEF Client_SendFails, Client_Timeout, Client_Exit, kvars
    <2> QED BY <1>4, <1>5, <1>6, <1>8, <2>1 DEF ClientNext
  <1>9. ASSUME \/ UNCHANGED vars \/ Server_Recv \/ SEND_RCV_ACK \/ Server_SetAffinity \/ SEND_CMD_ACK
               \/ Server_Crash \/ Server_Start
               \/ \E c \in Clients, e \in Elements : Kernel_ReuseTid(c, e)
        PROVE  UNCHANGED <<applied, result>>
    <2>1. UNCHANGED <<applied, cpc>>
      BY <1>9 DEF Server_Recv, SEND_RCV_ACK, Server_SetAffinity, SEND_CMD_ACK, Server_Crash, Server_Start,
                  Kernel_ReuseTid, vars, cvars, kvars
    <2> QED BY <1>1, <2>1
  <1> HIDE DEF result
  <1>10. [Service!Next]_<<applied, result>>
    BY <1>7, <1>8, <1>9 DEF Next, ServerNext, AllGone
  <1> QED BY <1>10 DEF result

\* The client and the server together implement the schedule service: the
\* elements of a table are set one after the other, and the call returns 0
\* only when all are set.
THEOREM ImplementsService ==
    ASSUME MaxCalls <= 1
    PROVE  Spec => ServiceSpec
  <1>1. IInv /\ [Next]_vars => [Service!Next]_<<applied, [c \in Clients |-> Result(c)]>>
    BY ServiceStep
  <1> QED BY <1>1, ServiceInit, Invariance, PTL DEF Spec, ServiceSpec, Service!Spec
=============================================================================
