---------------------------- MODULE DaytimeProofs ----------------------------
(***************************************************************************)
(* Proofs about Daytime: baa_read_line for every line and every size of    *)
(* the buffer, and the sockets, alarms and connections for any number of   *)
(* clients, addresses and rounds.                                          *)
(***************************************************************************)
EXTENDS Daytime, FiniteSetTheorems, SequenceTheorems, WellFoundedInduction, TLAPS

-----------------------------------------------------------------------------
(* baa_read_line *)

\* A set of numbers that is not empty has a least one.
LEMMA Least ==
    ASSUME NEW T, T \subseteq Nat, T # {}
    PROVE  \E x \in T : \A y \in T : x <= y
  <1>1. PICK R : R = OpToRel(<, Nat)
    OBVIOUS
  <1>2. IsWellFoundedOn(R, Nat)
    BY <1>1, NatLessThanWellFounded
  <1>3. PICK x \in T : \A y \in T : ~(<<y, x>> \in R)
    BY <1>2, WFMin
  <1>4. \A i, j \in Nat : i < j => <<i, j>> \in R
    BY <1>1 DEF OpToRel
  <1>5. ASSUME NEW y \in T PROVE ~(y < x)
    BY <1>3, <1>4
  <1>6. x \in Nat /\ \A y \in T : y \in Nat
    OBVIOUS
  <1> QED BY <1>5, <1>6

\* Min finds it.
LEMMA MinIsLeast ==
    ASSUME NEW T, T \subseteq Nat, T # {}
    PROVE  Min(T) \in T /\ \A y \in T : Min(T) <= y
  BY Least DEF Min

\* baa_read_line reads the text, and one character more.
LEMMA ReadsText ==
    ASSUME NEW S, NEW s \in Seq(S)
    PROVE  /\ Reads(s) \in 1 .. Len(s) + 1
           /\ Text(s) \in Seq(S) /\ Len(Text(s)) = Reads(s) - 1
           /\ \A i \in 1 .. Reads(s) - 1 : Text(s)[i] = s[i]
  <1> DEFINE T == {k \in DOMAIN s : s[k] = "NL"}
  <1>1. Len(s) \in Nat /\ DOMAIN s = 1 .. Len(s) /\ T \subseteq 1 .. Len(s)
    OBVIOUS
  <1>2. CASE T = {}
    <2>1. Reads(s) = Len(s) + 1 /\ Text(s) = s
      BY <1>2 DEF Reads, Text
    <2> QED BY <1>1, <2>1
  <1>3. CASE T # {}
    <2>1. T \subseteq Nat
      BY <1>1
    <2>2. Min(T) \in T
      BY <1>3, <2>1, MinIsLeast
    <2>3. PICK r \in 1 .. Len(s) : r = Min(T)
      BY <1>1, <2>2
    <2>4. Reads(s) = r /\ Text(s) = SubSeq(s, 1, r - 1)
      BY <1>3, <2>3 DEF Reads, Text
    <2>5. 1 \in 1 .. Len(s) + 1 /\ r - 1 \in 0 .. Len(s) /\ Len(s) \in Nat
      BY <1>1
    <2>6. /\ SubSeq(s, 1, r - 1) \in Seq(S) /\ Len(SubSeq(s, 1, r - 1)) = r - 1
          /\ \A i \in 1 .. r - 1 : SubSeq(s, 1, r - 1)[i] = s[i]
      BY <2>5
    <2> QED BY <1>1, <2>4, <2>6
  <1> QED BY <1>2, <1>3

\* The first m characters read, as a sequence.
Chars(s, m) == [i \in 1 .. m |-> Ch(s, i)]

\* One more read adds one character.
LEMMA CharsGrow ==
    ASSUME NEW S, NEW s \in Seq(S), s # <<>>, NEW m \in Nat
    PROVE  /\ Chars(s, m) \in Seq(S) /\ Len(Chars(s, m)) = m
           /\ Append(Chars(s, m), Ch(s, m + 1)) = Chars(s, m + 1)
  <1>1. Len(s) \in Nat \ {0} /\ \A i \in 1 .. Len(s) : s[i] \in S
    OBVIOUS
  <1>2. \A i \in Nat \ {0} : Ch(s, i) \in S
    BY <1>1 DEF Ch
  <1>3. Chars(s, m) \in Seq(S) /\ Len(Chars(s, m)) = m
    BY <1>2 DEF Chars
  <1>4. Chars(s, m + 1) \in Seq(S) /\ Len(Chars(s, m + 1)) = m + 1
    BY <1>2 DEF Chars
  <1>5. /\ Append(Chars(s, m), Ch(s, m + 1)) \in Seq(S)
        /\ Len(Append(Chars(s, m), Ch(s, m + 1))) = m + 1
    BY <1>2, <1>3
  <1>6. ASSUME NEW i \in 1 .. m + 1
        PROVE  Append(Chars(s, m), Ch(s, m + 1))[i] = Chars(s, m + 1)[i]
    BY <1>2, <1>3 DEF Chars
  <1> QED BY <1>3, <1>4, <1>5, <1>6, SeqEqual

\* How many of k characters a buffer of n keeps.
Cut(k, n) == IF k < n - 1 THEN k ELSE n - 1

\* The buffer is what was read, cut where it ends.
LEMMA Buffer ==
    ASSUME NEW S, NEW s \in Seq(S), s # <<>>, NEW n \in Nat, n > 1
    PROVE  Filled(s, n) = Chars(s, Cut(Reads(s), n))
  <1> DEFINE r == Reads(s)
             Def(g) == [k \in 0 .. r |->
                          IF k = 0 THEN <<>>
                          ELSE IF Len(g[k - 1]) < n - 1 THEN Append(g[k - 1], Ch(s, k))
                                                        ELSE g[k - 1]]
             b == CHOOSE g : g = Def(g)
             f == [k \in 0 .. r |-> Chars(s, Cut(k, n))]
  <1>1. Filled(s, n) = b[r]
    BY DEF Filled
  <1>2. r \in Nat \ {0}
    <2>1. r \in 1 .. Len(s) + 1
      BY ReadsText
    <2>2. Len(s) \in Nat
      OBVIOUS
    <2> QED BY <2>1, <2>2
  <1> HIDE DEF r
  <1>3. \A k \in 0 .. r : Cut(k, n) \in Nat /\ Len(Chars(s, Cut(k, n))) = Cut(k, n)
    <2>1. \A k \in 0 .. r : Cut(k, n) \in Nat
      BY <1>2 DEF Cut
    <2> QED BY <2>1, CharsGrow
  <1>4. Chars(s, 0) = <<>>
    BY CharsGrow
  <1>5. ASSUME NEW k \in 1 .. r
        PROVE  Chars(s, Cut(k, n)) = IF Cut(k - 1, n) < n - 1
                                     THEN Append(Chars(s, Cut(k - 1, n)), Ch(s, k))
                                     ELSE Chars(s, Cut(k - 1, n))
    <2>1. CASE k <= n - 1
      <3>1. Cut(k - 1, n) = k - 1 /\ Cut(k, n) = k /\ k - 1 \in Nat /\ k - 1 + 1 = k
        BY <1>2, <2>1 DEF Cut
      <3>2. Append(Chars(s, k - 1), Ch(s, k - 1 + 1)) = Chars(s, k - 1 + 1)
        BY <3>1, CharsGrow
      <3>3. k - 1 < n - 1
        BY <1>2, <2>1
      <3> QED BY <3>1, <3>2, <3>3
    <2>2. CASE k > n - 1
      BY <1>2, <2>2 DEF Cut
    <2> QED BY <1>2, <2>1, <2>2
  <1>6. f = Def(f)
    <2>1. ASSUME NEW k \in 0 .. r PROVE f[k] = Def(f)[k]
      <3>1. CASE k = 0
        BY <1>2, <1>4, <3>1 DEF Cut
      <3>2. CASE k # 0
        <4>1. k \in 1 .. r /\ k - 1 \in 0 .. r
          BY <1>2, <3>2
        <4>2. f[k - 1] = Chars(s, Cut(k - 1, n)) /\ Len(f[k - 1]) = Cut(k - 1, n)
          BY <1>3, <4>1
        <4> QED BY <1>5, <3>2, <4>1, <4>2
      <3> QED BY <3>1, <3>2
    <2> QED BY <2>1
  <1>7. b = Def(b)
    BY <1>6
  <1> HIDE DEF b, f
  <1>8. ASSUME NEW k \in 0 .. r, b[k] # f[k] PROVE FALSE
    <2> DEFINE T == {i \in 0 .. r : b[i] # f[i]}
    <2>1. PICK i \in T : \A j \in T : i <= j
      <3>1. T # {} /\ T \subseteq Nat
        BY <1>2, <1>8
      <3> QED BY <3>1, Least
    <2>2. i # 0
      BY <1>6, <1>7, <2>1
    <2>3. i - 1 \in 0 .. r /\ i - 1 \notin T
      BY <1>2, <2>1, <2>2
    <2>4. b[i - 1] = f[i - 1]
      BY <2>3
    <2>5. b[i] = Def(b)[i] /\ f[i] = Def(f)[i]
      BY <1>6, <1>7
    <2> QED BY <2>1, <2>2, <2>4, <2>5
  <1>9. b[r] = f[r]
    BY <1>2, <1>8
  <1> QED BY <1>1, <1>2, <1>9 DEF f, r

\* What main shows of a line.
Shown(s) == SubSeq(Text(s), 1, Min({Len(Text(s)), MaxLine - 2}))

\* Cutting off the last character of the buffer leaves the text, or as much of
\* it as is in the buffer without the last character.
LEMMA FrontIsText ==
    ASSUME NEW S, NEW s \in Seq(S), s # <<>>
    PROVE  /\ SubSeq(Filled(s, MaxLine), 1, baa_read_line(s, MaxLine) - 1) = Shown(s)
           /\ Len(Shown(s)) < MaxLine
           /\ baa_read_line(s, MaxLine) \in 1 .. MaxLine - 1
  <1> DEFINE m == Cut(Reads(s), MaxLine)
             t == Text(s)
             h == Min({Len(t), MaxLine - 2})
  <1>1. MaxLine \in Nat /\ MaxLine > 1 /\ Reads(s) \in 1 .. Len(s) + 1 /\ Len(s) \in Nat
    <2>1. MaxLine \in Nat /\ MaxLine > 1
      BY LineAssumption
    <2>2. Reads(s) \in 1 .. Len(s) + 1
      BY ReadsText
    <2> QED BY <2>1, <2>2
  <1>2. Filled(s, MaxLine) = Chars(s, m)
    BY <1>1, Buffer
  <1>3. t \in Seq(S) /\ Len(t) = Reads(s) - 1 /\ \A i \in 1 .. Reads(s) - 1 : t[i] = s[i]
    BY ReadsText
  <1>4. m \in Nat \ {0} /\ m - 1 <= Len(t) /\ m <= MaxLine - 1 /\ m - 1 \in 0 .. Len(t)
    BY <1>1, <1>3 DEF Cut
  <1>5. h = m - 1
    <2>1. {Len(t), MaxLine - 2} \subseteq Nat
      BY <1>1, <1>3
    <2>2. h \in {Len(t), MaxLine - 2} /\ h <= Len(t) /\ h <= MaxLine - 2
      BY <2>1, MinIsLeast
    <2> HIDE DEF h
    <2> QED BY <1>1, <1>3, <2>2 DEF Cut
  <1> HIDE DEF t, h, m
  <1>6. Chars(s, m) \in Seq(S) /\ Len(Chars(s, m)) = m
    BY <1>4, CharsGrow
  <1>7. /\ SubSeq(Chars(s, m), 1, m - 1) \in Seq(S) /\ Len(SubSeq(Chars(s, m), 1, m - 1)) = m - 1
        /\ \A i \in 1 .. m - 1 : SubSeq(Chars(s, m), 1, m - 1)[i] = Chars(s, m)[i]
    BY <1>4, <1>6
  <1>8. /\ SubSeq(t, 1, m - 1) \in Seq(S) /\ Len(SubSeq(t, 1, m - 1)) = m - 1
        /\ \A i \in 1 .. m - 1 : SubSeq(t, 1, m - 1)[i] = t[i]
    BY <1>3, <1>4
  <1>9. ASSUME NEW i \in 1 .. m - 1 PROVE Chars(s, m)[i] = t[i]
    BY <1>1, <1>3, <1>4 DEF Chars, Ch
  <1>10. SubSeq(Chars(s, m), 1, m - 1) = SubSeq(t, 1, m - 1)
    BY <1>7, <1>8, <1>9, SeqEqual
  <1>11. baa_read_line(s, MaxLine) = m
    BY <1>2, <1>6 DEF baa_read_line
  <1>12. Shown(s) = SubSeq(t, 1, m - 1)
    BY <1>5 DEF Shown, t, h
  <1> QED BY <1>1, <1>2, <1>4, <1>8, <1>10, <1>11, <1>12

\* What is shown is the beginning of the text, all of it where its newline fits
\* into the buffer too, and all but one of the characters in a full buffer.
LEMMA ShownIsText ==
    ASSUME NEW S, NEW s \in Seq(S)
    PROVE  /\ IsPrefix(Shown(s), Text(s))
           /\ Len(Text(s)) + 1 <= MaxLine - 1 => Shown(s) = Text(s)
           /\ Len(Text(s)) > MaxLine - 2 => Len(Shown(s)) >= MaxLine - 2
  <1> DEFINE t == Text(s)
             h == Min({Len(t), MaxLine - 2})
  <1>1. MaxLine \in Nat /\ MaxLine > 1 /\ t \in Seq(S) /\ Len(t) \in Nat
    <2>1. t \in Seq(S)
      BY ReadsText
    <2> QED BY <2>1, LineAssumption
  <1> HIDE DEF t
  <1>2. h \in {Len(t), MaxLine - 2} /\ h <= Len(t) /\ h <= MaxLine - 2 /\ h \in Nat
    <2>1. {Len(t), MaxLine - 2} \subseteq Nat
      BY <1>1
    <2> QED BY <2>1, MinIsLeast
  <1>3. Shown(s) = SubSeq(t, 1, h)
    BY DEF Shown, t, h
  <1> HIDE DEF h
  <1>4. /\ SubSeq(t, 1, h) \in Seq(S) /\ Len(SubSeq(t, 1, h)) = h
        /\ \A i \in 1 .. h : SubSeq(t, 1, h)[i] = t[i]
    BY <1>1, <1>2
  <1>5. SubSeq(SubSeq(t, 1, h), 1, h) = SubSeq(t, 1, h)
    BY <1>4
  <1>6. IsPrefix(SubSeq(t, 1, h), t)
    BY <1>2, <1>4, <1>5 DEF IsPrefix
  <1>7. ASSUME Len(t) + 1 <= MaxLine - 1 PROVE SubSeq(t, 1, h) = t
    <2>1. h = Len(t)
      BY <1>1, <1>2, <1>7
    <2> QED BY <1>1, <1>4, <2>1, SeqEqual
  <1>8. ASSUME Len(t) > MaxLine - 2 PROVE Len(SubSeq(t, 1, h)) >= MaxLine - 2
    BY <1>1, <1>2, <1>4, <1>8
  <1> QED BY <1>3, <1>6, <1>7, <1>8 DEF t

-----------------------------------------------------------------------------
(* The inductive invariant *)

Points == {"call", "socket", "connect", "return", "read", "sleep", "exit"}

\* The descriptor and the alarm of a client go with its control point.
SocketOf(c) ==
    /\ pc[c] \in {"socket", "connect", "read"} => rp[c] <= NAddr
    /\ fds[c] = IF \/ pc[c] = "connect"
                   \/ pc[c] \in {"return", "read"} /\ rp[c] <= NAddr
                THEN 1 ELSE 0
    /\ alarm[c] => pc[c] \in {"socket", "connect", "return"}

\* Types and sockets of the clients.
ClientInv ==
    /\ pc \in [Clients -> Points]
    /\ rp \in [Clients -> 1 .. NAddr + 1]
    /\ fds \in [Clients -> Nat]
    /\ alarm \in [Clients -> BOOLEAN]
    /\ round \in [Clients -> 1 .. MaxRounds]
    /\ \A c \in Clients : SocketOf(c)

\* A client shows what it was sent, and has counted it right.
LineInv ==
    /\ sent \in [Clients -> Streams \cup {<<>>}]
    /\ num_read \in [Clients -> Int]
    /\ \A c \in Clients : sent[c] # <<>> => num_read[c] \in 1 .. MaxLine - 1
    /\ recvline = [c \in Clients |-> Shown(sent[c])]

\* The server has one descriptor for each connection it took, and its listening
\* one.
ServerInv ==
    /\ usable \subseteq 1 .. NAddr
    /\ spc \in {"socket", "bind", "accept", "write", "exit"}
    /\ srp \in 1 .. NAddr + 1 /\ (spc = "bind" => srp <= NAddr)
    /\ sfds \in 0 .. MaxFds
    /\ cur \in Conns
    /\ taken \subseteq Conns /\ IsFiniteSet(taken) /\ answered \subseteq Conns
    /\ spc = "socket" => sfds = 0
    /\ spc = "bind" => sfds = 1
    /\ spc \in {"socket", "bind"} => taken = {} /\ backlog = <<>>
    /\ spc \in {"accept", "write"} => sfds = 1 + Cardinality(taken)

\* The client of a connection has been past connect() in that round.
Made(x) == \/ x[2] < round[x[1]]
           \/ x[2] = round[x[1]] /\ pc[x[1]] \in {"return", "read", "sleep", "exit"}

\* No connection is made twice: those that wait are distinct and new.
ConnInv ==
    /\ backlog \in Seq(Conns) /\ Len(backlog) <= Backlog
    /\ \A x \in taken : Made(x)
    /\ \A j \in 1 .. Len(backlog) : Made(backlog[j]) /\ backlog[j] \notin taken
    /\ \A i, j \in 1 .. Len(backlog) : backlog[i] = backlog[j] => i = j

\* The inductive invariant.
IInv == ClientInv /\ LineInv /\ ServerInv /\ ConnInv

\* The line shown before any is sent.
LEMMA ShownEmpty == Shown(<<>>) = <<>>
  <1>1. {k \in DOMAIN <<>> : <<>>[k] = "NL"} = {}
    OBVIOUS
  <1>2. Text(<<>>) = <<>>
    BY <1>1 DEF Text
  <1>3. {0, MaxLine - 2} \subseteq Nat /\ MaxLine \in Nat
    BY LineAssumption
  <1>4. Min({0, MaxLine - 2}) <= 0 /\ Min({0, MaxLine - 2}) \in Nat
    BY <1>3, MinIsLeast
  <1>5. Len(<<>>) = 0 /\ Min({0, MaxLine - 2}) = 0
    BY <1>4
  <1>6. SubSeq(<<>>, 1, 0) = <<>>
    OBVIOUS
  <1> QED BY <1>2, <1>5, <1>6 DEF Shown

\* No line is longer than the buffer.
LEMMA ShownFits ==
    ASSUME NEW s \in Streams \cup {<<>>}
    PROVE  Len(Shown(s)) < MaxLine
  <1>1. CASE s = <<>>
    BY <1>1, ShownEmpty, LineAssumption
  <1>2. CASE s # <<>>
    BY <1>2, LineAssumption, FrontIsText
  <1> QED BY <1>1, <1>2

\* The invariant holds before any client has connected.
LEMMA InitInv == Init => IInv
  <1> SUFFICES ASSUME Init PROVE IInv
    OBVIOUS
  <1>1. 1 \in 1 .. NAddr + 1 /\ 1 \in 1 .. MaxRounds /\ 0 \in 0 .. MaxFds /\ 1 <= NAddr
    BY AddrAssumption, BoundAssumption, LimitAssumption
  <1>2. ClientInv
    BY <1>1 DEF Init, ClientInv, SocketOf, Points
  <1>3. LineInv
    BY ShownEmpty DEF Init, LineInv
  <1>4. ServerInv
    BY <1>1, FS_EmptySet DEF Init, ServerInv
  <1>5. ConnInv
    BY LimitAssumption DEF Init, ConnInv
  <1> QED BY <1>2, <1>3, <1>4, <1>5 DEF IInv

\* What the invariant says is what the properties say.
LEMMA Consequences ==
    ASSUME IInv
    PROVE  TypeOK /\ NothingLost /\ LineShown /\ StoresInside
  <1> USE DEF IInv
  <1>1. TypeOK
    <2>1. \A c \in Clients : sent[c] \in Streams \cup {<<>>} /\ Len(recvline[c]) < MaxLine
      BY ShownFits DEF LineInv
    <2>2. \A c \in Clients : pc[c] \in {"socket", "connect"} => rp[c] <= NAddr
      BY DEF ClientInv, SocketOf
    <2> QED BY <2>1, <2>2 DEF TypeOK, ClientInv, LineInv, ServerInv, ConnInv, Points
  <1>2. NothingLost
    <2>1. spc \in {"accept", "write"} => sfds <= 1 + Cardinality(taken)
      BY LimitAssumption DEF ServerInv
    <2> QED BY <2>1 DEF NothingLost, ClientInv, SocketOf
  <1>3. LineShown
    <2>1. ASSUME NEW c \in Clients PROVE sent[c] \in Seq(STRING) /\ recvline[c] = Shown(sent[c])
      <3>1. sent[c] \in Streams \cup {<<>>} /\ recvline[c] = Shown(sent[c])
        BY DEF LineInv
      <3>2. <<>> \in Seq(STRING)
        OBVIOUS
      <3> QED BY <3>1, <3>2, LineAssumption
    <2> QED BY <2>1, ShownIsText DEF LineShown
  <1>4. StoresInside
    BY LineAssumption DEF StoresInside, LineInv
  <1> QED BY <1>1, <1>2, <1>3, <1>4

-----------------------------------------------------------------------------
(* The clients *)

\* What a step of client c leaves alone.
OthersKept(c) ==
    \A d \in Clients \ {c} : /\ pc'[d] = pc[d] /\ rp'[d] = rp[d] /\ fds'[d] = fds[d]
                             /\ alarm'[d] = alarm[d] /\ round'[d] = round[d]

\* The types of a client's variables.
ClientTypes == /\ pc \in [Clients -> Points] /\ rp \in [Clients -> 1 .. NAddr + 1]
               /\ fds \in [Clients -> Nat] /\ alarm \in [Clients -> BOOLEAN]
               /\ round \in [Clients -> 1 .. MaxRounds]

\* A client that goes on or leaves keeps its sockets in order, and what it has
\* made stays made.
MovesOn(c) == /\ ClientTypes' /\ OthersKept(c) /\ SocketOf(c)'
              /\ \/ /\ round'[c] = round[c]
                    /\ \/ pc[c] \notin {"return", "read", "sleep", "exit"}
                       \/ pc'[c] \in {"return", "read", "sleep", "exit"}
                 \/ round'[c] = round[c] + 1

\* Such a step keeps the invariant of the clients.
LEMMA MovesOnInv ==
    ASSUME ClientInv, NEW c \in Clients, MovesOn(c)
    PROVE  ClientInv' /\ \A x \in Conns : Made(x) => Made(x)'
  <1>1. ASSUME NEW d \in Clients, d # c PROVE SocketOf(d)'
    BY <1>1 DEF MovesOn, OthersKept, SocketOf, ClientInv
  <1>2. ClientInv'
    BY <1>1 DEF ClientInv, ClientTypes, MovesOn
  <1>3. ASSUME NEW x \in Conns, Made(x) PROVE Made(x)'
    <2>1. x[1] \in Clients /\ x[2] \in Int
      BY <1>3 DEF Conns
    <2>2. round[x[1]] \in Int
      BY <2>1, BoundAssumption DEF ClientInv
    <2>3. CASE x[1] = c
      <3>1. CASE round'[c] = round[c] + 1
        <4>1. x[2] < round[c] + 1
          BY <1>3, <2>1, <2>2, <2>3 DEF Made
        <4> QED BY <2>3, <3>1, <4>1 DEF Made
      <3>2. CASE round'[c] # round[c] + 1
        BY <1>3, <2>3, <3>2 DEF Made, MovesOn
      <3> QED BY <3>1, <3>2
    <2>4. CASE x[1] # c
      BY <1>3, <2>1, <2>4 DEF Made, MovesOn, OthersKept
    <2> QED BY <2>3, <2>4
  <1> QED BY <1>2, <1>3

\* A client that leaves, by a failure, a crash or a signal, is such a step.
LEMMA Leaves ==
    ASSUME ClientInv, NEW c \in Clients, Leave(c)
    PROVE  MovesOn(c) /\ UNCHANGED <<usable, lvars, svars, backlog>>
  <1>1. ClientTypes' /\ OthersKept(c)
    BY DEF Leave, ClientTypes, OthersKept, ClientInv, Points
  <1>2. SocketOf(c)'
    BY DEF Leave, SocketOf, ClientInv
  <1> QED BY <1>1, <1>2 DEF Leave, MovesOn, ClientInv

\* NextAddress stays within the list, and tells the end of it by rp.
LEMMA NextAddressMoves ==
    ASSUME ClientInv, NEW c \in Clients, pc[c] \in {"socket", "connect"}, NextAddress(c),
           fds' = [fds EXCEPT ![c] = 0], UNCHANGED <<alarm, round>>
    PROVE  MovesOn(c)
  <1>1. NAddr \in Nat /\ rp[c] \in 1 .. NAddr /\ rp \in [Clients -> 1 .. NAddr + 1]
    BY AddrAssumption DEF ClientInv, SocketOf
  <1>2. rp' = [rp EXCEPT ![c] = @ + 1] /\ rp' \in [Clients -> 1 .. NAddr + 1]
    BY <1>1 DEF NextAddress
  <1>3. /\ pc' \in [Clients -> Points] /\ \A d \in Clients \ {c} : pc'[d] = pc[d]
        /\ pc'[c] = IF rp[c] < NAddr THEN "socket" ELSE "return"
    BY DEF NextAddress, ClientInv, Points
  <1>4. ClientTypes' /\ OthersKept(c)
    BY <1>2, <1>3 DEF ClientTypes, OthersKept, ClientInv
  <1>5. rp'[c] = rp[c] + 1 /\ fds'[c] = 0 /\ alarm'[c] = alarm[c]
    BY <1>1, <1>2 DEF ClientInv
  <1>6. SocketOf(c)'
    <2>1. CASE rp[c] < NAddr
      BY <1>1, <1>3, <1>5, <2>1 DEF SocketOf
    <2>2. CASE ~(rp[c] < NAddr)
      BY <1>1, <1>3, <1>5, <2>2 DEF SocketOf
    <2> QED BY <2>1, <2>2
  <1> QED BY <1>4, <1>6 DEF MovesOn, ClientInv

\* Every step of a client but a connect() that succeeds moves the client on and
\* leaves the server alone.
LEMMA ClientMoves ==
    ASSUME ClientInv, LineInv, NEW c \in Clients,
           (ClientNext(c) /\ ~Connect_Connect(c)) \/ Client_Again(c) \/ SignalHandler_Term(c)
    PROVE  MovesOn(c) /\ LineInv' /\ UNCHANGED <<usable, svars, backlog>>
  <1> DEFINE Goal == MovesOn(c) /\ LineInv' /\ UNCHANGED <<usable, svars, backlog>>
  <1>a. ASSUME UNCHANGED lvars PROVE LineInv'
    BY <1>a DEF LineInv, lvars
  <1>b. SocketOf(c) /\ ClientTypes /\ NAddr \in Nat
    BY AddrAssumption DEF ClientInv, ClientTypes
  <1>n. ASSUME NEW k \in Int, num_read' = [num_read EXCEPT ![c] = k],
               sent' = [sent EXCEPT ![c] = <<>>], recvline' = [recvline EXCEPT ![c] = <<>>]
        PROVE  LineInv'
    <2>1. recvline' = [d \in Clients |-> Shown(sent'[d])]
      BY <1>n, ShownEmpty DEF LineInv
    <2>2. num_read' \in [Clients -> Int] /\ sent' \in [Clients -> Streams \cup {<<>>}]
      BY <1>n DEF LineInv
    <2>3. \A d \in Clients : sent'[d] # <<>> => d # c /\ sent'[d] = sent[d] /\ num_read'[d] = num_read[d]
      BY <1>n DEF LineInv
    <2> QED BY <2>1, <2>2, <2>3 DEF LineInv
  <1>1. ASSUME Leave(c) PROVE Goal
    BY <1>1, <1>a, Leaves
  <1>2. ASSUME Connect_Resolve(c) PROVE Goal
    <2>1. /\ pc[c] = "call" /\ rp' = [rp EXCEPT ![c] = 1] /\ alarm' = [alarm EXCEPT ![c] = TRUE]
          /\ pc' = [pc EXCEPT ![c] = "socket"]
          /\ UNCHANGED <<usable, fds, round, lvars, svars, backlog>>
      BY <1>2 DEF Connect_Resolve, baa_signal
    <2>2. 1 \in 1 .. NAddr + 1 /\ 1 <= NAddr
      BY AddrAssumption
    <2>3. ClientTypes' /\ OthersKept(c)
      BY <1>b, <2>1, <2>2 DEF ClientTypes, OthersKept, Points
    <2>4. SocketOf(c)'
      BY <1>b, <2>1, <2>2 DEF SocketOf, ClientTypes
    <2> QED BY <1>a, <2>1, <2>3, <2>4 DEF MovesOn
  <1>3. ASSUME Connect_Socket(c) PROVE Goal
    <2>1. /\ pc[c] = "socket" /\ fds' = [fds EXCEPT ![c] = @ + 1] /\ pc' = [pc EXCEPT ![c] = "connect"]
          /\ UNCHANGED <<usable, rp, alarm, round, lvars, svars, backlog>>
      BY <1>3 DEF Connect_Socket
    <2>2. ClientTypes' /\ OthersKept(c)
      BY <1>b, <2>1 DEF ClientTypes, OthersKept, Points
    <2>3. SocketOf(c)'
      BY <1>b, <2>1 DEF SocketOf, ClientTypes
    <2> QED BY <1>a, <2>1, <2>2, <2>3 DEF MovesOn
  <1>4. ASSUME Connect_SocketFails(c) \/ Connect_ConnectFails(c) PROVE Goal
    <2>1. /\ pc[c] \in {"socket", "connect"} /\ NextAddress(c)
          /\ UNCHANGED <<usable, alarm, round, lvars, svars, backlog>>
      BY <1>4 DEF Connect_SocketFails, Connect_ConnectFails
    <2>2. fds' = [fds EXCEPT ![c] = 0]
      BY <1>4, <1>b DEF Connect_SocketFails, Connect_ConnectFails, SocketOf, ClientTypes
    <2>3. MovesOn(c)
      BY <2>1, <2>2, NextAddressMoves
    <2> QED BY <1>a, <2>1, <2>3
  <1>5. ASSUME Connect_Return(c) PROVE Goal
    <2>1. /\ pc[c] = "return" /\ rp[c] <= NAddr /\ alarm' = [alarm EXCEPT ![c] = FALSE]
          /\ pc' = [pc EXCEPT ![c] = "read"]
          /\ UNCHANGED <<usable, rp, fds, round, lvars, svars, backlog>>
      BY <1>5 DEF Connect_Return, baa_signal
    <2>2. ClientTypes' /\ OthersKept(c)
      BY <1>b, <2>1 DEF ClientTypes, OthersKept, Points
    <2>3. SocketOf(c)'
      BY <1>b, <2>1 DEF SocketOf, ClientTypes
    <2> QED BY <1>a, <2>1, <2>2, <2>3 DEF MovesOn
  <1>6. ASSUME pc[c] = "read", CloseAndSleep(c)
        PROVE  MovesOn(c) /\ UNCHANGED <<usable, svars, backlog>>
    <2>1. /\ fds' = [fds EXCEPT ![c] = @ - 1] /\ pc' = [pc EXCEPT ![c] = "sleep"]
          /\ UNCHANGED <<usable, rp, alarm, round, svars, backlog>>
      BY <1>6 DEF CloseAndSleep
    <2>2. fds[c] = 1 /\ ~alarm[c]
      BY <1>6, <1>b DEF SocketOf
    <2>3. ClientTypes' /\ OthersKept(c)
      BY <1>b, <2>1, <2>2 DEF ClientTypes, OthersKept, Points
    <2>4. SocketOf(c)'
      BY <1>b, <2>1, <2>2 DEF SocketOf, ClientTypes
    <2> QED BY <1>6, <2>1, <2>3, <2>4 DEF MovesOn
  <1>7. ASSUME ReadLine_Line(c) PROVE Goal
    <2>1. PICK s \in Streams \ {<<>>} :
              /\ sent' = [sent EXCEPT ![c] = s]
              /\ num_read' = [num_read EXCEPT ![c] = baa_read_line(s, MaxLine)]
              /\ recvline' = [recvline EXCEPT ![c] =
                                 SubSeq(Filled(s, MaxLine), 1, baa_read_line(s, MaxLine) - 1)]
      BY <1>7 DEF ReadLine_Line
    <2>2. /\ SubSeq(Filled(s, MaxLine), 1, baa_read_line(s, MaxLine) - 1) = Shown(s)
          /\ baa_read_line(s, MaxLine) \in 1 .. MaxLine - 1
      BY LineAssumption, FrontIsText
    <2>3. recvline' = [d \in Clients |-> Shown(sent'[d])]
      BY <2>1, <2>2 DEF LineInv
    <2>4. PICK k \in 1 .. MaxLine - 1 : num_read' = [num_read EXCEPT ![c] = k]
      BY <2>1, <2>2
    <2>5. k \in Int /\ sent' \in [Clients -> Streams \cup {<<>>}]
      BY <2>1, LineAssumption DEF LineInv
    <2>6. num_read' \in [Clients -> Int] /\ num_read'[c] = k
          /\ \A d \in Clients \ {c} : num_read'[d] = num_read[d] /\ sent'[d] = sent[d]
      BY <2>1, <2>4, <2>5 DEF LineInv
    <2>7. LineInv'
      BY <2>3, <2>5, <2>6 DEF LineInv
    <2> QED BY <1>6, <1>7, <2>7 DEF ReadLine_Line
  <1>8. ASSUME ReadLine_Empty(c) PROVE Goal
    <2>1. /\ num_read' = [num_read EXCEPT ![c] = -2] /\ sent' = [sent EXCEPT ![c] = <<>>]
          /\ recvline' = [recvline EXCEPT ![c] = <<>>] /\ pc[c] = "read" /\ CloseAndSleep(c)
      BY <1>8 DEF ReadLine_Empty, baa_read_line, BAA_FILE_EMPTY
    <2>2. PICK k \in Int : k = -2
      OBVIOUS
    <2>3. num_read' = [num_read EXCEPT ![c] = k]
      BY <2>1, <2>2
    <2>4. LineInv'
      BY <1>n, <2>1, <2>3
    <2> QED BY <1>6, <2>1, <2>4
  <1>9. ASSUME Client_Again(c) PROVE Goal
    <2>1. /\ pc[c] = "sleep" /\ round[c] < MaxRounds /\ round' = [round EXCEPT ![c] = @ + 1]
          /\ pc' = [pc EXCEPT ![c] = "call"] /\ UNCHANGED <<usable, rp, fds, alarm, svars, backlog>>
          /\ sent' = [sent EXCEPT ![c] = <<>>] /\ recvline' = [recvline EXCEPT ![c] = <<>>]
          /\ num_read' = [num_read EXCEPT ![c] = -1]
      BY <1>9 DEF Client_Again
    <2>2. ClientTypes' /\ OthersKept(c)
      BY <1>b, <2>1, BoundAssumption DEF ClientTypes, OthersKept, Points
    <2>3. SocketOf(c)'
      BY <1>b, <2>1 DEF SocketOf, ClientTypes
    <2>k. PICK k \in Int : k = -1
      OBVIOUS
    <2>n. num_read' = [num_read EXCEPT ![c] = k]
      BY <2>1, <2>k
    <2>4. LineInv'
      BY <1>n, <2>1, <2>n
    <2>5. round'[c] = round[c] + 1
      BY <1>b, <2>1 DEF ClientTypes
    <2> QED BY <2>1, <2>2, <2>3, <2>4, <2>5 DEF MovesOn
  <1> QED BY <1>1, <1>2, <1>3, <1>4, <1>5, <1>7, <1>8, <1>9
          DEF ClientNext, SignalHandler_Term, Connect_ResolveFails, Connect_ReturnFails, ReadLine_Fails

-----------------------------------------------------------------------------
(* The server, and the connections *)

\* A connection is made once: the queue grows by one that is new to it.
LEMMA ConnectStep ==
    ASSUME IInv, NEW c \in Clients, Connect_Connect(c)
    PROVE  IInv'
  <1> USE DEF IInv
  <1> DEFINE x == <<c, round[c]>>
  <1>1. /\ pc[c] = "connect" /\ spc \in {"accept", "write"} /\ Len(backlog) < Backlog
        /\ backlog' = Append(backlog, x) /\ pc' = [pc EXCEPT ![c] = "return"]
        /\ UNCHANGED <<usable, rp, fds, alarm, round, lvars, svars>>
    BY DEF Connect_Connect, Conn
  <1>2. ClientTypes' /\ OthersKept(c)
    BY <1>1 DEF ClientTypes, OthersKept, ClientInv, Points
  <1>3. SocketOf(c)'
    BY <1>1 DEF SocketOf, ClientInv
  <1>4. MovesOn(c)
    BY <1>1, <1>2, <1>3 DEF MovesOn, ClientInv
  <1>5. ClientInv' /\ \A y \in Conns : Made(y) => Made(y)'
    BY <1>4, MovesOnInv
  <1>6. LineInv' /\ ServerInv'
    BY <1>1 DEF LineInv, ServerInv, lvars, svars
  <1>7. x \in Conns /\ x[1] = c /\ x[2] = round[c] /\ round[c] \in Int /\ round'[c] = round[c]
    BY <1>1, BoundAssumption DEF Conns, ClientInv
  <1>8. PICK y \in Conns : y = x
    BY <1>7
  <1>9. ~Made(y) /\ Made(y)'
    <2>1. ~(round[c] < round[c])
      BY <1>7
    <2>2. pc'[c] = "return"
      BY <1>1 DEF ClientInv
    <2> QED BY <1>1, <1>7, <1>8, <2>1, <2>2 DEF Made
  <1>10. /\ backlog' \in Seq(Conns) /\ Len(backlog') = Len(backlog) + 1 /\ Len(backlog) \in Nat
         /\ \A j \in 1 .. Len(backlog) : backlog'[j] = backlog[j] /\ backlog[j] \in Conns
         /\ backlog'[Len(backlog) + 1] = y
    BY <1>1, <1>7, <1>8 DEF ConnInv
  <1>11. Len(backlog') <= Backlog
    BY <1>1, <1>10, LimitAssumption
  <1>12. ASSUME NEW j \in 1 .. Len(backlog')
         PROVE  Made(backlog[j])' /\ backlog'[j] \notin taken
    <2>1. CASE j = Len(backlog) + 1
      BY <1>9, <1>10, <2>1 DEF ConnInv
    <2>2. CASE j # Len(backlog) + 1
      <3>1. j \in 1 .. Len(backlog)
        BY <1>10, <2>2
      <3>2. backlog[j] \in Conns /\ Made(backlog[j]) /\ backlog[j] \notin taken /\ backlog'[j] = backlog[j]
        BY <1>10, <3>1 DEF ConnInv
      <3>3. PICK z \in Conns : z = backlog[j]
        BY <3>2
      <3>4. Made(z)' /\ z = backlog'[j]
        BY <1>5, <3>2, <3>3
      <3> QED BY <3>2, <3>4 DEF Made
    <2> QED BY <2>1, <2>2
  <1>13. ASSUME NEW i \in 1 .. Len(backlog'), NEW j \in 1 .. Len(backlog'), backlog'[i] = backlog'[j]
         PROVE  i = j
    <2>1. \A k \in 1 .. Len(backlog) : backlog[k] # y
      BY <1>9 DEF ConnInv
    <2> QED BY <1>10, <1>13, <2>1 DEF ConnInv
  <1>14. taken' = taken /\ \A z \in taken : Made(z)'
    BY <1>1, <1>5 DEF ConnInv, ServerInv, svars
  <1>15. ConnInv'
    BY <1>10, <1>11, <1>12, <1>13, <1>14 DEF ConnInv
  <1> QED BY <1>5, <1>6, <1>15

\* What a step of the server leaves alone.
LEMMA ServerKeeps ==
    ASSUME IInv, UNCHANGED cvars
    PROVE  ClientInv' /\ LineInv' /\ \A x \in Conns : Made(x) => Made(x)'
  BY DEF IInv, ClientInv, LineInv, SocketOf, Made, cvars, lvars

\* Every step of the server keeps the invariant.
LEMMA ServerStep ==
    ASSUME IInv, ServerNext \/ Server_Term
    PROVE  IInv'
  <1> USE DEF IInv
  <1>a. ASSUME UNCHANGED <<cvars, backlog, taken>> PROVE ClientInv' /\ LineInv' /\ ConnInv'
    BY <1>a, ServerKeeps DEF ConnInv, Made, cvars
  <1>b. NAddr \in Nat /\ MaxFds \in Nat \ {0}
    BY AddrAssumption, LimitAssumption
  <1>1. ASSUME ServerLeaves PROVE IInv'
    <2>1. /\ spc' = "exit" /\ sfds' = 0 /\ backlog' = <<>>
          /\ UNCHANGED <<usable, cvars, srp, cur, taken, answered>>
      BY <1>1 DEF ServerLeaves
    <2>2. ServerInv'
      BY <1>b, <2>1 DEF ServerInv
    <2>3. ConnInv'
      BY <2>1, LimitAssumption DEF ConnInv, Made, cvars
    <2> QED BY <2>1, <2>2, <2>3, ServerKeeps
  <1>2. ASSUME Bind_Socket PROVE IInv'
    <2>1. ServerInv'
      BY <1>2, <1>b DEF Bind_Socket, ServerInv
    <2> QED BY <1>2, <1>a, <2>1 DEF Bind_Socket
  <1>3. ASSUME Bind_SocketFails PROVE IInv'
    <2>1. ServerInv'
      BY <1>3, <1>b DEF Bind_SocketFails, ServerInv
    <2> QED BY <1>3, <1>a, <2>1 DEF Bind_SocketFails
  <1>4. ASSUME Bind_Bind PROVE IInv'
    <2>1. ServerInv'
      BY <1>4, <1>b, FS_EmptySet DEF Bind_Bind, ServerInv
    <2> QED BY <1>4, <1>a, <2>1 DEF Bind_Bind
  <1>5. ASSUME Bind_BindFails PROVE IInv'
    <2>1. ServerInv'
      BY <1>5, <1>b DEF Bind_BindFails, ServerInv
    <2> QED BY <1>5, <1>a, <2>1 DEF Bind_BindFails
  <1>6. ASSUME Daytime_Write PROVE IInv'
    <2>1. ServerInv'
      BY <1>6 DEF Daytime_Write, ServerInv
    <2> QED BY <1>6, <1>a, <2>1 DEF Daytime_Write
  <1>7. ASSUME Daytime_Accept PROVE IInv'
    <2>1. /\ spc = "accept" /\ backlog # <<>> /\ sfds < MaxFds /\ cur' = Head(backlog)
          /\ backlog' = Tail(backlog) /\ sfds' = sfds + 1 /\ taken' = taken \cup {Head(backlog)}
          /\ spc' = "write" /\ UNCHANGED <<usable, cvars, srp, answered>>
      BY <1>7 DEF Daytime_Accept
    <2>2. /\ Len(backlog) \in Nat \ {0} /\ Head(backlog) = backlog[1] /\ backlog[1] \in Conns
          /\ backlog' \in Seq(Conns) /\ Len(backlog') = Len(backlog) - 1
          /\ \A j \in 1 .. Len(backlog) - 1 : backlog'[j] = backlog[j + 1] /\ backlog[j + 1] \in Conns
      BY <2>1 DEF ConnInv
    <2>3. Made(backlog[1]) /\ backlog[1] \notin taken
      BY <2>2 DEF ConnInv
    <2>4. IsFiniteSet(taken') /\ Cardinality(taken') = Cardinality(taken) + 1
      <3>1. IsFiniteSet(taken) /\ taken' = taken \cup {backlog[1]}
        BY <2>1, <2>2 DEF ServerInv
      <3> QED BY <2>3, <3>1, FS_AddElement, Zenon
    <2>5. Cardinality(taken) \in Nat
      BY FS_CardinalityType DEF ServerInv
    <2>6. ServerInv'
      <3>1. sfds' = 1 + Cardinality(taken') /\ sfds' \in 0 .. MaxFds
        BY <1>b, <2>1, <2>4, <2>5 DEF ServerInv
      <3> QED BY <2>1, <2>2, <2>4, <3>1 DEF ServerInv
    <2>7. \A z \in taken' : Made(z)'
      <3>1. \A z \in taken' : z \in Conns /\ Made(z)
        BY <2>1, <2>2, <2>3 DEF ConnInv, ServerInv
      <3> QED BY <2>1, <3>1, ServerKeeps
    <2>8. ASSUME NEW j \in 1 .. Len(backlog')
          PROVE  Made(backlog[j])' /\ backlog'[j] \notin taken'
      <3>1. j \in 1 .. Len(backlog) - 1 /\ j + 1 \in 1 .. Len(backlog) /\ 1 \in 1 .. Len(backlog) /\ j + 1 # 1
        BY <2>2
      <3>2. Made(backlog[j + 1]) /\ backlog[j + 1] \notin taken /\ backlog[j + 1] # backlog[1]
        BY <3>1 DEF ConnInv
      <3>3. PICK z \in Conns : z = backlog[j + 1]
        BY <2>2, <3>1
      <3>4. Made(z)' /\ z = backlog'[j]
        BY <2>1, <2>2, <3>1, <3>2, <3>3, ServerKeeps
      <3> QED BY <2>1, <2>2, <3>2, <3>3, <3>4 DEF Made
    <2>9. ASSUME NEW i \in 1 .. Len(backlog'), NEW j \in 1 .. Len(backlog'), backlog'[i] = backlog'[j]
          PROVE  i = j
      <3>1. /\ i \in 1 .. Len(backlog) - 1 /\ i + 1 \in 1 .. Len(backlog)
            /\ j \in 1 .. Len(backlog) - 1 /\ j + 1 \in 1 .. Len(backlog)
        BY <2>2
      <3>2. backlog[i + 1] = backlog[j + 1]
        BY <2>2, <2>9, <3>1
      <3>3. i + 1 = j + 1
        BY <3>1, <3>2 DEF ConnInv
      <3> QED BY <3>1, <3>3
    <2>10. Len(backlog') <= Backlog
      BY <2>2, LimitAssumption DEF ConnInv
    <2>11. ConnInv'
      BY <2>2, <2>7, <2>8, <2>9, <2>10 DEF ConnInv
    <2> QED BY <2>1, <2>6, <2>11, ServerKeeps
  <1> QED BY <1>1, <1>2, <1>3, <1>4, <1>5, <1>6, <1>7
          DEF ServerNext, Server_Term, Bind_Fails

\* Every step keeps the invariant.
LEMMA NextInv ==
    ASSUME IInv, [Next]_vars
    PROVE  IInv'
  <1> USE DEF IInv
  <1>1. CASE UNCHANGED vars
    <2>1. UNCHANGED <<usable, pc, rp, fds, alarm, round, sent, num_read, recvline, spc, srp, sfds, cur, taken,
                      answered, backlog>>
      BY <1>1 DEF vars, cvars, lvars, svars
    <2> QED BY <2>1 DEF ClientInv, SocketOf, LineInv, ServerInv, ConnInv, Made
  <1>2. ASSUME NEW c \in Clients, Connect_Connect(c) PROVE IInv'
    BY <1>2, ConnectStep
  <1>3. ASSUME NEW c \in Clients,
               (ClientNext(c) /\ ~Connect_Connect(c)) \/ Client_Again(c) \/ SignalHandler_Term(c)
        PROVE  IInv'
    <2>1. MovesOn(c) /\ LineInv' /\ UNCHANGED <<usable, svars, backlog>>
      BY <1>3, ClientMoves
    <2>2. ClientInv' /\ \A x \in Conns : Made(x) => Made(x)'
      BY <2>1, MovesOnInv
    <2>3. ServerInv'
      BY <2>1 DEF ServerInv, svars
    <2>4. UNCHANGED <<backlog, taken>>
      BY <2>1 DEF svars
    <2>5. \A j \in 1 .. Len(backlog) : backlog[j] \in Conns
      BY DEF ConnInv
    <2>6. \A j \in 1 .. Len(backlog) : Made(backlog[j])'
      <3>1. ASSUME NEW j \in 1 .. Len(backlog) PROVE Made(backlog[j])'
        <4>1. PICK z \in Conns : z = backlog[j]
          BY <2>5
        <4>2. Made(z)' /\ z = backlog'[j]
          BY <2>2, <2>4, <4>1 DEF ConnInv
        <4> QED BY <4>2 DEF Made
      <3> QED BY <3>1
    <2>7. ConnInv'
      BY <2>2, <2>4, <2>6 DEF ConnInv, ServerInv
    <2> QED BY <2>1, <2>2, <2>3, <2>7
  <1>4. ASSUME ServerNext \/ Server_Term PROVE IInv'
    BY <1>4, ServerStep
  <1> QED BY <1>1, <1>2, <1>3, <1>4 DEF Next, ClientNext, AtBounds

\* The inductive invariant holds: sockets and alarms go with the control points
\* of the clients, every connection is made once, and what a client shows is
\* what it was sent.
THEOREM Invariance == Spec => []IInv
  <1>1. IInv /\ [Next]_vars => IInv'
    BY NextInv
  <1> QED BY <1>1, InitInv, PTL DEF Spec

\* Every variable keeps its type: the loops stay within their lists of
\* addresses, the queue of connections within its limit and the line within
\* the buffer.
THEOREM TypeCorrect == Spec => []TypeOK
  <1>1. IInv => TypeOK
    BY Consequences
  <1> QED BY <1>1, Invariance, PTL

\* connect_inet_socket loses no descriptor and leaves no alarm behind, however
\* many addresses fail, and the server has no descriptors but that of its
\* listening socket and one for each connection it has ever accepted.
THEOREM NothingLostHolds == Spec => []NothingLost
  <1>1. IInv => NothingLost
    BY Consequences
  <1> QED BY <1>1, Invariance, PTL

\* The client shows the beginning of the text of the line, all of it where the
\* newline fits into the buffer too and else all but one of the characters in
\* the buffer, for every stream and every size of the buffer.
THEOREM LineShownHolds == Spec => []LineShown
  <1>1. IInv => LineShown
    BY Consequences
  <1> QED BY <1>1, Invariance, PTL

\* For every stream with a character in it, and every size of the buffer, main
\* stores its '\0' inside recvline.
THEOREM StoresInsideHolds == Spec => []StoresInside
  <1>1. IInv => StoresInside
    BY Consequences
  <1> QED BY <1>1, Invariance, PTL
=============================================================================
