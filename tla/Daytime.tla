------------------------------ MODULE Daytime ------------------------------
(***************************************************************************)
(* The inet stream sockets of src/network.c with the daytime service:      *)
(* bind_inet_socket, baa_inet_stream_server and baa_daytime_server_th, as  *)
(* examples/inet_daytime_server.c uses them; connect_inet_socket and       *)
(* baa_read_line (src/helper.c), as examples/inet_daytime_client.c does.   *)
(*                                                                         *)
(* A client connects, reads one line, closes, sleeps and starts again. The *)
(* server never closes a connection. Both address loops count the          *)
(* addresses by rp and use the first of them, result, each time.           *)
(***************************************************************************)
EXTENDS Integers, FiniteSets, SequencesExt

CONSTANTS
    Clients,     \* client processes
    NAddr,       \* addresses getaddrinfo finds
    Backlog,     \* connections listen() keeps waiting
    MaxFds,      \* descriptors the server process may have
    MaxLine,     \* BAA_MAXLINE: size baa_read_line is given
    Streams,     \* what a daytime server may send before it closes
    MaxRounds    \* bound: connections a client makes

ASSUME AddrAssumption  == NAddr \in Nat \ {0}
ASSUME LimitAssumption == Backlog \in Nat \ {0} /\ MaxFds \in Nat \ {0}
ASSUME LineAssumption  == MaxLine \in Nat /\ MaxLine > 1 /\ Streams \subseteq Seq(STRING)
ASSUME BoundAssumption == MaxRounds \in Nat \ {0}

VARIABLES
    usable,     \* the addresses of the server its clients can connect to
    pc,         \* control point of a client
    rp,         \* position in its list of addresses
    fds,        \* number of its open sockets
    alarm,      \* TRUE iff its alarm timer is set and handle_alarm installed
    round,      \* number of its current connection
    sent,       \* history: what it was sent on that connection
    num_read,   \* what baa_read_line returned for it
    recvline,   \* the line it has read and shown
    spc,        \* control point of the server
    srp,        \* its position in its list of addresses
    sfds,       \* number of its open sockets
    backlog,    \* connections that wait for accept()
    cur,        \* the connection it has accepted last
    taken,      \* history: the connections it has accepted
    answered    \* connections on which it has written the line

lvars == <<sent, num_read, recvline>>
cvars == <<pc, rp, fds, alarm, round, lvars>>
svars == <<spc, srp, sfds, cur, taken, answered>>
vars  == <<usable, cvars, svars, backlog>>

Conns   == Clients \X (1 .. MaxRounds)
Conn(c) == <<c, round[c]>>

Init ==
    /\ usable \in SUBSET (1 .. NAddr)
    /\ pc = [c \in Clients |-> "call"]
    /\ rp = [c \in Clients |-> 1]
    /\ fds = [c \in Clients |-> 0]
    /\ alarm = [c \in Clients |-> FALSE]
    /\ round = [c \in Clients |-> 1]
    /\ sent = [c \in Clients |-> <<>>]
    /\ num_read = [c \in Clients |-> -1]
    /\ recvline = [c \in Clients |-> <<>>]
    /\ spc = "socket"
    /\ srp = 1
    /\ sfds = 0
    /\ backlog = <<>>
    /\ cur \in Conns
    /\ taken = {}
    /\ answered = {}

-----------------------------------------------------------------------------
(* The client *)

\* A process that ends gives back all it has.
Leave(c) ==
    /\ pc' = [pc EXCEPT ![c] = "exit"]
    /\ fds' = [fds EXCEPT ![c] = 0]
    /\ alarm' = [alarm EXCEPT ![c] = FALSE]
    /\ UNCHANGED <<usable, rp, round, lvars, svars, backlog>>

\* baa_signal() for SIGALRM, with the alarm() that goes along with it.
baa_signal(c, mine) == alarm' = [alarm EXCEPT ![c] = mine]

\* connect_inet_socket: getaddrinfo(), baa_signal() and alarm().
Connect_Resolve(c) ==
    /\ pc[c] = "call"
    /\ rp' = [rp EXCEPT ![c] = 1]
    /\ baa_signal(c, TRUE)
    /\ pc' = [pc EXCEPT ![c] = "socket"]
    /\ UNCHANGED <<usable, fds, round, lvars, svars, backlog>>

\* getaddrinfo() fails, -1 is returned, and main leaves.
Connect_ResolveFails(c) == pc[c] = "call" /\ Leave(c)

\* The loop goes on with the next address, or ends.
NextAddress(c) ==
    /\ rp' = [rp EXCEPT ![c] = @ + 1]
    /\ pc' = [pc EXCEPT ![c] = IF rp[c] < NAddr THEN "socket" ELSE "return"]

Connect_Socket(c) ==
    /\ pc[c] = "socket"
    /\ fds' = [fds EXCEPT ![c] = @ + 1]
    /\ pc' = [pc EXCEPT ![c] = "connect"]
    /\ UNCHANGED <<usable, rp, alarm, round, lvars, svars, backlog>>

Connect_SocketFails(c) ==
    /\ pc[c] = "socket"
    /\ NextAddress(c)
    /\ UNCHANGED <<usable, fds, alarm, round, lvars, svars, backlog>>

\* connect() to result; the connection waits in the server's queue.
Connect_Connect(c) ==
    /\ pc[c] = "connect"
    /\ 1 \in usable
    /\ spc \in {"accept", "write"}
    /\ Len(backlog) < Backlog
    /\ backlog' = Append(backlog, Conn(c))
    /\ pc' = [pc EXCEPT ![c] = "return"]
    /\ UNCHANGED <<usable, rp, fds, alarm, round, lvars, svars>>

\* Mutant: the socket is not closed before the next one is made.
Mut_ConnectKeepsSocket(c) ==
    /\ pc[c] = "connect"
    /\ NextAddress(c)
    /\ UNCHANGED <<usable, fds, alarm, round, lvars, svars, backlog>>

\* Mutant: the loop counts one address too many.
Mut_OneAddressMore(c) ==
    /\ pc[c] = "connect"
    /\ fds' = [fds EXCEPT ![c] = @ - 1]
    /\ rp' = [rp EXCEPT ![c] = @ + 1]
    /\ pc' = [pc EXCEPT ![c] = IF rp[c] <= NAddr THEN "socket" ELSE "return"]
    /\ UNCHANGED <<usable, alarm, round, lvars, svars, backlog>>

\* Mutant: the address is tried until it can be reached.
Mut_ConnectForEver(c) ==
    /\ pc[c] = "connect"
    /\ fds' = [fds EXCEPT ![c] = @ - 1]
    /\ pc' = [pc EXCEPT ![c] = "socket"]
    /\ UNCHANGED <<usable, rp, alarm, round, lvars, svars, backlog>>

\* It is refused, or times out: the socket is closed.
Connect_ConnectFails(c) ==
    /\ pc[c] = "connect"
    /\ fds' = [fds EXCEPT ![c] = @ - 1]
    /\ NextAddress(c)
    /\ UNCHANGED <<usable, alarm, round, lvars, svars, backlog>>

\* The alarm and the handler are as before; rp tells if there is a socket.
Connect_Return(c) ==
    /\ pc[c] = "return"
    /\ rp[c] <= NAddr
    /\ baa_signal(c, FALSE)
    /\ pc' = [pc EXCEPT ![c] = "read"]
    /\ UNCHANGED <<usable, rp, fds, round, lvars, svars, backlog>>

\* -1 is returned, and main leaves by usage().
Connect_ReturnFails(c) == pc[c] = "return" /\ rp[c] > NAddr /\ Leave(c)

\* read() calls of baa_read_line: one for each character up to the newline, or
\* up to the end of file.
Reads(s) == LET newlines == {k \in DOMAIN s : s[k] = "NL"}
            IN  IF newlines = {} THEN Len(s) + 1 ELSE Min(newlines)

\* What is in ch after the k-th of them: at the end of file what was in it before.
Ch(s, k) == s[IF k <= Len(s) THEN k ELSE Len(s)]

\* Mutant: a line that does not fit is stored all the same.
Mut_FilledUnlimited(s, n) == [k \in 1 .. Reads(s) |-> Ch(s, k)]

\* Mutant: ch is not kept at the end of file, and nothing is stored for it.
Mut_FilledOnce(s, n) == SubSeq(s, 1, Min({Reads(s), Len(s), n - 1}))

\* The buffer of n bytes after all of them, if there was a character. The last
\* one of a file without newline is stored once more; what does not fit is
\* dropped.
Filled(s, n) ==
    LET buf[k \in 0 .. Reads(s)] ==
            IF k = 0 THEN <<>>
            ELSE IF Len(buf[k - 1]) < n - 1 THEN Append(buf[k - 1], Ch(s, k)) ELSE buf[k - 1]
    IN  buf[Reads(s)]

BAA_FILE_EMPTY == -2

\* What baa_read_line returns.
baa_read_line(s, n) == IF s = <<>> THEN BAA_FILE_EMPTY ELSE Len(Filled(s, n))

\* main goes on: close() and sleep().
CloseAndSleep(c) ==
    /\ fds' = [fds EXCEPT ![c] = @ - 1]
    /\ pc' = [pc EXCEPT ![c] = "sleep"]
    /\ UNCHANGED <<usable, rp, alarm, round, svars, backlog>>

\* What baa_read_line returned is not -1. main stores '\0' at num_read - 1,
\* "eliminate NEWLINE", and shows the line. The peer may be any daytime server:
\* its line may be longer than the buffer, or end with the connection.
ReadLine_Line(c) ==
    /\ pc[c] = "read"
    /\ Conn(c) \in answered
    /\ \E s \in Streams \ {<<>>} :
          /\ sent' = [sent EXCEPT ![c] = s]
          /\ num_read' = [num_read EXCEPT ![c] = baa_read_line(s, MaxLine)]
          /\ recvline' = [recvline EXCEPT ![c] =
                             SubSeq(Filled(s, MaxLine), 1, baa_read_line(s, MaxLine) - 1)]
    /\ CloseAndSleep(c)

\* The connection ends, and nothing was sent before. main takes BAA_FILE_EMPTY
\* for a number of bytes too and clears recvline[-3], a byte of another local:
\* it goes on, or it crashes, now or when that local is used (one of the steps
\* by which a client leaves). recvline is as memset() has left it.
ReadLine_Empty(c) ==
    /\ pc[c] = "read"
    /\ \/ spc = "exit" /\ Conn(c) \notin answered
       \/ Conn(c) \in answered /\ <<>> \in Streams
    /\ num_read' = [num_read EXCEPT ![c] = baa_read_line(<<>>, MaxLine)]
    /\ sent' = [sent EXCEPT ![c] = <<>>]
    /\ recvline' = [recvline EXCEPT ![c] = <<>>]
    /\ CloseAndSleep(c)

\* The receive timeout expires, or the connection is reset: baa_error_exit.
ReadLine_Fails(c) == pc[c] = "read" /\ Leave(c)

\* memset() of recvline. num_read, which is not used before it is set again, is
\* reset with it.
Client_Again(c) ==
    /\ pc[c] = "sleep"
    /\ round[c] < MaxRounds
    /\ round' = [round EXCEPT ![c] = @ + 1]
    /\ sent' = [sent EXCEPT ![c] = <<>>]
    /\ num_read' = [num_read EXCEPT ![c] = -1]
    /\ recvline' = [recvline EXCEPT ![c] = <<>>]
    /\ pc' = [pc EXCEPT ![c] = "call"]
    /\ UNCHANGED <<usable, rp, fds, alarm, svars, backlog>>

\* SIGTERM reaches the thread signal_handler, which calls exit().
SignalHandler_Term(c) == pc[c] # "exit" /\ Leave(c)

-----------------------------------------------------------------------------
(* The server *)

\* exit() of the server resets the connections that wait.
ServerLeaves ==
    /\ spc' = "exit"
    /\ sfds' = 0
    /\ backlog' = <<>>
    /\ UNCHANGED <<usable, cvars, srp, cur, taken, answered>>

\* bind_inet_socket: socket() and setsockopt() in its loop.
Bind_Socket ==
    /\ spc = "socket"
    /\ srp <= NAddr
    /\ sfds < MaxFds
    /\ sfds' = sfds + 1
    /\ spc' = "bind"
    /\ UNCHANGED <<usable, cvars, srp, backlog, cur, taken, answered>>

Bind_SocketFails ==
    /\ spc = "socket"
    /\ srp <= NAddr
    /\ srp' = srp + 1
    /\ UNCHANGED <<usable, cvars, spc, sfds, backlog, cur, taken, answered>>

\* getaddrinfo() finds nothing, no address is left, or setsockopt(), listen()
\* or pthread_create() has failed: main leaves.
Bind_Fails ==
    /\ \/ spc = "socket" /\ srp \in {1, NAddr + 1}
       \/ spc = "bind"
    /\ ServerLeaves

\* bind() to result, and listen() by baa_inet_stream_server.
Bind_Bind ==
    /\ spc = "bind"
    /\ spc' = "accept"
    /\ UNCHANGED <<usable, cvars, srp, sfds, backlog, cur, taken, answered>>

\* "close only if bind fails!"
Bind_BindFails ==
    /\ spc = "bind"
    /\ sfds' = sfds - 1
    /\ srp' = srp + 1
    /\ spc' = "socket"
    /\ UNCHANGED <<usable, cvars, backlog, cur, taken, answered>>

\* baa_daytime_server_th. accept() fails as long as no descriptor is free,
\* and is tried again at once.
Daytime_Accept ==
    /\ spc = "accept"
    /\ backlog # <<>>
    /\ sfds < MaxFds
    /\ cur' = Head(backlog)
    /\ backlog' = Tail(backlog)
    /\ sfds' = sfds + 1
    /\ taken' = taken \cup {Head(backlog)}
    /\ spc' = "write"
    /\ UNCHANGED <<usable, cvars, srp, answered>>

\* Mutant: the thread waits until a client that is gone takes the line.
Mut_WriteWaits ==
    /\ spc = "write"
    /\ Conn(cur[1]) = cur
    /\ pc[cur[1]] \in {"return", "read"}
    /\ answered' = answered \cup {cur}
    /\ spc' = "accept"
    /\ UNCHANGED <<usable, cvars, srp, sfds, backlog, cur, taken>>

\* write(). A client that has closed its socket is an error that is logged
\* only: all signals are blocked. The connection stays open.
Daytime_Write ==
    /\ spc = "write"
    /\ answered' = answered \cup {cur}
    /\ spc' = "accept"
    /\ UNCHANGED <<usable, cvars, srp, sfds, backlog, cur, taken>>

Server_Term == spc # "exit" /\ ServerLeaves

-----------------------------------------------------------------------------
ClientNext(c) ==
    \/ Connect_Resolve(c) \/ Connect_ResolveFails(c)
    \/ Connect_Socket(c)  \/ Connect_SocketFails(c)
    \/ Connect_Connect(c) \/ Connect_ConnectFails(c)
    \/ Connect_Return(c)  \/ Connect_ReturnFails(c)
    \/ ReadLine_Line(c) \/ ReadLine_Empty(c) \/ ReadLine_Fails(c)

ServerNext ==
    \/ Bind_Socket \/ Bind_SocketFails
    \/ Bind_Bind   \/ Bind_BindFails \/ Bind_Fails
    \/ Daytime_Accept \/ Daytime_Write

\* Nothing is left to do within the bounds.
AtBounds == /\ \A c \in Clients : pc[c] = "exit"
            /\ UNCHANGED vars

Next ==
    \/ \E c \in Clients : ClientNext(c) \/ Client_Again(c) \/ SignalHandler_Term(c)
    \/ ServerNext
    \/ Server_Term
    \/ AtBounds

Spec == Init /\ [][Next]_vars

\* The processes are run, and their timeouts expire.
FairSpec == Spec /\ WF_vars(ServerNext) /\ \A c \in Clients : WF_vars(ClientNext(c))

-----------------------------------------------------------------------------
(* Properties *)

\* Type invariant; the loops stay within their lists of addresses.
TypeOK ==
    /\ usable \subseteq 1 .. NAddr
    /\ pc \in [Clients -> {"call", "socket", "connect", "return", "read", "sleep", "exit"}]
    /\ rp \in [Clients -> 1 .. NAddr + 1]
    /\ \A c \in Clients : pc[c] \in {"socket", "connect"} => rp[c] <= NAddr
    /\ fds \in [Clients -> Nat]
    /\ alarm \in [Clients -> BOOLEAN]
    /\ round \in [Clients -> 1 .. MaxRounds]
    /\ \A c \in Clients : sent[c] \in Streams \cup {<<>>}
    /\ num_read \in [Clients -> Int]
    /\ \A c \in Clients : Len(recvline[c]) < MaxLine
    /\ spc \in {"socket", "bind", "accept", "write", "exit"}
    /\ srp \in 1 .. NAddr + 1
    /\ sfds \in 0 .. MaxFds
    /\ backlog \in Seq(Conns) /\ Len(backlog) <= Backlog
    /\ cur \in Conns
    /\ taken \subseteq Conns /\ answered \subseteq Conns

\* No descriptor and no alarm is lost. However many addresses fail, a client
\* has a socket only while it uses one; the alarm and its handler are those of
\* the application outside of the call, so that no later read() is interrupted
\* by a late connect timeout; and the server has no more than its listening
\* socket and one for each connection it has ever accepted.
NothingLost ==
    /\ \A c \in Clients :
          /\ fds[c] = IF \/ pc[c] = "connect"
                         \/ pc[c] \in {"return", "read"} /\ rp[c] <= NAddr
                      THEN 1 ELSE 0
          /\ alarm[c] => pc[c] \in {"socket", "connect", "return"}
    /\ spc \in {"accept", "write"} => sfds <= 1 + Cardinality(taken)

\* The text of a line: all before its newline.
Text(s) == LET newlines == {k \in DOMAIN s : s[k] = "NL"}
           IN  IF newlines = {} THEN s ELSE SubSeq(s, 1, Min(newlines) - 1)

\* main shows nothing but the text, from its first character: that the last
\* character of a file without newline is stored twice and that main cuts off
\* whatever is last make up for one another, and nothing is left behind by the
\* line before. A text that leaves room for its newline in the buffer of
\* MaxLine - 1 characters is shown in full; of a longer one at most one
\* character that was in the buffer is lost. (That one is lost indeed: what
\* main calls "eliminate NEWLINE" does not look at what it eliminates.)
LineShown == \A c \in Clients :
    pc[c] = "sleep" =>
        LET text == Text(sent[c])
        IN  /\ IsPrefix(recvline[c], text)
            /\ Len(text) + 1 <= MaxLine - 1 => recvline[c] = text
            /\ Len(text) > MaxLine - 2 => Len(recvline[c]) >= MaxLine - 2

\* main's '\0' goes into recvline, an array of MaxLine + 1 bytes, for every
\* stream but one: that of a peer that closes without having sent anything.
StoresInside == \A c \in Clients :
    pc[c] = "sleep" /\ num_read[c] - 1 \notin 0 .. MaxLine => sent[c] = <<>>

\* Every call of connect_inet_socket returns.
ConnectReturns == \A c \in Clients :
    (pc[c] = "socket") ~> (pc[c] \in {"read", "exit"})

\* A connection that waits is answered, whatever other clients do to theirs,
\* as long as the server runs and has descriptors left.
Answered == \A x \in Conns :
    (\E j \in DOMAIN backlog : backlog[j] = x)
        ~> (x \in answered \/ spc = "exit" \/ sfds = MaxFds)

=============================================================================
