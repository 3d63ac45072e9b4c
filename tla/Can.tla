-------------------------------- MODULE Can --------------------------------
(***************************************************************************)
(* Raw CAN sockets: src/can_lin.c, as examples/can_recv.c (the receiver)   *)
(* and examples/can_send.c (a cyclic telegram) use it. Each program has a  *)
(* main thread with a socket of its own and a thread print_error_frames    *)
(* with another. Of these threads one is modelled, of either program: they *)
(* have nothing to do with each other. A socket receives every frame of    *)
(* the bus from bind() on, until its filters are set; a frame that meets a *)
(* full queue is lost.                                                     *)
(*                                                                         *)
(* All filters have the mask CAN_SFF_MASK: only the low 11 bits of an      *)
(* identifier count. Error frames pass no such filter; they go to sockets  *)
(* with an error mask.                                                     *)
(***************************************************************************)
EXTENDS Naturals, SequencesExt

CONSTANTS
    SffSize,   \* number of standard identifiers (2^11)
    BusIds,    \* identifiers other nodes use, standard and extended
    Addrs,     \* possible -a of can_send
    Lists,     \* possible -f of can_recv, sequences of identifiers
    NoList,    \* no -f at all
    Usable,    \* filters that fit into what realloc() returns for one
    CntLast,   \* last value of the telegram's counter (0xfe)
    QLen,      \* frames a receive queue holds
    ErrQLen    \* the same, for the sockets of print_error_frames

ASSUME CanAssumption ==
    /\ {SffSize, Usable, CntLast, QLen, ErrQLen} \subseteq Nat \ {0}
    /\ BusIds \subseteq Nat /\ Addrs \subseteq Nat \ {0}
    /\ Lists \subseteq Seq(Nat)

VARIABLES
    flist,     \* -f of can_recv
    addr,      \* -a of can_send
    terminated,\* TRUE: a zero byte happens to follow the delimiter in memory
    rpc,       \* control point of the receiver's main thread
    filters,   \* low bits of the identifiers its socket receives
    filtered,  \* TRUE iff its filters have been set
    dropped,   \* history: the tokens of its list that realloc() failed for
    rq,        \* its receive queue
    lost,      \* history: a telegram has been lost since the last in rq
    seen,      \* counter of the last telegram it has read, or None
    spc,       \* control point of the sender's main thread
    cnt,       \* frame.data[1]
    prog,      \* program the thread print_error_frames belongs to
    epc,       \* control point of that thread
    efiltered, \* TRUE iff its filter has been set
    emask,     \* TRUE iff its error mask has been set
    eq         \* its receive queue

rvars == <<rpc, filters, filtered, dropped, seen>>
evars == <<epc, efiltered, emask>>
input == <<flist, addr, terminated, prog>>
vars  == <<input, rvars, rq, lost, spc, cnt, evars, eq>>

Low(id)  == id % SffSize
AllIds   == 0 .. SffSize - 1
None     == CntLast + 1

Init ==
    /\ flist \in Lists \cup {NoList}
    /\ addr \in Addrs
    /\ terminated \in BOOLEAN
    /\ rpc = "socket" /\ filters = AllIds /\ filtered = FALSE /\ dropped = {}
    /\ rq = <<>> /\ lost = FALSE /\ seen = None
    /\ spc = "socket" /\ cnt = 0
    /\ prog \in {"can_recv", "can_send"}
    /\ epc = "socket" /\ efiltered = FALSE /\ emask = FALSE /\ eq = <<>>

-----------------------------------------------------------------------------
(* The bus *)

\* The queue of a socket after a frame it wants, if it has room.
Queued(q, max, f) == IF Len(q) < max THEN Append(q, f) ELSE q

\* A frame of a node, "node" or "can_send", reaches all sockets but the one it
\* was sent by. A frame is tagged with what is to be known of its arrival.
Deliver(src, id) ==
    LET passes == rpc \in {"flist", "read"} /\ Low(id) \in filters
        frame  == [src |-> src, id |-> id, cnt |-> IF src = "can_send" THEN cnt ELSE 0,
                   early |-> rpc = "flist", gap |-> src = "can_send" /\ lost]
    IN  /\ rq' = IF passes THEN Queued(rq, QLen, frame) ELSE rq
        /\ lost' = IF src # "can_send" \/ ~passes THEN lost ELSE Len(rq) = QLen
        /\ eq' = IF epc \in {"filter", "mask", "read"} /\ (efiltered => Low(id) = 0)
                 THEN Queued(eq, ErrQLen, [err |-> FALSE, id |-> id, unfiltered |-> ~efiltered])
                 ELSE eq

Bus_Frame(id) ==
    /\ Deliver("node", id)
    /\ UNCHANGED <<input, rvars, spc, cnt, evars>>

\* The controller reports a hardware error.
Bus_Error ==
    /\ emask /\ epc = "read"
    /\ eq' = Queued(eq, ErrQLen, [err |-> TRUE, id |-> 0, unfiltered |-> FALSE])
    /\ UNCHANGED <<input, rvars, rq, lost, spc, cnt, evars>>

-----------------------------------------------------------------------------
(* can_recv *)

\* The thread print_error_frames ends, if its process does.
ThreadEnds(mine) ==
    /\ epc' = IF mine THEN "done" ELSE epc
    /\ eq' = IF mine THEN <<>> ELSE eq

\* A process that ends takes both its threads and sockets along.
RecvExits ==
    /\ rpc' = "exit"
    /\ rq' = <<>> /\ lost' = FALSE /\ seen' = None
    /\ ThreadEnds(prog = "can_recv")
    /\ UNCHANGED <<input, filters, filtered, dropped, spc, cnt, efiltered, emask>>

\* can_socket: the socket is bound and receives from now on.
Recv_Socket ==
    /\ rpc = "socket"
    /\ rpc' = "flist"
    /\ UNCHANGED <<input, filters, filtered, dropped, rq, lost, seen, spc, cnt, evars, eq>>

\* Any of its calls fails: exit().
Recv_SocketFails == rpc = "socket" /\ RecvExits

\* What strtok_r() makes of the list. Its delimiters are not a string: unless
\* the byte behind ',' is zero, other characters may separate as well.
Tokens == IF terminated THEN {flist} ELSE BoundedSeq(BusIds, Usable + 1)

\* Mutant: the index of the filter is not counted up, each overwrites the last.
Mut_FlistLastOnly ==
    /\ rpc = "flist"
    /\ flist # NoList
    /\ \E tokens \in Tokens : \E stored \in SUBSET DOMAIN tokens :
          /\ filters' = {Low(tokens[k]) : k \in {j \in stored : \A i \in stored : i <= j}}
          /\ dropped' = DOMAIN tokens \ stored
    /\ filtered' = TRUE
    /\ rpc' = "read"
    /\ UNCHANGED <<input, rq, lost, seen, spc, cnt, evars, eq>>

\* baa_set_flist: a filter for each token, but for those realloc() failed for.
\* Without any filter nothing is received. Each realloc() asks for one filter
\* only, so the second and later filters may lie behind the allocation. As the
\* size does not change the block is not moved, and nothing else is allocated
\* from the write of a filter to setsockopt(), which reads what was written;
\* what the writes can damage is the heap: see the next action.
baa_set_flist ==
    /\ rpc = "flist"
    /\ flist # NoList
    /\ \E tokens \in Tokens : \E stored \in SUBSET DOMAIN tokens :
          /\ filters' = {Low(tokens[k]) : k \in stored}
          /\ dropped' = DOMAIN tokens \ stored
    /\ filtered' = TRUE
    /\ rpc' = "read"
    /\ UNCHANGED <<input, rq, lost, seen, spc, cnt, evars, eq>>

\* The heap is found to be damaged, and the process is ended.
SetFlist_Aborts ==
    /\ rpc = "flist"
    /\ flist # NoList
    /\ \E tokens \in Tokens : Len(tokens) > Usable
    /\ RecvExits

\* No list is no error; a failure of setsockopt() is only reported.
SetFlist_Nothing ==
    /\ rpc = "flist"
    /\ rpc' = "read"
    /\ UNCHANGED <<input, filters, filtered, dropped, rq, lost, seen, spc, cnt, evars, eq>>

\* One turn of the loop of recv_frame_raw, which prints the frame.
Recv_Read ==
    /\ rpc = "read"
    /\ rq # <<>>
    /\ rq' = Tail(rq)
    /\ seen' = IF Head(rq).src = "can_send" THEN Head(rq).cnt ELSE seen
    /\ UNCHANGED <<input, rpc, filters, filtered, dropped, lost, spc, cnt, evars, eq>>

\* SIGTERM reaches the thread signal_handler.
Recv_Term == rpc # "exit" /\ RecvExits

-----------------------------------------------------------------------------
(* can_send *)

SendExits ==
    /\ spc' = "exit"
    /\ ThreadEnds(prog = "can_send")
    /\ UNCHANGED <<input, rvars, rq, lost, cnt, efiltered, emask>>

Send_Socket ==
    /\ spc = "socket"
    /\ spc' = "write"
    /\ UNCHANGED <<input, rvars, rq, lost, cnt, evars, eq>>

Send_SocketFails == spc = "socket" /\ SendExits

\* Mutant: the counter is not set back.
Mut_NoWrap == cnt + 1

\* frame.data[1] of the next telegram.
NextCnt == IF cnt = CntLast THEN 0 ELSE cnt + 1

\* write() succeeds, the counter goes on, and clock_nanosleep() follows.
Send_Write ==
    /\ spc = "write"
    /\ Deliver("can_send", addr)
    /\ cnt' = NextCnt
    /\ UNCHANGED <<input, rvars, spc, evars>>

\* write() only puts the frame into the transmit queue of the interface. One
\* that leaves the queue later is one that is written later: the queue keeps
\* the order, and nobody can tell. This one never leaves it (bus off, interface
\* down), and the counter has gone on.
Send_Lost ==
    /\ spc = "write"
    /\ cnt' = NextCnt
    /\ lost' = (lost \/ (rpc \in {"flist", "read"} /\ Low(addr) \in filters))
    /\ UNCHANGED <<input, rvars, rq, spc, evars, eq>>

\* Mutant: the counter goes on before the result of write() is looked at.
Mut_CountFirst ==
    /\ spc = "write"
    /\ spc' = "pause"
    /\ cnt' = NextCnt
    /\ UNCHANGED <<input, rvars, rq, lost, evars, eq>>

\* It fails: sleep(4), and the same frame again.
Send_WriteFails ==
    /\ spc = "write"
    /\ spc' = "pause"
    /\ UNCHANGED <<input, rvars, rq, lost, cnt, evars, eq>>

Send_Pause ==
    /\ spc = "pause"
    /\ spc' = "write"
    /\ UNCHANGED <<input, rvars, rq, lost, cnt, evars, eq>>

Send_Term == spc # "exit" /\ SendExits

-----------------------------------------------------------------------------
(* The thread print_error_frames *)

Error_Socket ==
    /\ epc = "socket"
    /\ epc' = "filter"
    /\ UNCHANGED <<input, rvars, rq, lost, spc, cnt, efiltered, emask, eq>>

\* The filter for identifier 0; can_send does not look at the result.
Error_Filter ==
    /\ epc = "filter"
    /\ efiltered' = TRUE \/ (efiltered' = FALSE /\ prog = "can_send")
    /\ epc' = "mask"
    /\ UNCHANGED <<input, rvars, rq, lost, spc, cnt, emask, eq>>

baa_set_hw_error_mask ==
    /\ epc = "mask"
    /\ emask' = TRUE
    /\ epc' = "read"
    /\ UNCHANGED <<input, rvars, rq, lost, spc, cnt, efiltered, eq>>

\* A call fails and the thread returns; nobody reads its socket any more.
Error_Returns ==
    /\ epc \in {"socket", "mask"} \/ (epc = "filter" /\ prog = "can_recv")
    /\ ThreadEnds(TRUE)
    /\ UNCHANGED <<input, rvars, rq, lost, spc, cnt, efiltered, emask>>

\* Prints an error frame, or "should never see that!".
Error_Read ==
    /\ epc = "read"
    /\ eq # <<>>
    /\ eq' = Tail(eq)
    /\ UNCHANGED <<input, rvars, rq, lost, spc, cnt, evars>>

-----------------------------------------------------------------------------
Next ==
    \/ \E id \in BusIds : Bus_Frame(id)
    \/ Bus_Error
    \/ Recv_Socket \/ Recv_SocketFails
    \/ baa_set_flist \/ SetFlist_Aborts \/ SetFlist_Nothing
    \/ Recv_Read \/ Recv_Term
    \/ Send_Socket \/ Send_SocketFails
    \/ Send_Write \/ Send_Lost \/ Send_WriteFails \/ Send_Pause \/ Send_Term
    \/ Error_Socket \/ Error_Filter \/ baa_set_hw_error_mask
    \/ Error_Returns \/ Error_Read

Spec == Init /\ [][Next]_vars

-----------------------------------------------------------------------------
(* Properties *)

\* Type invariant; the counter never takes the value 0xff.
TypeOK ==
    /\ rpc \in {"socket", "flist", "read", "exit"}
    /\ filters \subseteq AllIds /\ filtered \in BOOLEAN
    /\ Len(rq) <= QLen
    /\ lost \in BOOLEAN
    /\ seen \in 0 .. None
    /\ spc \in {"socket", "write", "pause", "exit"}
    /\ cnt \in 0 .. CntLast
    /\ epc \in {"socket", "filter", "mask", "read", "done"}
    /\ efiltered \in BOOLEAN /\ emask \in BOOLEAN
    /\ Len(eq) <= ErrQLen

\* With -f (and a terminated delimiter) can_recv prints the identifiers of the
\* list, all of them and only them, up to the bits above CAN_SFF_MASK. Only: a
\* frame in the queue came before baa_set_flist, or setsockopt() has failed, or
\* its low bits are those of the list. All: once set, the filters let every
\* identifier pass but those realloc() failed for, each on its own.
\* print_error_frames prints "should never see that!" for a data frame. It does
\* see some, and these only: frames from before or without its filter, and
\* those with the low bits 0.
FiltersRespected ==
    /\ terminated /\ flist # NoList =>
          /\ \A k \in DOMAIN rq :
                \/ rq[k].early \/ ~filtered
                \/ \E j \in DOMAIN flist : Low(rq[k].id) = Low(flist[j])
          /\ filtered => \A j \in DOMAIN flist \ dropped : Low(flist[j]) \in filters
    /\ \A k \in DOMAIN eq : eq[k].err \/ eq[k].unfiltered \/ Low(eq[k].id) = 0

\* The receiver sees the telegrams in order and without a gap, over failed
\* writes, the wrap of the counter and the change of its filters; one is
\* missing only if its queue was full or the frame got lost behind write().
NoGap ==
    LET Telegram(k)   == rq[k].src = "can_send"
        Follows(c, d) == d = IF c = CntLast THEN 0 ELSE c + 1
    IN  \A k \in DOMAIN rq : Telegram(k) /\ ~rq[k].gap =>
           /\ (\A j \in 1 .. k - 1 : ~Telegram(j)) => seen = None \/ Follows(seen, rq[k].cnt)
           /\ \A j \in 1 .. k - 1 :
                 Telegram(j) /\ (\A i \in j + 1 .. k - 1 : ~Telegram(i))
                    => Follows(rq[j].cnt, rq[k].cnt)

=============================================================================
