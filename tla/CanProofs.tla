------------------------------ MODULE CanProofs ------------------------------
(***************************************************************************)
(* Proofs about Can, for identifiers and counters of any width, lists of   *)
(* any length and queues of any size.                                      *)
(***************************************************************************)
EXTENDS Can, TLAPS

\* The frames the receiver and the error thread may have in their queues.
Frames  == [src : {"node", "can_send"}, id : Nat, cnt : 0 .. CntLast,
            early : BOOLEAN, gap : BOOLEAN]
EFrames == [err : BOOLEAN, id : Nat, unfiltered : BOOLEAN]

\* The counter d of a telegram comes next after c, and the telegrams of
\* can_send are the frames that have one.
Follows(c, d) == d = IF c = CntLast THEN 0 ELSE c + 1
Telegram(f)   == f.src = "can_send"

\* NoGap of a queue q when s is the counter read last.
Ordered(q, s) == \A k \in 1 .. Len(q) : Telegram(q[k]) /\ ~q[k].gap =>
    /\ (\A j \in 1 .. k - 1 : ~Telegram(q[j])) => s = None \/ Follows(s, q[k].cnt)
    /\ \A j \in 1 .. k - 1 :
          Telegram(q[j]) /\ (\A i \in j + 1 .. k - 1 : ~Telegram(q[i]))
             => Follows(q[j].cnt, q[k].cnt)

\* A telegram with the counter c may follow without a gap.
Latest(q, s, c) ==
    /\ (\A j \in 1 .. Len(q) : ~Telegram(q[j])) => s = None \/ Follows(s, c)
    /\ \A j \in 1 .. Len(q) :
          Telegram(q[j]) /\ (\A i \in j + 1 .. Len(q) : ~Telegram(q[i])) => Follows(q[j].cnt, c)

-----------------------------------------------------------------------------
(* Queues of telegrams *)

\* The elements of a queue after Append and Tail.
LEMMA QueueAppend ==
    ASSUME NEW S, NEW q \in Seq(S), NEW f \in S
    PROVE  /\ Append(q, f) \in Seq(S) /\ Len(Append(q, f)) = Len(q) + 1 /\ Len(q) \in Nat
           /\ Append(q, f)[Len(q) + 1] = f
           /\ \A j \in 1 .. Len(q) : Append(q, f)[j] = q[j]
  OBVIOUS

\* The elements of a queue once the first is read.
LEMMA QueueTail ==
    ASSUME NEW S, NEW q \in Seq(S), q # <<>>
    PROVE  /\ Tail(q) \in Seq(S) /\ Len(Tail(q)) = Len(q) - 1 /\ Len(q) \in Nat \ {0}
           /\ Head(q) = q[1] /\ Head(q) \in S
           /\ \A j \in 1 .. Len(q) - 1 : Tail(q)[j] = q[j + 1]
  OBVIOUS

\* A frame of another node puts nothing out of order.
LEMMA AppendOther ==
    ASSUME NEW q \in Seq(Frames), NEW f \in Frames, ~Telegram(f), NEW s, NEW c
    PROVE  /\ Ordered(q, s) => Ordered(Append(q, f), s)
           /\ Latest(q, s, c) => Latest(Append(q, f), s, c)
  <1> DEFINE r == Append(q, f)
  <1>1. /\ Len(r) = Len(q) + 1 /\ Len(q) \in Nat /\ r[Len(q) + 1] = f
        /\ \A j \in 1 .. Len(q) : r[j] = q[j]
    BY QueueAppend
  <1> HIDE DEF r
  <1>2. ASSUME Ordered(q, s) PROVE Ordered(r, s)
    <2>1. SUFFICES ASSUME NEW k \in 1 .. Len(r), Telegram(r[k]), ~r[k].gap
                   PROVE  /\ (\A j \in 1 .. k - 1 : ~Telegram(r[j])) => s = None \/ Follows(s, r[k].cnt)
                          /\ \A j \in 1 .. k - 1 :
                                Telegram(r[j]) /\ (\A i \in j + 1 .. k - 1 : ~Telegram(r[i]))
                                   => Follows(r[j].cnt, r[k].cnt)
      BY DEF Ordered
    <2>2. k \in 1 .. Len(q) /\ \A j \in 1 .. k : r[j] = q[j]
      BY <1>1, <2>1
    <2>3. /\ (\A j \in 1 .. k - 1 : ~Telegram(q[j])) => s = None \/ Follows(s, q[k].cnt)
          /\ \A j \in 1 .. k - 1 :
                Telegram(q[j]) /\ (\A i \in j + 1 .. k - 1 : ~Telegram(q[i]))
                   => Follows(q[j].cnt, q[k].cnt)
      <3>1. r[k] = q[k]
        BY <1>1, <2>2
      <3>2. Telegram(q[k]) /\ ~q[k].gap
        BY <2>1, <3>1
      <3> QED BY <1>2, <2>2, <3>2 DEF Ordered
    <2>4. r[k] = q[k] /\ \A j \in 1 .. k - 1 : r[j] = q[j]
      BY <1>1, <2>2
    <2>5. \A j \in 1 .. k - 1 : \A i \in j + 1 .. k - 1 : r[i] = q[i]
      BY <1>1, <2>2
    <2> QED BY <2>3, <2>4, <2>5
  <1>3. ASSUME Latest(q, s, c) PROVE Latest(r, s, c)
    <2>1. ASSUME \A j \in 1 .. Len(r) : ~Telegram(r[j]) PROVE s = None \/ Follows(s, c)
      <3>1. \A j \in 1 .. Len(q) : ~Telegram(q[j])
        BY <1>1, <2>1
      <3> QED BY <1>3, <3>1 DEF Latest
    <2>2. ASSUME NEW j \in 1 .. Len(r), Telegram(r[j]), \A i \in j + 1 .. Len(r) : ~Telegram(r[i])
          PROVE  Follows(r[j].cnt, c)
      <3>1. j \in 1 .. Len(q) /\ r[j] = q[j]
        BY <1>1, <2>2
      <3>2. ASSUME NEW i \in j + 1 .. Len(q) PROVE ~Telegram(q[i])
        <4>1. i \in j + 1 .. Len(r) /\ r[i] = q[i]
          BY <1>1, <3>1
        <4> QED BY <2>2, <4>1
      <3> QED BY <1>3, <2>2, <3>1, <3>2 DEF Latest
    <2> QED BY <2>1, <2>2 DEF Latest
  <1> QED BY <1>2, <1>3 DEF r

\* A telegram follows the one before, or is marked.
LEMMA AppendTelegram ==
    ASSUME NEW q \in Seq(Frames), NEW f \in Frames, Telegram(f), NEW s, NEW d,
           Ordered(q, s), f.gap \/ Latest(q, s, f.cnt), Follows(f.cnt, d)
    PROVE  Ordered(Append(q, f), s) /\ Latest(Append(q, f), s, d)
  <1> DEFINE r == Append(q, f)
  <1>1. /\ Len(r) = Len(q) + 1 /\ Len(q) \in Nat /\ r[Len(q) + 1] = f
        /\ \A j \in 1 .. Len(q) : r[j] = q[j]
    BY QueueAppend
  <1> HIDE DEF r
  <1>2. Ordered(r, s)
    <2>1. SUFFICES ASSUME NEW k \in 1 .. Len(r), Telegram(r[k]), ~r[k].gap
                   PROVE  /\ (\A j \in 1 .. k - 1 : ~Telegram(r[j])) => s = None \/ Follows(s, r[k].cnt)
                          /\ \A j \in 1 .. k - 1 :
                                Telegram(r[j]) /\ (\A i \in j + 1 .. k - 1 : ~Telegram(r[i]))
                                   => Follows(r[j].cnt, r[k].cnt)
      BY DEF Ordered
    <2>2. \A j \in 1 .. k - 1 : r[j] = q[j] /\ j \in 1 .. Len(q)
      BY <1>1
    <2>3. \A j \in 1 .. k - 1 : \A i \in j + 1 .. k - 1 : r[i] = q[i]
      BY <1>1
    <2>4. CASE k = Len(q) + 1
      <3>1. r[k] = f /\ Latest(q, s, f.cnt) /\ k - 1 = Len(q)
        BY <1>1, <2>1, <2>4
      <3>2. /\ (\A j \in 1 .. k - 1 : ~Telegram(q[j])) => s = None \/ Follows(s, r[k].cnt)
            /\ \A j \in 1 .. k - 1 :
                  Telegram(q[j]) /\ (\A i \in j + 1 .. k - 1 : ~Telegram(q[i]))
                     => Follows(q[j].cnt, r[k].cnt)
        BY <3>1 DEF Latest
      <3> QED BY <2>2, <2>3, <3>2
    <2>5. CASE k # Len(q) + 1
      <3>1. k \in 1 .. Len(q) /\ r[k] = q[k]
        BY <1>1, <2>5
      <3>2. /\ (\A j \in 1 .. k - 1 : ~Telegram(q[j])) => s = None \/ Follows(s, q[k].cnt)
            /\ \A j \in 1 .. k - 1 :
                  Telegram(q[j]) /\ (\A i \in j + 1 .. k - 1 : ~Telegram(q[i]))
                     => Follows(q[j].cnt, q[k].cnt)
        BY <2>1, <3>1 DEF Ordered
      <3> QED BY <2>2, <2>3, <3>1, <3>2
    <2> QED BY <2>4, <2>5
  <1>3. Latest(r, s, d)
    <2>1. ASSUME NEW j \in 1 .. Len(r), Telegram(r[j]), \A i \in j + 1 .. Len(r) : ~Telegram(r[i])
          PROVE  Follows(r[j].cnt, d)
      <3>1. j = Len(q) + 1
        <4>1. CASE j # Len(q) + 1
          <5>1. Len(q) + 1 \in j + 1 .. Len(r)
            BY <1>1, <4>1
          <5> QED BY <1>1, <2>1, <5>1
        <4> QED BY <4>1
      <3> QED BY <1>1, <3>1
    <2>2. ~ \A j \in 1 .. Len(r) : ~Telegram(r[j])
      BY <1>1
    <2> QED BY <2>1, <2>2 DEF Latest
  <1> QED BY <1>2, <1>3 DEF r

\* The counter read last takes the place of the telegram that was read.
LEMMA ReadOne ==
    ASSUME NEW q \in Seq(Frames), q # <<>>, NEW s, NEW c, NEW t,
           t = IF Telegram(Head(q)) THEN Head(q).cnt ELSE s
    PROVE  /\ Ordered(q, s) => Ordered(Tail(q), t)
           /\ Latest(q, s, c) => Latest(Tail(q), t, c)
  <1> DEFINE r == Tail(q)
  <1>1. /\ Len(r) = Len(q) - 1 /\ Len(q) \in Nat \ {0} /\ Head(q) = q[1]
        /\ \A j \in 1 .. Len(r) : r[j] = q[j + 1]
    BY QueueTail
  <1> HIDE DEF r
  <1>2. ASSUME NEW m \in Nat, m <= Len(r), \A j \in 1 .. m : ~Telegram(r[j])
        PROVE  \A j \in 2 .. m + 1 : ~Telegram(q[j])
    <2>1. ASSUME NEW j \in 2 .. m + 1 PROVE ~Telegram(q[j])
      <3>1. j - 1 \in 1 .. m /\ j - 1 \in 1 .. Len(r) /\ j - 1 + 1 = j
        BY <1>1, <1>2
      <3> QED BY <1>1, <1>2, <3>1
    <2> QED BY <2>1
  <1>3. ASSUME NEW m \in Nat, m <= Len(r), NEW j \in 1 .. m,
               \A i \in j + 1 .. m : ~Telegram(r[i])
        PROVE  \A i \in j + 1 + 1 .. m + 1 : ~Telegram(q[i])
    <2>1. ASSUME NEW i \in j + 1 + 1 .. m + 1 PROVE ~Telegram(q[i])
      <3>1. i - 1 \in j + 1 .. m /\ i - 1 \in 1 .. Len(r) /\ i - 1 + 1 = i
        BY <1>1, <1>3
      <3> QED BY <1>1, <1>3, <3>1
    <2> QED BY <2>1
  <1>4. ASSUME Ordered(q, s) PROVE Ordered(r, t)
    <2>1. SUFFICES ASSUME NEW k \in 1 .. Len(r), Telegram(r[k]), ~r[k].gap
                   PROVE  /\ (\A j \in 1 .. k - 1 : ~Telegram(r[j])) => t = None \/ Follows(t, r[k].cnt)
                          /\ \A j \in 1 .. k - 1 :
                                Telegram(r[j]) /\ (\A i \in j + 1 .. k - 1 : ~Telegram(r[i]))
                                   => Follows(r[j].cnt, r[k].cnt)
      BY DEF Ordered
    <2>2. /\ k + 1 \in 1 .. Len(q) /\ r[k] = q[k + 1] /\ k - 1 \in Nat /\ k - 1 <= Len(r)
          /\ k - 1 + 1 = k /\ k + 1 - 1 = k
      BY <1>1
    <2>3. /\ (\A j \in 1 .. k : ~Telegram(q[j])) => s = None \/ Follows(s, q[k + 1].cnt)
          /\ \A j \in 1 .. k :
                Telegram(q[j]) /\ (\A i \in j + 1 .. k : ~Telegram(q[i]))
                   => Follows(q[j].cnt, q[k + 1].cnt)
      BY <1>4, <2>1, <2>2 DEF Ordered
    <2>4. ASSUME \A j \in 1 .. k - 1 : ~Telegram(r[j]) PROVE t = None \/ Follows(t, r[k].cnt)
      <3>1. \A j \in 2 .. k : ~Telegram(q[j])
        BY <1>2, <2>2, <2>4
      <3>2. CASE Telegram(q[1])
        BY <1>1, <2>2, <2>3, <3>1, <3>2
      <3>3. CASE ~Telegram(q[1])
        <4>1. \A j \in 1 .. k : ~Telegram(q[j])
          BY <3>1, <3>3
        <4> QED BY <1>1, <2>2, <2>3, <3>3, <4>1
      <3> QED BY <3>2, <3>3
    <2>5. ASSUME NEW j \in 1 .. k - 1, Telegram(r[j]), \A i \in j + 1 .. k - 1 : ~Telegram(r[i])
          PROVE  Follows(r[j].cnt, r[k].cnt)
      <3>1. \A i \in j + 1 + 1 .. k : ~Telegram(q[i])
        BY <1>3, <2>2, <2>5
      <3>2. j + 1 \in 1 .. k /\ r[j] = q[j + 1]
        BY <1>1, <2>2
      <3> QED BY <2>2, <2>3, <2>5, <3>1, <3>2
    <2> QED BY <2>4, <2>5
  <1>5. ASSUME Latest(q, s, c) PROVE Latest(r, t, c)
    <2>1. Len(r) \in Nat /\ Len(r) <= Len(r) /\ Len(r) + 1 = Len(q)
      BY <1>1
    <2>2. ASSUME \A j \in 1 .. Len(r) : ~Telegram(r[j]) PROVE t = None \/ Follows(t, c)
      <3>1. \A j \in 2 .. Len(q) : ~Telegram(q[j])
        BY <1>2, <2>1, <2>2
      <3>2. CASE Telegram(q[1])
        BY <1>1, <1>5, <3>1, <3>2 DEF Latest
      <3>3. CASE ~Telegram(q[1])
        <4>1. \A j \in 1 .. Len(q) : ~Telegram(q[j])
          BY <1>1, <3>1, <3>3
        <4> QED BY <1>1, <1>5, <3>3, <4>1 DEF Latest
      <3> QED BY <3>2, <3>3
    <2>3. ASSUME NEW j \in 1 .. Len(r), Telegram(r[j]), \A i \in j + 1 .. Len(r) : ~Telegram(r[i])
          PROVE  Follows(r[j].cnt, c)
      <3>1. \A i \in j + 1 + 1 .. Len(q) : ~Telegram(q[i])
        BY <1>3, <2>1, <2>3
      <3>2. j + 1 \in 1 .. Len(q) /\ r[j] = q[j + 1]
        BY <1>1, <2>1
      <3> QED BY <1>5, <2>3, <3>1, <3>2 DEF Latest
    <2> QED BY <2>2, <2>3 DEF Latest
  <1> QED BY <1>4, <1>5 DEF r

-----------------------------------------------------------------------------
(* The inductive invariant *)

\* What TypeOK leaves open.
TypeInv ==
    /\ TypeOK
    /\ flist \in Lists \cup {NoList} /\ addr \in Addrs /\ terminated \in BOOLEAN
    /\ rq \in Seq(Frames) /\ eq \in Seq(EFrames)

\* A filter that has been set is one of the list; before baa_set_flist none is
\* set, and every frame is tagged so.
FilterInv ==
    /\ FiltersRespected
    /\ rpc \in {"socket", "flist"} => ~filtered
    /\ rpc = "flist" => \A k \in DOMAIN rq : rq[k].early
    /\ terminated /\ flist # NoList /\ filtered =>
          \A x \in filters : \E j \in DOMAIN flist : x = Low(flist[j])

\* The receiver has a filter for the telegrams: as long as none was lost the
\* next one follows the last. Nothing is received before bind().
GapInv ==
    /\ Ordered(rq, seen)
    /\ rpc = "socket" => rq = <<>> /\ seen = None
    /\ rpc \in {"socket", "flist"} => filters = AllIds
    /\ rpc \in {"flist", "read"} /\ Low(addr) \in filters /\ ~lost => Latest(rq, seen, cnt)

\* The inductive invariant.
IInv == TypeInv /\ FilterInv /\ GapInv

\* The low bits of an identifier are those of an identifier a filter knows.
LEMMA LowRange ==
    ASSUME NEW id \in Nat
    PROVE  Low(id) \in AllIds
  <1>1. SffSize \in Nat \ {0}
    BY CanAssumption
  <1>2. (id % SffSize) \in 0 .. SffSize - 1
    BY <1>1
  <1> QED BY <1>2 DEF Low, AllIds

\* The constants are numbers.
LEMMA Sizes ==
    /\ CntLast \in Nat \ {0} /\ QLen \in Nat \ {0} /\ ErrQLen \in Nat \ {0} /\ Usable \in Nat \ {0}
    /\ None = CntLast + 1 /\ None \in Nat
    /\ BusIds \subseteq Nat /\ Addrs \subseteq Nat
  BY CanAssumption DEF None

\* An empty queue is in order.
LEMMA EmptyQueue ==
    ASSUME NEW c
    PROVE  Ordered(<<>>, None) /\ Latest(<<>>, None, c)
  BY DEF Ordered, Latest

\* NoGap is what the invariant says of the queue.
LEMMA NoGapIsOrdered ==
    ASSUME TypeInv
    PROVE  NoGap <=> Ordered(rq, seen)
  <1>1. DOMAIN rq = 1 .. Len(rq)
    BY DEF TypeInv
  <1> QED BY <1>1 DEF NoGap, Ordered, Telegram, Follows

\* The invariant holds before any program has opened a socket.
LEMMA InitInv == Init => IInv
  <1> SUFFICES ASSUME Init PROVE IInv
    OBVIOUS
  <1>1. TypeInv
    <2>1. <<>> \in Seq(Frames) /\ <<>> \in Seq(EFrames) /\ Len(<<>>) = 0
      OBVIOUS
    <2>2. 0 <= QLen /\ 0 <= ErrQLen /\ 0 \in 0 .. CntLast /\ None \in 0 .. None
      BY Sizes
    <2>3. TypeOK
      BY <2>1, <2>2 DEF Init, TypeOK
    <2> QED BY <2>1, <2>3 DEF Init, TypeInv
  <1>2. FilterInv
    BY DEF Init, FilterInv, FiltersRespected
  <1>3. GapInv
    BY EmptyQueue DEF Init, GapInv
  <1> QED BY <1>1, <1>2, <1>3 DEF IInv

-----------------------------------------------------------------------------
(* The bus *)

\* A frame joins a queue that has room for it.
LEMMA QueuedIs ==
    ASSUME NEW S, NEW q \in Seq(S), NEW f \in S, NEW max \in Nat, Len(q) <= max
    PROVE  /\ Queued(q, max, f) \in Seq(S) /\ Len(Queued(q, max, f)) <= max
           /\ \A k \in DOMAIN Queued(q, max, f) :
                 Queued(q, max, f)[k] = f \/ (k \in DOMAIN q /\ Queued(q, max, f)[k] = q[k])
  <1>1. CASE Len(q) < max
    <2>1. /\ Append(q, f) \in Seq(S) /\ Len(Append(q, f)) = Len(q) + 1 /\ Len(q) \in Nat
          /\ Append(q, f)[Len(q) + 1] = f
          /\ \A j \in 1 .. Len(q) : Append(q, f)[j] = q[j]
      BY QueueAppend
    <2>2. DOMAIN Append(q, f) = 1 .. Len(q) + 1 /\ DOMAIN q = 1 .. Len(q)
      BY <2>1
    <2>3. Queued(q, max, f) = Append(q, f)
      BY <1>1 DEF Queued
    <2> QED BY <1>1, <2>1, <2>2, <2>3
  <1>2. CASE ~(Len(q) < max)
    BY <1>2 DEF Queued
  <1> QED BY <1>1, <1>2

\* The frame Deliver puts into the queue of the receiver.
FrameOf(src, id) ==
    [src |-> src, id |-> id, cnt |-> IF src = "can_send" THEN cnt ELSE 0,
     early |-> rpc = "flist", gap |-> src = "can_send" /\ lost]
\* The same for the error thread.
EFrameOf(id) == [err |-> FALSE, id |-> id, unfiltered |-> ~efiltered]

\* The receiver has a socket and its filters let id pass.
Passes(id) == rpc \in {"flist", "read"} /\ Low(id) \in filters

\* What Deliver does to the two queues.
LEMMA DeliverIs ==
    ASSUME NEW src, NEW id, Deliver(src, id)
    PROVE  /\ rq' = IF Passes(id) THEN Queued(rq, QLen, FrameOf(src, id)) ELSE rq
           /\ lost' = IF src # "can_send" \/ ~Passes(id) THEN lost ELSE Len(rq) = QLen
           /\ eq' = IF epc \in {"filter", "mask", "read"} /\ (efiltered => Low(id) = 0)
                    THEN Queued(eq, ErrQLen, EFrameOf(id)) ELSE eq
  BY DEF Deliver, Passes, FrameOf, EFrameOf

\* A frame on the bus: types and filters.
LEMMA DeliverFilters ==
    ASSUME TypeInv, FilterInv, NEW src \in {"node", "can_send"}, NEW id \in Nat, Deliver(src, id),
           UNCHANGED <<flist, terminated, rpc, filters, filtered, dropped>>
    PROVE  /\ rq' \in Seq(Frames) /\ Len(rq') <= QLen
           /\ eq' \in Seq(EFrames) /\ Len(eq') <= ErrQLen
           /\ lost' \in BOOLEAN
           /\ FilterInv'
  <1> DEFINE f == FrameOf(src, id)
             e == EFrameOf(id)
  <1>1. f \in Frames /\ f.id = id /\ f.early = (rpc = "flist")
    BY Sizes DEF FrameOf, Frames, TypeInv, TypeOK
  <1>2. e \in EFrames /\ e.id = id /\ e.unfiltered = ~efiltered
    BY DEF EFrameOf, EFrames, TypeInv, TypeOK
  <1> HIDE DEF f, e
  <1>3. rq \in Seq(Frames) /\ eq \in Seq(EFrames) /\ Len(rq) <= QLen /\ Len(eq) <= ErrQLen
    BY DEF TypeInv, TypeOK
  <1>4. /\ rq' \in Seq(Frames) /\ Len(rq') <= QLen
        /\ \A k \in DOMAIN rq' : (rq'[k] = f /\ Passes(id)) \/ (k \in DOMAIN rq /\ rq'[k] = rq[k])
    <2>1. CASE Passes(id)
      BY <1>1, <1>3, <2>1, DeliverIs, QueuedIs, Sizes DEF f
    <2>2. CASE ~Passes(id)
      BY <1>3, <2>2, DeliverIs
    <2> QED BY <2>1, <2>2
  <1>5. /\ eq' \in Seq(EFrames) /\ Len(eq') <= ErrQLen
        /\ \A k \in DOMAIN eq' : \/ eq'[k] = e /\ (efiltered => Low(id) = 0)
                                 \/ k \in DOMAIN eq /\ eq'[k] = eq[k]
    <2>1. CASE epc \in {"filter", "mask", "read"} /\ (efiltered => Low(id) = 0)
      BY <1>2, <1>3, <2>1, DeliverIs, QueuedIs, Sizes DEF e
    <2>2. CASE ~(epc \in {"filter", "mask", "read"} /\ (efiltered => Low(id) = 0))
      BY <1>3, <2>2, DeliverIs
    <2> QED BY <2>1, <2>2
  <1>6. lost' \in BOOLEAN
    BY DeliverIs DEF TypeInv, TypeOK
  <1>7. ASSUME terminated, flist # NoList, NEW k \in DOMAIN rq'
        PROVE  rq'[k].early \/ ~filtered \/ \E j \in DOMAIN flist : Low(rq'[k].id) = Low(flist[j])
    <2>1. CASE rq'[k] = f /\ Passes(id)
      BY <1>1, <1>7, <2>1 DEF FilterInv, Passes
    <2>2. CASE k \in DOMAIN rq /\ rq'[k] = rq[k]
      BY <1>7, <2>2 DEF FilterInv, FiltersRespected
    <2> QED BY <1>4, <2>1, <2>2
  <1>8. ASSUME NEW k \in DOMAIN eq' PROVE eq'[k].err \/ eq'[k].unfiltered \/ Low(eq'[k].id) = 0
    <2>1. CASE eq'[k] = e /\ (efiltered => Low(id) = 0)
      BY <1>2, <2>1
    <2>2. CASE k \in DOMAIN eq /\ eq'[k] = eq[k]
      BY <2>2 DEF FilterInv, FiltersRespected
    <2> QED BY <1>5, <2>1, <2>2
  <1>9. FiltersRespected'
    BY <1>7, <1>8 DEF FilterInv, FiltersRespected, Low
  <1>10. rpc = "flist" => \A k \in DOMAIN rq' : rq'[k].early
    BY <1>1, <1>4 DEF FilterInv
  <1>11. FilterInv'
    BY <1>9, <1>10 DEF FilterInv, Low
  <1> QED BY <1>4, <1>5, <1>6, <1>11

-----------------------------------------------------------------------------
(* Steps *)

\* Another node sends a frame.
LEMMA BusStep ==
    ASSUME IInv, NEW id \in BusIds, Bus_Frame(id)
    PROVE  IInv'
  <1> USE DEF IInv
  <1>1. /\ Deliver("node", id) /\ id \in Nat
        /\ UNCHANGED <<flist, addr, terminated, prog, rpc, filters, filtered, dropped, seen, spc, cnt,
                       epc, efiltered, emask>>
    BY Sizes DEF Bus_Frame, input, rvars, evars
  <1>2. /\ rq' \in Seq(Frames) /\ Len(rq') <= QLen /\ eq' \in Seq(EFrames) /\ Len(eq') <= ErrQLen
        /\ lost' \in BOOLEAN /\ FilterInv'
    BY <1>1, DeliverFilters
  <1>3. TypeInv'
    BY <1>1, <1>2 DEF TypeInv, TypeOK
  <1>4. PICK f : f = FrameOf("node", id)
    OBVIOUS
  <1>5. f \in Frames /\ ~Telegram(f)
    BY <1>1, <1>4, Sizes DEF FrameOf, Frames, Telegram, TypeInv, TypeOK
  <1>6. lost' = lost /\ (rq' = rq \/ (rq' = Append(rq, f) /\ Passes(id)))
    BY <1>1, <1>4, DeliverIs DEF Queued
  <1>7. rq \in Seq(Frames)
    BY DEF TypeInv
  <1>8. Ordered(rq', seen) /\ (Latest(rq, seen, cnt) => Latest(rq', seen, cnt))
    BY <1>5, <1>6, <1>7, AppendOther DEF GapInv
  <1>9. rpc = "socket" => rq' = rq
    BY <1>6 DEF Passes
  <1>10. GapInv'
    BY <1>1, <1>6, <1>8, <1>9 DEF GapInv, Low
  <1> QED BY <1>2, <1>3, <1>10

\* The counter goes on.
LEMMA NextCntFollows ==
    ASSUME TypeInv
    PROVE  NextCnt \in 0 .. CntLast /\ Follows(cnt, NextCnt)
  BY Sizes DEF NextCnt, Follows, TypeInv, TypeOK

\* can_send sends a telegram.
LEMMA WriteStep ==
    ASSUME IInv, Send_Write
    PROVE  IInv'
  <1> USE DEF IInv
  <1>1. /\ Deliver("can_send", addr) /\ addr \in Nat /\ cnt' = NextCnt
        /\ UNCHANGED <<flist, addr, terminated, prog, rpc, filters, filtered, dropped, seen, spc,
                       epc, efiltered, emask>>
    BY Sizes DEF Send_Write, input, rvars, evars, TypeInv
  <1>2. /\ rq' \in Seq(Frames) /\ Len(rq') <= QLen /\ eq' \in Seq(EFrames) /\ Len(eq') <= ErrQLen
        /\ lost' \in BOOLEAN /\ FilterInv'
    BY <1>1, DeliverFilters
  <1>3. TypeInv'
    BY <1>1, <1>2, NextCntFollows DEF TypeInv, TypeOK
  <1>4. PICK f : f = FrameOf("can_send", addr)
    OBVIOUS
  <1>5. f \in Frames /\ Telegram(f) /\ f.cnt = cnt /\ f.gap = lost
    BY <1>1, <1>4 DEF FrameOf, Frames, Telegram, TypeInv, TypeOK
  <1>6. rq \in Seq(Frames) /\ Len(rq) <= QLen /\ lost \in BOOLEAN /\ Len(rq) \in Nat
    BY DEF TypeInv, TypeOK
  <1>7. CASE ~Passes(addr)
    <2>1. rq' = rq /\ lost' = lost
      BY <1>1, <1>7, DeliverIs
    <2> QED BY <1>1, <1>2, <1>3, <1>7, <2>1 DEF GapInv, Passes, Low
  <1>8. CASE Passes(addr) /\ Len(rq) = QLen
    <2>1. ~(Len(rq) < QLen)
      BY <1>6, <1>8, Sizes
    <2>2. rq' = rq
      BY <1>1, <1>8, <2>1, DeliverIs DEF Queued
    <2>3. lost'
      BY <1>1, <1>8, DeliverIs
    <2> QED BY <1>1, <1>2, <1>3, <2>2, <2>3 DEF GapInv
  <1>9. CASE Passes(addr) /\ Len(rq) # QLen
    <2>1. rq' = Append(rq, f)
      BY <1>1, <1>4, <1>6, <1>9, DeliverIs, Sizes DEF Queued
    <2>2. f.gap \/ Latest(rq, seen, f.cnt)
      BY <1>5, <1>6, <1>9 DEF GapInv, Passes
    <2>3. Ordered(rq, seen) /\ Follows(f.cnt, NextCnt)
      BY <1>5, NextCntFollows DEF GapInv
    <2>4. PICK d : d = NextCnt
      OBVIOUS
    <2>5. Ordered(rq', seen) /\ Latest(rq', seen, d)
      BY <1>5, <1>6, <2>1, <2>2, <2>3, <2>4, AppendTelegram
    <2>6. rpc # "socket"
      BY <1>9 DEF Passes
    <2> QED BY <1>1, <1>2, <1>3, <2>4, <2>5, <2>6 DEF GapInv, Low
  <1> QED BY <1>7, <1>8, <1>9

\* A telegram is lost behind write(): the next one is marked, or the receiver
\* does not get it.
LEMMA LostStep ==
    ASSUME IInv, Send_Lost
    PROVE  IInv'
  <1> USE DEF IInv
  <1>1. /\ cnt' = NextCnt /\ lost' = (lost \/ Passes(addr))
        /\ UNCHANGED <<flist, addr, terminated, prog, rpc, filters, filtered, dropped, seen, spc,
                       epc, efiltered, emask, rq, eq>>
    BY DEF Send_Lost, Passes, input, rvars, evars
  <1>2. TypeInv'
    BY <1>1, NextCntFollows DEF TypeInv, TypeOK
  <1>3. FilterInv'
    BY <1>1 DEF FilterInv, FiltersRespected, Low
  <1>4. GapInv'
    BY <1>1 DEF GapInv, Passes, Low
  <1> QED BY <1>2, <1>3, <1>4

\* The receiver reads a frame.
LEMMA ReadStep ==
    ASSUME IInv, Recv_Read
    PROVE  IInv'
  <1> USE DEF IInv
  <1>1. /\ rpc = "read" /\ rq # <<>> /\ rq' = Tail(rq)
        /\ seen' = IF Head(rq).src = "can_send" THEN Head(rq).cnt ELSE seen
        /\ UNCHANGED <<flist, addr, terminated, prog, rpc, filters, filtered, dropped, lost, spc, cnt,
                       epc, efiltered, emask, eq>>
    BY DEF Recv_Read, input, evars
  <1>2. rq \in Seq(Frames) /\ Len(rq) <= QLen /\ QLen \in Nat
    BY Sizes DEF TypeInv, TypeOK
  <1>3. /\ rq' \in Seq(Frames) /\ Len(rq') = Len(rq) - 1 /\ Len(rq) \in Nat \ {0}
        /\ Head(rq) = rq[1] /\ Head(rq) \in Frames
        /\ \A j \in 1 .. Len(rq) - 1 : rq'[j] = rq[j + 1]
    BY <1>1, <1>2, QueueTail
  <1>4. seen' \in 0 .. None /\ Len(rq') <= QLen
    BY <1>1, <1>2, <1>3, Sizes DEF Frames, TypeInv, TypeOK
  <1>5. TypeInv'
    BY <1>1, <1>3, <1>4 DEF TypeInv, TypeOK
  <1>6. \A k \in DOMAIN rq' : \E m \in DOMAIN rq : rq'[k] = rq[m]
    <2>1. DOMAIN rq' = 1 .. Len(rq) - 1 /\ DOMAIN rq = 1 .. Len(rq)
      BY <1>2, <1>3
    <2>2. ASSUME NEW k \in 1 .. Len(rq) - 1 PROVE k + 1 \in 1 .. Len(rq) /\ rq'[k] = rq[k + 1]
      BY <1>3
    <2> QED BY <2>1, <2>2
  <1>7. FilterInv'
    <2>1. ASSUME terminated, flist # NoList, NEW k \in DOMAIN rq'
          PROVE  rq'[k].early \/ ~filtered \/ \E j \in DOMAIN flist : Low(rq'[k].id) = Low(flist[j])
      BY <1>6, <2>1 DEF FilterInv, FiltersRespected
    <2> QED BY <1>1, <2>1 DEF FilterInv, FiltersRespected, Low
  <1>8. PICK t : t = seen'
    OBVIOUS
  <1>9. t = IF Telegram(Head(rq)) THEN Head(rq).cnt ELSE seen
    BY <1>1, <1>8 DEF Telegram
  <1>10. /\ Ordered(rq, seen) => Ordered(Tail(rq), t)
         /\ Latest(rq, seen, cnt) => Latest(Tail(rq), t, cnt)
    BY <1>1, <1>2, <1>9, ReadOne
  <1>11. Ordered(rq', seen') /\ (Latest(rq, seen, cnt) => Latest(rq', seen', cnt))
    BY <1>1, <1>8, <1>10 DEF GapInv
  <1>12. GapInv'
    BY <1>1, <1>11 DEF GapInv, Low
  <1> QED BY <1>5, <1>7, <1>12

\* A queue is dropped with its socket.
LEMMA DropErrors ==
    ASSUME IInv, NEW mine, ThreadEnds(mine)
    PROVE  /\ eq' \in Seq(EFrames) /\ Len(eq') <= ErrQLen /\ (eq' = eq \/ eq' = <<>>)
           /\ epc' \in {"socket", "filter", "mask", "read", "done"}
  BY Sizes DEF IInv, TypeInv, TypeOK, ThreadEnds

\* can_recv ends with its socket and what was in its queue.
LEMMA RecvExitsStep ==
    ASSUME IInv, RecvExits
    PROVE  IInv'
  <1> USE DEF IInv
  <1>1. /\ rpc' = "exit" /\ rq' = <<>> /\ lost' = FALSE /\ seen' = None
        /\ ThreadEnds(prog = "can_recv")
        /\ UNCHANGED <<flist, addr, terminated, prog, filters, filtered, dropped, spc, cnt, efiltered, emask>>
    BY DEF RecvExits, input
  <1>2. /\ eq' \in Seq(EFrames) /\ Len(eq') <= ErrQLen /\ (eq' = eq \/ eq' = <<>>)
        /\ epc' \in {"socket", "filter", "mask", "read", "done"}
    BY <1>1, DropErrors
  <1>3. <<>> \in Seq(Frames) /\ Len(<<>>) = 0 /\ 0 <= QLen /\ None \in 0 .. None
    BY Sizes
  <1>4. TypeInv'
    BY <1>1, <1>2, <1>3 DEF TypeInv, TypeOK
  <1>5. FilterInv'
    BY <1>1, <1>2 DEF FilterInv, FiltersRespected, Low
  <1>6. GapInv'
    BY <1>1, EmptyQueue DEF GapInv
  <1> QED BY <1>4, <1>5, <1>6

\* The filters of the list are set, or not.
LEMMA FlistStep ==
    ASSUME IInv, baa_set_flist \/ SetFlist_Nothing
    PROVE  IInv'
  <1> USE DEF IInv
  <1>1. /\ rpc = "flist" /\ rpc' = "read"
        /\ UNCHANGED <<flist, addr, terminated, prog, rq, lost, seen, spc, cnt, epc, efiltered,
                       emask, eq>>
    BY DEF baa_set_flist, SetFlist_Nothing, input, evars
  <1>2. Ordered(rq', seen') /\ (Low(addr) \in filters' /\ ~lost => Latest(rq', seen', cnt'))
    <2>1. addr \in Nat
      BY Sizes DEF TypeInv
    <2>2. Low(addr) \in filters
      BY <1>1, <2>1, LowRange DEF GapInv
    <2> QED BY <1>1, <2>2 DEF GapInv
  <1>3. GapInv'
    BY <1>1, <1>2 DEF GapInv, Low
  <1>4. CASE SetFlist_Nothing
    <2>1. UNCHANGED <<filters, filtered, dropped>>
      BY <1>4 DEF SetFlist_Nothing
    <2> QED BY <1>1, <1>3, <2>1 DEF TypeInv, TypeOK, FilterInv, FiltersRespected, Low
  <1>5. CASE baa_set_flist
    <2>0. PICK tokens \in Tokens : \E stored \in SUBSET DOMAIN tokens :
              filters' = {Low(tokens[k]) : k \in stored} /\ dropped' = DOMAIN tokens \ stored
      BY <1>5 DEF baa_set_flist
    <2>1. PICK stored \in SUBSET DOMAIN tokens :
              filters' = {Low(tokens[k]) : k \in stored} /\ dropped' = DOMAIN tokens \ stored
      BY <2>0
    <2>2. filtered' = TRUE /\ flist # NoList
      BY <1>5 DEF baa_set_flist
    <2>3. \A k \in DOMAIN tokens : tokens[k] \in Nat
      <3>1. CASE terminated
        <4>1. tokens = flist /\ flist \in Seq(Nat)
          BY <2>1, <2>2, <3>1, CanAssumption DEF Tokens, TypeInv
        <4> QED BY <4>1
      <3>2. CASE ~terminated
        <4>1. tokens \in BoundedSeq(BusIds, Usable + 1)
          BY <2>1, <3>2 DEF Tokens
        <4>2. PICK m \in 0 .. Usable + 1 : tokens \in [1 .. m -> BusIds]
          BY <4>1 DEF BoundedSeq, SeqOf
        <4> QED BY <4>2, Sizes
      <3> QED BY <3>1, <3>2
    <2>4. filters' \subseteq AllIds
      BY <2>1, <2>3, LowRange
    <2>5. TypeInv'
      BY <1>1, <2>2, <2>4 DEF TypeInv, TypeOK
    <2>6. ASSUME terminated, NEW x \in filters' PROVE \E j \in DOMAIN flist : x = Low(flist[j])
      <3>1. tokens = flist
        BY <2>1, <2>6 DEF Tokens
      <3> QED BY <2>1, <2>6, <3>1
    <2>7. ASSUME terminated, NEW j \in DOMAIN flist \ dropped' PROVE Low(flist[j]) \in filters'
      <3>1. tokens = flist
        BY <2>1, <2>7 DEF Tokens
      <3> QED BY <2>1, <2>7, <3>1
    <2>8. ASSUME terminated, NEW k \in DOMAIN rq PROVE rq[k].early
      BY <1>1, <2>2, <2>8 DEF FilterInv
    <2>9. FilterInv'
      BY <1>1, <2>2, <2>6, <2>7, <2>8 DEF FilterInv, FiltersRespected, Low
    <2> QED BY <1>3, <2>5, <2>9
  <1> QED BY <1>4, <1>5

\* The steps that touch neither the receiver's queue nor its filters.
LEMMA OtherStep ==
    ASSUME IInv,
           UNCHANGED <<flist, addr, terminated, filters, filtered, dropped, rq, lost, seen, cnt>>,
           rpc' = rpc \/ (rpc = "socket" /\ rpc' = "flist"),
           spc' \in {"socket", "write", "pause", "exit"},
           epc' \in {"socket", "filter", "mask", "read", "done"},
           efiltered' \in BOOLEAN, emask' \in BOOLEAN,
           eq' \in Seq(EFrames), Len(eq') <= ErrQLen,
           \A k \in DOMAIN eq' : eq'[k].err \/ eq'[k].unfiltered \/ Low(eq'[k].id) = 0
    PROVE  IInv'
  <1> USE DEF IInv
  <1>1. TypeInv'
    BY DEF TypeInv, TypeOK
  <1>2. FilterInv'
    <2>1. FiltersRespected'
      BY DEF FilterInv, FiltersRespected, Low
    <2>2. rpc' = "flist" => \A k \in DOMAIN rq' : rq'[k].early
      BY DEF FilterInv, GapInv
    <2> QED BY <2>1, <2>2 DEF FilterInv, Low
  <1>3. Latest(<<>>, None, cnt)
    BY EmptyQueue
  <1>4. GapInv'
    BY <1>3 DEF GapInv, Low
  <1> QED BY <1>1, <1>2, <1>4

\* Every step keeps the invariant.
LEMMA NextInv ==
    ASSUME IInv, [Next]_vars
    PROVE  IInv'
  <1>1. ASSUME NEW id \in BusIds, Bus_Frame(id) PROVE IInv'
    BY <1>1, BusStep
  <1>2. CASE Send_Write \/ Send_Lost
    BY <1>2, WriteStep, LostStep
  <1>3. CASE Recv_Read
    BY <1>3, ReadStep
  <1>4. CASE Recv_SocketFails \/ SetFlist_Aborts \/ Recv_Term
    BY <1>4, RecvExitsStep DEF Recv_SocketFails, SetFlist_Aborts, Recv_Term
  <1>5. CASE baa_set_flist \/ SetFlist_Nothing
    BY <1>5, FlistStep
  <1> USE DEF input, rvars, evars
  <1>6. /\ spc \in {"socket", "write", "pause", "exit"}
        /\ epc \in {"socket", "filter", "mask", "read", "done"}
        /\ efiltered \in BOOLEAN /\ emask \in BOOLEAN
        /\ eq \in Seq(EFrames) /\ Len(eq) <= ErrQLen
        /\ \A k \in DOMAIN eq : eq[k].err \/ eq[k].unfiltered \/ Low(eq[k].id) = 0
    BY DEF IInv, TypeInv, TypeOK, FilterInv, FiltersRespected
  <1>7. CASE Recv_Socket
    BY <1>6, <1>7, OtherStep DEF Recv_Socket
  <1>8. CASE Send_Socket \/ Send_WriteFails \/ Send_Pause
    BY <1>6, <1>8, OtherStep DEF Send_Socket, Send_WriteFails, Send_Pause
  <1>9. CASE Error_Socket \/ Error_Filter \/ baa_set_hw_error_mask
    BY <1>6, <1>9, OtherStep DEF Error_Socket, Error_Filter, baa_set_hw_error_mask
  <1>10. CASE UNCHANGED vars
    BY <1>6, <1>10, OtherStep DEF vars
  <1>11. CASE SendExits \/ Error_Returns
    <2>1. /\ eq' \in Seq(EFrames) /\ Len(eq') <= ErrQLen /\ (eq' = eq \/ eq' = <<>>)
          /\ epc' \in {"socket", "filter", "mask", "read", "done"}
      BY <1>11, DropErrors DEF SendExits, Error_Returns
    <2>2. \A k \in DOMAIN eq' : eq'[k].err \/ eq'[k].unfiltered \/ Low(eq'[k].id) = 0
      BY <1>6, <2>1
    <2> QED BY <1>6, <1>11, <2>1, <2>2, OtherStep DEF SendExits, Error_Returns
  <1>12. CASE Bus_Error
    <2> DEFINE e == [err |-> TRUE, id |-> 0, unfiltered |-> FALSE]
    <2>1. e \in EFrames /\ e.err
      BY DEF EFrames
    <2>2. eq' = Queued(eq, ErrQLen, e)
      BY <1>12 DEF Bus_Error
    <2> HIDE DEF e
    <2>3. /\ eq' \in Seq(EFrames) /\ Len(eq') <= ErrQLen
          /\ \A k \in DOMAIN eq' : eq'[k] = e \/ (k \in DOMAIN eq /\ eq'[k] = eq[k])
      BY <1>6, <2>1, <2>2, QueuedIs, Sizes
    <2>4. \A k \in DOMAIN eq' : eq'[k].err \/ eq'[k].unfiltered \/ Low(eq'[k].id) = 0
      BY <1>6, <2>1, <2>3
    <2> QED BY <1>6, <1>12, <2>3, <2>4, OtherStep DEF Bus_Error
  <1>13. CASE Error_Read
    <2>1. eq # <<>> /\ eq' = Tail(eq)
      BY <1>13 DEF Error_Read
    <2>2. /\ eq' \in Seq(EFrames) /\ Len(eq') = Len(eq) - 1 /\ Len(eq) \in Nat \ {0}
          /\ \A j \in 1 .. Len(eq) - 1 : eq'[j] = eq[j + 1]
      BY <1>6, <2>1, QueueTail
    <2>3. Len(eq') <= ErrQLen
      BY <1>6, <2>2, Sizes
    <2>4. ASSUME NEW k \in DOMAIN eq' PROVE eq'[k].err \/ eq'[k].unfiltered \/ Low(eq'[k].id) = 0
      <3>1. k \in 1 .. Len(eq) - 1 /\ k + 1 \in DOMAIN eq
        BY <1>6, <2>2
      <3>2. eq'[k] = eq[k + 1]
        BY <2>2, <3>1
      <3> QED BY <1>6, <3>1, <3>2
    <2> QED BY <1>6, <1>13, <2>2, <2>3, <2>4, OtherStep DEF Error_Read
  <1> QED BY <1>1, <1>2, <1>3, <1>4, <1>5, <1>7, <1>8, <1>9, <1>10, <1>11, <1>12, <1>13
          DEF Next, Send_SocketFails, Send_Term

\* The inductive invariant holds: filters come from the list, and as long as no
\* telegram was lost the next one follows the last in the queue.
THEOREM Invariance == Spec => []IInv
  <1>1. IInv /\ [Next]_vars => IInv'
    BY NextInv
  <1> QED BY <1>1, InitInv, PTL DEF Spec

\* Every variable keeps its type; the counter of the telegram never takes the
\* value after CntLast (0xff), and no queue holds more than it can.
THEOREM TypeCorrect == Spec => []TypeOK
  <1>1. IInv => TypeOK
    BY DEF IInv, TypeInv
  <1> QED BY <1>1, Invariance, PTL

\* For every list, when the delimiter is terminated in memory: can_recv gets the
\* frames of its list, but those realloc() failed for, and no others but those
\* from before its filters or after a setsockopt() that failed. For either
\* program: the data frames print_error_frames gets, which it calls impossible,
\* are those from before or without its filter and those with the low bits 0.
THEOREM FiltersRespectedHolds == Spec => []FiltersRespected
  <1>1. IInv => FiltersRespected
    BY DEF IInv, FilterInv
  <1> QED BY <1>1, Invariance, PTL

\* The receiver sees the telegrams in order and without a gap, unless its queue
\* was full or a frame got lost behind write(); for a counter and queues of any size.
THEOREM NoGapHolds == Spec => []NoGap
  <1>1. IInv => NoGap
    BY NoGapIsOrdered DEF IInv, GapInv
  <1> QED BY <1>1, Invariance, PTL
=============================================================================
