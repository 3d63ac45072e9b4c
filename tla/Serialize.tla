----------------------------- MODULE Serialize -----------------------------
(***************************************************************************)
(* src/serialize.c: baa_pack and baa_unpack. A byte has Radix values (256  *)
(* in C), a short is two bytes long and an int four. A long has the four   *)
(* bytes of an int or, on an LP64 build, eight; 'l' and 'L' transmit the   *)
(* low four and store a whole long.                                        *)
(*                                                                         *)
(* Formats consist of the letters the functions know: for any other they   *)
(* print a message and go on.                                              *)
(***************************************************************************)
EXTENDS Integers, Sequences

CONSTANT Radix   \* values of a byte
ASSUME RadixAssumption == Radix \in Nat /\ Radix > 1 /\ Radix % 2 = 0

Letters == {"c", "C", "s", "S", "l", "L"}

\* Bytes a letter takes on the wire.
Size(ch) == CASE ch \in {"c", "C"} -> 1
              [] ch \in {"s", "S"} -> 2
              [] ch \in {"l", "L"} -> 4

\* The number of values of two and of four bytes, and of the type of a letter.
Radix2 == Radix * Radix
Radix4 == Radix2 * Radix2
Values(ch) == CASE ch \in {"c", "C"} -> Radix
                [] ch \in {"s", "S"} -> Radix2
                [] ch \in {"l", "L"} -> Radix4

\* Values that fit the type of a letter.
Fitting(ch) == LET n == Values(ch)
               IN  IF ch \in {"c", "s", "l"} THEN 0 .. n - 1
                                             ELSE -(n \div 2) .. n \div 2 - 1

-----------------------------------------------------------------------------
(* Integers and bytes, the most significant first *)

pack_8(i)  == <<i % Radix>>
pack_16(i) == <<(i \div Radix) % Radix, i % Radix>>
pack_32(i) == <<(i \div (Radix2 * Radix)) % Radix, (i \div Radix2) % Radix,
                (i \div Radix) % Radix, i % Radix>>

unpack_16(b) == b[1] * Radix + b[2]
unpack_32(b) == b[1] * Radix2 * Radix + b[2] * Radix2 + b[3] * Radix + b[4]

\* The unsigned number tmp read as a signed one, max being the largest.
Signed(tmp, max) == IF tmp <= max \div 2 THEN tmp ELSE -1 - (max - tmp)

unpack_i8(b)  == Signed(b[1], Radix - 1)
unpack_i16(b) == Signed(unpack_16(b), Radix2 - 1)
unpack_i32(b) == Signed(unpack_32(b), Radix4 - 1)

\* One turn of the loop of baa_pack.
Packed(ch, i) == CASE ch \in {"c", "C"} -> pack_8(i)
                   [] ch \in {"s", "S"} -> pack_16(i)
                   [] ch \in {"l", "L"} -> pack_32(i)

\* One turn of the loop of baa_unpack.
Unpacked(ch, b) == CASE ch = "c" -> b[1]
                     [] ch = "C" -> unpack_i8(b)
                     [] ch = "s" -> unpack_16(b)
                     [] ch = "S" -> unpack_i16(b)
                     [] ch = "l" -> unpack_32(b)
                     [] ch = "L" -> unpack_i32(b)

-----------------------------------------------------------------------------
(* Messages and memory *)

\* The message for the values args, and the bytes before its k-th field.
baa_pack(fmt, args) ==
    LET msg[k \in 0 .. Len(fmt)] ==
            IF k = 0 THEN <<>> ELSE msg[k - 1] \o Packed(fmt[k], args[k])
    IN  msg[Len(fmt)]

Offset(fmt, k) ==
    LET off[n \in 0 .. Len(fmt)] ==
            IF n = 0 THEN 0 ELSE off[n - 1] + Size(fmt[n])
    IN  off[k - 1]

\* A store through the pointer of a letter. Memory is a function on words of
\* the size of an int. A long of an LP64 build covers the next word as well,
\* with the sign (little endian).
Store(mem, ch, word, i, lp64) ==
    IF lp64 /\ ch \in {"l", "L"}
    THEN [mem EXCEPT ![word] = Signed(i % Radix4, Radix4 - 1),
                     ![word + 1] = IF i < 0 THEN -1 ELSE 0]
    ELSE [mem EXCEPT ![word] = i]

\* The memory after the fields of buf have been stored to the words of addr,
\* one after the other.
baa_unpack(mem, buf, fmt, addr, lp64) ==
    LET after[k \in 0 .. Len(fmt)] ==
            IF k = 0 THEN mem
            ELSE LET o == Offset(fmt, k)
                     b == SubSeq(buf, o + 1, o + Size(fmt[k]))
                 IN  Store(after[k - 1], fmt[k], addr[k], Unpacked(fmt[k], b), lp64)
    IN  after[Len(fmt)]

-----------------------------------------------------------------------------
\* What is packed is unpacked again, up to both ends of every type; a value
\* outside of it is reduced to its low bytes, as a C conversion would do.
RoundTrip == \A ch \in Letters :
    \A i \in Fitting(ch), wrap \in {-1, 0, 1} :
        Unpacked(ch, Packed(ch, i + wrap * Values(ch))) = i
=============================================================================
