--------------------------- MODULE SerializeProofs ---------------------------
(***************************************************************************)
(* Proofs about Serialize: the bytes of a number are the digits of its low *)
(* part, from which it is found again, for bytes of any even radix. C has  *)
(* the radix 256.                                                          *)
(***************************************************************************)
EXTENDS Serialize, TLAPS

\* The number of values of one, two and four bytes is even.
LEMMA Radixes ==
    /\ Radix \in Nat /\ Radix > 1 /\ Radix % 2 = 0
    /\ Radix2 \in Nat /\ Radix2 > 1 /\ Radix2 % 2 = 0
    /\ Radix4 \in Nat /\ Radix4 > 1 /\ Radix4 % 2 = 0
  <1>1. ASSUME NEW n \in Nat, n > 1, n % 2 = 0
        PROVE  n * n \in Nat /\ n * n > 1 /\ (n * n) % 2 = 0
    <2>1. PICK h \in Nat : n = 2 * h
      BY <1>1
    <2>2. n * n = 2 * (h * n) /\ h * n \in Nat
      BY <2>1
    <2>3. n * n >= n
      BY <1>1
    <2> QED BY <1>1, <2>2, <2>3
  <1>2. Radix2 \in Nat /\ Radix2 > 1 /\ Radix2 % 2 = 0
    BY <1>1, RadixAssumption DEF Radix2
  <1> QED BY <1>1, <1>2, RadixAssumption DEF Radix4

\* Quotient and remainder.
LEMMA Division ==
    ASSUME NEW n \in Nat \ {0}, NEW q \in Int, NEW r \in 0 .. n - 1
    PROVE  (q * n + r) \div n = q /\ (q * n + r) % n = r
  OBVIOUS

\* A number is made of its quotient and its remainder, whatever its sign.
LEMMA Divided ==
    ASSUME NEW n \in Nat \ {0}, NEW i \in Int
    PROVE  /\ i \div n \in Int /\ i % n \in 0 .. n - 1
           /\ i = (i \div n) * n + (i % n)
  OBVIOUS

\* Two divisions are one by the product, and the remainders are the digits of
\* its remainder.
LEMMA DividedTwice ==
    ASSUME NEW n \in Nat \ {0}, NEW m \in Nat \ {0}, NEW i \in Int
    PROVE  /\ i \div (n * m) = (i \div n) \div m
           /\ i % (n * m) = ((i \div n) % m) * n + (i % n)
  <1> DEFINE q == (i \div n) \div m
             d == (i \div n) % m
             r == i % n
  <1>1. i \div n \in Int /\ r \in 0 .. n - 1 /\ i = (i \div n) * n + r
    BY Divided
  <1>2. q \in Int /\ d \in 0 .. m - 1 /\ i \div n = q * m + d
    BY <1>1, Divided
  <1> HIDE DEF q, d, r
  <1>3. i = q * (n * m) + (d * n + r)
    BY <1>1, <1>2
  <1>4. d * n + r \in 0 .. n * m - 1
    <2>1. d * n >= 0 /\ d * n + r \in Int
      BY <1>1, <1>2
    <2>2. (m - 1 - d) * n >= 0
      BY <1>1, <1>2
    <2>3. d * n + r <= n * m - 1
      BY <1>1, <1>2, <2>2
    <2>4. \A a, b \in Int : a >= 0 /\ b >= 0 => a + b >= 0
      OBVIOUS
    <2>5. d * n \in Int /\ r \in Int /\ r >= 0 /\ n * m - 1 \in Int
      BY <1>1, <1>2
    <2>6. d * n + r >= 0
      BY <2>1, <2>4, <2>5, Zenon
    <2> QED BY <2>1, <2>3, <2>5, <2>6
  <1>5. n * m \in Nat \ {0}
    OBVIOUS
  <1>6. i \div (n * m) = q /\ i % (n * m) = d * n + r
    <2>1. \A k \in Nat \ {0} : \A s \in 0 .. k - 1 :
             (q * k + s) \div k = q /\ (q * k + s) % k = s
      BY <1>2, Division
    <2> QED BY <1>3, <1>4, <1>5, <2>1, Zenon
  <1> QED BY <1>6 DEF q, d, r

\* The bytes of an integer are the digits of its low part.
LEMMA Pack16 ==
    ASSUME NEW i \in Int
    PROVE  unpack_16(pack_16(i)) = i % Radix2
  <1>1. Radix \in Nat \ {0}
    BY Radixes
  <1>2. i % Radix2 = ((i \div Radix) % Radix) * Radix + (i % Radix)
    BY <1>1, DividedTwice, Zenon DEF Radix2
  <1> QED BY <1>2 DEF unpack_16, pack_16

\* The same for four bytes.
LEMMA Pack32 ==
    ASSUME NEW i \in Int
    PROVE  unpack_32(pack_32(i)) = i % Radix4
  <1> DEFINE lo == i % Radix2
             hi == (i \div Radix2) % Radix2
  <1>0. Radix \in Nat \ {0} /\ Radix2 \in Nat \ {0}
    BY Radixes
  <1>1. lo = ((i \div Radix) % Radix) * Radix + (i % Radix)
    BY <1>0, DividedTwice, Zenon DEF Radix2
  <1>2. i \div Radix2 \in Int /\ i \div (Radix2 * Radix) = (i \div Radix2) \div Radix
    BY <1>0, DividedTwice, Divided, Zenon
  <1>3. hi = (((i \div Radix2) \div Radix) % Radix) * Radix + ((i \div Radix2) % Radix)
    <2>1. \A j \in Int : j % (Radix * Radix) = ((j \div Radix) % Radix) * Radix + (j % Radix)
      BY <1>0, DividedTwice, Zenon
    <2> QED BY <1>2, <2>1, Zenon DEF Radix2
  <1>4. i % Radix4 = hi * Radix2 + lo
    BY <1>0, DividedTwice, Zenon DEF Radix4
  <1> DEFINE b1 == (i \div (Radix2 * Radix)) % Radix
             b2 == (i \div Radix2) % Radix
             b3 == (i \div Radix) % Radix
             b4 == i % Radix
  <1>5. b1 \in Int /\ b2 \in Int /\ b3 \in Int /\ b4 \in Int
    BY <1>2, Radixes, Divided
  <1>6. unpack_32(pack_32(i)) = b1 * Radix2 * Radix + b2 * Radix2 + b3 * Radix + b4
    BY DEF unpack_32, pack_32
  <1>7. i % Radix4 = (b1 * Radix + b2) * Radix2 + (b3 * Radix + b4)
    BY <1>1, <1>2, <1>3, <1>4, Zenon
  <1> HIDE DEF b1, b2, b3, b4
  <1>8. b1 * Radix2 * Radix + b2 * Radix2 + b3 * Radix + b4
            = (b1 * Radix + b2) * Radix2 + (b3 * Radix + b4)
    BY <1>5, Radixes
  <1> QED BY <1>6, <1>7, <1>8, Zenon

\* A signed number is found again from its low part.
LEMMA SignedLow ==
    ASSUME NEW n \in Nat, n > 1, n % 2 = 0, NEW i \in -(n \div 2) .. n \div 2 - 1,
           NEW w \in Int
    PROVE  Signed((i + w * n) % n, n - 1) = i
  <1>1. PICK h \in Nat : n = 2 * h
    OBVIOUS
  <1>2. n \div 2 = h /\ (n - 1) \div 2 = h - 1 /\ h > 0
    BY <1>1
  <1>3. CASE i >= 0
    <2>1. i \in 0 .. n - 1 /\ n \in Nat \ {0}
      BY <1>1, <1>2, <1>3
    <2>2. (w * n + i) % n = i
      BY <2>1, Division, Zenon
    <2>3. w * n + i = i + w * n
      OBVIOUS
    <2>4. (i + w * n) % n = i
      BY <2>2, <2>3, Zenon
    <2> QED BY <1>2, <1>3, <2>4 DEF Signed
  <1>4. CASE i < 0
    <2>0. i + n \in 0 .. n - 1 /\ w - 1 \in Int /\ n \in Nat \ {0}
      BY <1>1, <1>2, <1>4
    <2>1. ((w - 1) * n + (i + n)) % n = i + n
      BY <2>0, Division, Zenon
    <2>2. (w - 1) * n + (i + n) = i + w * n
      OBVIOUS
    <2>3. i + n > h - 1
      BY <1>1, <1>2
    <2> QED BY <1>2, <2>1, <2>2, <2>3 DEF Signed
  <1> QED BY <1>3, <1>4

\* baa_unpack reads a number of every type as baa_pack wrote it, negative
\* numbers and numbers that were passed with another sign included.
THEOREM PackThenUnpack == RoundTrip
  <1> SUFFICES ASSUME NEW ch \in Letters, NEW i \in Fitting(ch), NEW wrap \in {-1, 0, 1}
               PROVE  Unpacked(ch, Packed(ch, i + wrap * Values(ch))) = i
    BY DEF RoundTrip
  <1> DEFINE n == Values(ch)
             x == i + wrap * n
  <1>1. n \in Nat /\ n > 1 /\ n % 2 = 0
    BY Radixes DEF Letters, Values
  <1>2. i \in Int /\ x \in Int /\ wrap \in Int
    BY <1>1 DEF Fitting
  <1>3. /\ ch \in {"c", "C"} => Packed(ch, x)[1] = x % n
        /\ ch \in {"s", "S"} => unpack_16(Packed(ch, x)) = x % n
        /\ ch \in {"l", "L"} => unpack_32(Packed(ch, x)) = x % n
    <2>1. CASE ch \in {"c", "C"}
      BY <2>1 DEF Packed, Values, pack_8
    <2>2. CASE ch \in {"s", "S"}
      BY <1>2, <2>2, Pack16 DEF Packed, Values
    <2>3. CASE ch \in {"l", "L"}
      BY <1>2, <2>3, Pack32 DEF Packed, Values
    <2> QED BY <2>1, <2>2, <2>3 DEF Letters
  <1>4. CASE ch \in {"c", "s", "l"}
    <2>1. i \in 0 .. n - 1
      BY <1>4 DEF Fitting
    <2>2. n \in Nat \ {0} /\ x = wrap * n + i
      BY <1>1, <1>2
    <2>3. (wrap * n + i) % n = i
      BY <1>2, <2>1, <2>2, Division, Zenon
    <2>4. x % n = i
      BY <2>2, <2>3, Zenon
    <2> QED BY <1>3, <1>4, <2>4 DEF Unpacked
  <1>5. CASE ch \in {"C", "S", "L"}
    <2>1. i \in -(n \div 2) .. n \div 2 - 1
      BY <1>5 DEF Fitting
    <2>2. Signed(x % n, n - 1) = i
      BY <1>1, <1>2, <2>1, SignedLow, Zenon
    <2>3. CASE ch = "C"
      BY <1>3, <2>2, <2>3 DEF Unpacked, unpack_i8, Values
    <2>4. CASE ch = "S"
      BY <1>3, <2>2, <2>4 DEF Unpacked, unpack_i16, Values
    <2>5. CASE ch = "L"
      BY <1>3, <2>2, <2>5 DEF Unpacked, unpack_i32, Values
    <2> QED BY <1>5, <2>3, <2>4, <2>5
  <1> QED BY <1>4, <1>5 DEF Letters
==============================================================================
