----------------------------- MODULE SetCatProofs -----------------------------
(***************************************************************************)
(* Theorems about set and cat: about RegisterCodec, for any radix, any     *)
(* contents of the registers and any value to set, and about             *)
(* AddressParser, for any text that is typed.                              *)
(***************************************************************************)
EXTENDS RegisterCodec, AddressParser, FlattenTheorems

Quads == [1 .. 4 -> 0 .. Radix - 1]
Orders == {ABCD, DCBA, CDAB, BADC}
Formats32 == Unsigned32 \cup Signed32 \cup Float32

-----------------------------------------------------------------------------
(* Bytes and numbers.                                                      *)

\* The radix is a number, and so are the numbers of values of registers.
LEMMA RadixIs ==
  /\ Radix \in Nat /\ Radix >= 2 /\ Radix \in Nat \ {0}
  /\ Half \in Nat /\ Half = Radix * Radix /\ Half >= 2 /\ Half \in Nat \ {0}
  /\ Word \in Nat /\ Word = Half * Half /\ Word >= 2
<1>1. Radix \in Nat /\ Radix >= 2
  BY CodecAssumption DEF CodecAssumption
<1>2. \A x \in Nat : x >= 2 => x * x \in Nat /\ x * x >= 2
  OBVIOUS
<1> QED
  BY <1>1, <1>2 DEF Half, Word

\* Quotient and remainder.
LEMMA DivMod ==
  ASSUME NEW m \in Nat \ {0}, NEW q \in Nat, NEW r \in 0 .. m - 1, NEW x, x = q * m + r
  PROVE  x \div m = q /\ x % m = r
OBVIOUS

\* They make up the number.
LEMMA Division ==
  ASSUME NEW m \in Nat \ {0}, NEW x \in Nat
  PROVE  /\ x \div m \in Nat /\ x % m \in 0 .. m - 1 /\ x = (x \div m) * m + (x % m)
OBVIOUS

\* A digit before a number below m.
LEMMA Digit ==
  ASSUME NEW m \in Nat \ {0}, NEW n \in Nat, NEW d \in 0 .. n - 1, NEW x \in 0 .. m - 1
  PROVE  d * m + x \in 0 .. n * m - 1
<1>1. d * m \in Nat /\ d * m + x \in Nat
  OBVIOUS
<1>2. (n - 1 - d) * m >= 0
  OBVIOUS
<1>3. (n - 1 - d) * m = n * m - m - d * m
  OBVIOUS
<1> QED
  BY <1>1, <1>2, <1>3

\* Two bytes are a number below Half, four one below Word.
LEMMA BigEndianIs ==
  ASSUME NEW b \in Quads
  PROVE  /\ b[1] * Radix + b[2] \in 0 .. Half - 1 /\ b[3] * Radix + b[4] \in 0 .. Half - 1
         /\ BigEndian(b) = (b[1] * Radix + b[2]) * Half + (b[3] * Radix + b[4])
         /\ BigEndian(b) \in 0 .. Word - 1
<1>1. /\ b[1] \in 0 .. Radix - 1 /\ b[2] \in 0 .. Radix - 1 /\ b[3] \in 0 .. Radix - 1 /\ b[4] \in 0 .. Radix - 1
  BY DEF Quads
<1>2. b[1] * Radix + b[2] \in 0 .. Half - 1 /\ b[3] * Radix + b[4] \in 0 .. Half - 1
  BY <1>1, RadixIs, Digit
<1>3. BigEndian(b) = (b[1] * Radix + b[2]) * Half + (b[3] * Radix + b[4])
  BY <1>1, RadixIs DEF BigEndian
<1> QED
  BY <1>2, <1>3, RadixIs, Digit

\* PutBigEndian takes apart what BigEndian puts together ...
LEMMA PutOfValue == ASSUME NEW b \in Quads PROVE PutBigEndian(BigEndian(b)) = b
<1> DEFINE w == BigEndian(b)
<1>1. /\ b[1] \in 0 .. Radix - 1 /\ b[2] \in 0 .. Radix - 1 /\ b[3] \in 0 .. Radix - 1 /\ b[4] \in 0 .. Radix - 1
  BY DEF Quads
<1>r. \A q \in Nat, r \in 0 .. Radix - 1, x \in Nat : x = q * Radix + r => x \div Radix = q /\ x % Radix = r
  BY RadixIs, DivMod
<1>h. \A q \in Nat, r \in 0 .. Half - 1, x \in Nat : x = q * Half + r => x \div Half = q /\ x % Half = r
  BY RadixIs, DivMod
<1>w. w \in Nat
  BY BigEndianIs
<1>2. w % Radix = b[4] /\ w \div Radix = (b[1] * Radix + b[2]) * Radix + b[3]
  <2>1. (b[1] * Radix + b[2]) * Radix + b[3] \in Nat
    BY <1>1, RadixIs
  <2>2. w = ((b[1] * Radix + b[2]) * Radix + b[3]) * Radix + b[4]
    BY DEF BigEndian
  <2> HIDE DEF w
  <2> QED
    BY <1>1, <1>r, <1>w, <2>1, <2>2
<1>3. (w \div Radix) % Radix = b[3]
  <2> DEFINE v == w \div Radix
             q == b[1] * Radix + b[2]
  <2>1. q \in Nat /\ v = q * Radix + b[3] /\ v \in Nat
    BY <1>1, <1>2, RadixIs
  <2> HIDE DEF v, q
  <2>2. v % Radix = b[3]
    BY <1>1, <1>r, <2>1
  <2> QED
    BY <2>2 DEF v
<1>4. w \div Half = b[1] * Radix + b[2]
  <2>1. b[1] * Radix + b[2] \in Nat
    BY <1>1, RadixIs
  <2>2. w = (b[1] * Radix + b[2]) * Half + (b[3] * Radix + b[4]) /\ b[3] * Radix + b[4] \in 0 .. Half - 1
    BY BigEndianIs
  <2> HIDE DEF w
  <2> QED
    BY <1>h, <1>w, <2>1, <2>2
<1>5. (w \div Half) % Radix = b[2]
  <2> DEFINE v == w \div Half
  <2>1. b[1] \in Nat /\ v = b[1] * Radix + b[2] /\ v \in Nat
    BY <1>1, <1>4, RadixIs
  <2> HIDE DEF v
  <2>2. v % Radix = b[2]
    BY <1>1, <1>r, <2>1
  <2> QED
    BY <2>2 DEF v
<1>6. w \div (Radix * Half) = b[1]
  <2> DEFINE rest == b[2] * Half + (b[3] * Radix + b[4])
  <2>1. rest \in 0 .. Radix * Half - 1
    BY <1>1, BigEndianIs, RadixIs, Digit, Zenon
  <2>2. w = b[1] * (Radix * Half) + rest
    BY <1>1, RadixIs DEF BigEndian
  <2>3. Radix * Half \in Nat \ {0} /\ b[1] \in Nat
    <3>1. Radix * Half >= 2
      BY RadixIs
    <3> QED
      BY <1>1, <3>1, RadixIs
  <2> HIDE DEF rest, w
  <2> QED
    BY <2>1, <2>2, <2>3, DivMod, Zenon
<1>7. b[1] % Radix = b[1]
  BY <1>1, RadixIs
<1> HIDE DEF w
<1>8. PutBigEndian(w) = <<b[1], b[2], b[3], b[4]>>
  BY <1>2, <1>3, <1>5, <1>6, <1>7 DEF PutBigEndian
<1>9. b = <<b[1], b[2], b[3], b[4]>>
  BY DEF Quads
<1> QED
  BY <1>8, <1>9 DEF w

\* The two halves of a number.
LEMMA Halves ==
  ASSUME NEW m \in Nat, m >= 2, NEW x \in 0 .. m * m - 1
  PROVE  x \div m \in 0 .. m - 1 /\ x % m \in 0 .. m - 1 /\ x = (x \div m) * m + (x % m)
<1>0. m \in Nat \ {0} /\ x \in Nat
  <2>1. m * m \in Nat
    OBVIOUS
  <2> QED
    BY <2>1
<1>1. x \div m \in Nat /\ x % m \in 0 .. m - 1 /\ x = (x \div m) * m + (x % m)
  BY <1>0, Division, Zenon
<1>2. ASSUME NEW q \in Nat, q * m <= x PROVE q <= m - 1
  <2>1. CASE q >= m
    <3>1. q * m >= m * m
      BY <2>1
    <3> QED
      BY <1>2, <3>1
  <2> QED
    BY <2>1
<1> QED
  BY <1>1, <1>2

\* ... and the other way round.
LEMMA ValueOfPut ==
  ASSUME NEW w \in 0 .. Word - 1
  PROVE  PutBigEndian(w) \in Quads /\ BigEndian(PutBigEndian(w)) = w
<1> DEFINE hi == w \div Half
           lo == w % Half
           b == <<hi \div Radix, hi % Radix, lo \div Radix, lo % Radix>>
<1>1. hi \in 0 .. Half - 1 /\ lo \in 0 .. Half - 1 /\ w = hi * Half + lo
  BY Halves, RadixIs
<1>2. /\ hi \div Radix \in 0 .. Radix - 1 /\ hi % Radix \in 0 .. Radix - 1
      /\ lo \div Radix \in 0 .. Radix - 1 /\ lo % Radix \in 0 .. Radix - 1
  BY <1>1, Halves, RadixIs
<1>3. b \in Quads
  <2> HIDE DEF hi, lo
  <2> QED
    BY <1>2 DEF Quads
<1>4. hi = b[1] * Radix + b[2] /\ lo = b[3] * Radix + b[4]
  BY <1>1, Halves, RadixIs
<1> HIDE DEF hi, lo, b
<1>5. w = BigEndian(b)
  BY <1>1, <1>3, <1>4, BigEndianIs
<1> QED
  BY <1>3, <1>5, PutOfValue
\* Half the values of two registers are those of the negative numbers.
LEMMA WordIsEven == Word = 2 * (Word \div 2) /\ Word \div 2 \in Nat \ {0}
<1> DEFINE k == Radix \div 2
           m == k * (Radix * Half)
<1>1. k \in Nat /\ Radix = 2 * k
  BY CodecAssumption DEF CodecAssumption
<1> HIDE DEF k
<1>2. Half = 2 * (k * Radix)
  BY <1>1, RadixIs
<1>3. m \in Nat /\ Word = 2 * m
  BY <1>1, <1>2, RadixIs
<1> HIDE DEF m
<1> QED
  BY <1>3, RadixIs

-----------------------------------------------------------------------------
(* Floats.                                                                 *)

\* x, not negative, rounds to the bits n.
RoundsTo(x, n) ==
  /\ n # 0 => \/ Magnitude[n - 1] + Magnitude[n] < 2 * x
              \/ Magnitude[n - 1] + Magnitude[n] = 2 * x /\ n % 2 = 0
  /\ n # Inf => \/ 2 * x < Magnitude[n] + Magnitude[n + 1]
                \/ 2 * x = Magnitude[n] + Magnitude[n + 1] /\ n % 2 = 0

\* The bits of floats and of +Inf leave room for the sign.
LEMMA InfIs ==
  /\ Inf \in Nat \ {0} /\ SignBit \in Nat \ {0} /\ Word = 2 * SignBit /\ Inf < SignBit
  /\ \A n \in 0 .. Inf : Magnitude[n] \in Nat
  /\ Magnitude[0] = 0
  /\ \A m, n \in 0 .. Inf : m < n => Magnitude[m] < Magnitude[n]
<1>1. SignBit \in Nat \ {0} /\ Word = 2 * SignBit
  BY WordIsEven DEF SignBit
<1> QED
  BY <1>1, CodecAssumption DEF CodecAssumption

\* Every number rounds to some bits: the least that it does not lie beyond.
LEMMA RoundedIs ==
  ASSUME NEW x \in Nat
  PROVE  Rounded(x) \in 0 .. Inf /\ RoundsTo(x, Rounded(x))
<1> DEFINE T == {n \in 0 .. Inf : \/ n = Inf
                                  \/ 2 * x < Magnitude[n] + Magnitude[n + 1]
                                  \/ 2 * x = Magnitude[n] + Magnitude[n + 1] /\ n % 2 = 0}
<1>0. Inf \in Nat /\ \A n \in 0 .. Inf : Magnitude[n] \in Nat
  BY InfIs
<1>1. T \subseteq Nat /\ Inf \in T
  BY <1>0
<1>2. PICK n \in T : \A m \in T : n <= m
  <2> HIDE DEF T
  <2> QED
    BY <1>1, LeastOf
<1>3. n \in 0 .. Inf
  OBVIOUS
<1>4. ASSUME n # 0
      PROVE  \/ Magnitude[n - 1] + Magnitude[n] < 2 * x
             \/ Magnitude[n - 1] + Magnitude[n] = 2 * x /\ n % 2 = 0
  <2> DEFINE k == n - 1
  <2>1. k \in 0 .. Inf /\ k # Inf /\ k + 1 = n /\ ~(n <= k)
    BY <1>0, <1>3, <1>4
  <2>2. k \notin T
    BY <1>2, <2>1
  <2>3. Magnitude[k] \in Nat /\ Magnitude[n] \in Nat
    BY <1>0, <1>3, <2>1
  <2>4. ~(2 * x < Magnitude[k] + Magnitude[n]) /\ ~(2 * x = Magnitude[k] + Magnitude[n] /\ k % 2 = 0)
    BY <2>1, <2>2
  <2>5. k % 2 # 0 => n % 2 = 0
    BY <2>1
  <2> QED
    BY <2>3, <2>4, <2>5
<1>5. n # Inf => \/ 2 * x < Magnitude[n] + Magnitude[n + 1]
                 \/ 2 * x = Magnitude[n] + Magnitude[n + 1] /\ n % 2 = 0
  OBVIOUS
<1>6. RoundsTo(x, n)
  BY <1>4, <1>5 DEF RoundsTo
<1>7. Rounded(x) = CHOOSE m \in 0 .. Inf : RoundsTo(x, m)
  BY DEF Rounded, RoundsTo
<1> QED
  BY <1>3, <1>6, <1>7

\* What is no greater than the greatest float rounds to a float.
LEMMA GreatestFloat ==
  ASSUME NEW x \in Nat, x <= Magnitude[Inf - 1]
  PROVE  Rounded(x) < Inf
<1>1. Inf - 1 \in 0 .. Inf /\ Inf \in 0 .. Inf /\ Inf - 1 < Inf /\ Inf # 0
  BY InfIs
<1>2. Magnitude[Inf - 1] \in Nat /\ Magnitude[Inf] \in Nat /\ Magnitude[Inf - 1] < Magnitude[Inf]
  BY <1>1, InfIs
<1>3. Rounded(x) # Inf
  <2> SUFFICES ASSUME Rounded(x) = Inf PROVE FALSE
    OBVIOUS
  <2>1. Magnitude[Inf - 1] + Magnitude[Inf] <= 2 * x
    BY <1>1, <1>2, RoundedIs DEF RoundsTo
  <2> QED
    BY <1>2, <2>1
<1> QED
  BY <1>3, RoundedIs, InfIs

\* No other bits are nearer.
LEMMA RoundedNearest ==
  ASSUME NEW x \in Nat, Rounded(x) < Inf, NEW m \in 0 .. Inf - 1
  PROVE  /\ Distance(x, Magnitude[Rounded(x)]) <= Distance(x, Magnitude[m])
         /\ Distance(x, Magnitude[Rounded(x)]) <= x + Magnitude[m]
<1> DEFINE n == Rounded(x)
<1>1. n \in 0 .. Inf /\ RoundsTo(x, n) /\ n # Inf
  BY RoundedIs, InfIs
<1> HIDE DEF n
<1>2. n + 1 \in 0 .. Inf /\ Inf \in Nat /\ m \in 0 .. Inf /\ 0 \in 0 .. Inf
  BY <1>1, InfIs
<1>3. Magnitude[n] \in Nat /\ Magnitude[n + 1] \in Nat /\ 2 * x <= Magnitude[n] + Magnitude[n + 1]
  BY <1>1, <1>2, InfIs DEF RoundsTo
<1>4. n # 0 => n - 1 \in 0 .. Inf /\ Magnitude[n - 1] \in Nat /\ Magnitude[n - 1] + Magnitude[n] <= 2 * x
  <2> SUFFICES ASSUME n # 0 PROVE n - 1 \in 0 .. Inf /\ Magnitude[n - 1] \in Nat /\ Magnitude[n - 1] + Magnitude[n] <= 2 * x
    OBVIOUS
  <2>1. n - 1 \in 0 .. Inf
    BY <1>1, <1>2
  <2>2. Magnitude[n - 1] \in Nat
    BY <2>1, InfIs
  <2> QED
    BY <1>1, <1>3, <2>1, <2>2 DEF RoundsTo
<1>5. ASSUME NEW k \in 0 .. Inf - 1 PROVE Distance(x, Magnitude[n]) <= Distance(x, Magnitude[k]) /\ Magnitude[k] \in Nat
  <2>0. k \in 0 .. Inf
    BY <1>2
  <2>1. Magnitude[k] \in Nat
    BY <2>0, InfIs
  <2>2. CASE k = n
    BY <1>3, <2>1, <2>2 DEF Distance
  <2>3. CASE k > n
    <3>1. k = n + 1 \/ n + 1 < k
      BY <1>1, <2>0, <2>3
    <3>2. Magnitude[n + 1] <= Magnitude[k]
      BY <1>2, <1>3, <2>0, <2>1, <3>1, InfIs
    <3>3. Magnitude[n] < Magnitude[n + 1]
      BY <1>1, <1>2, InfIs
    <3> QED
      BY <1>3, <2>1, <3>2, <3>3 DEF Distance
  <2>4. CASE k < n
    <3>1. k = n - 1 \/ k < n - 1
      BY <1>1, <2>0, <2>4
    <3>2. n # 0
      BY <2>0, <2>4
    <3>3. Magnitude[k] <= Magnitude[n - 1]
      BY <1>4, <2>0, <2>1, <3>1, <3>2, InfIs
    <3>4. Magnitude[n - 1] < Magnitude[n]
      BY <1>1, <1>4, <3>2, InfIs
    <3> QED
      BY <1>3, <1>4, <2>1, <3>2, <3>3, <3>4 DEF Distance
  <2> QED
    BY <1>1, <2>0, <2>1, <2>2, <2>3, <2>4
<1>6. Distance(x, Magnitude[n]) <= Distance(x, Magnitude[m]) /\ Magnitude[m] \in Nat
  BY <1>5
<1>7. Distance(x, Magnitude[n]) <= x
  <2>1. 0 \in 0 .. Inf - 1
    BY InfIs
  <2>2. Distance(x, Magnitude[n]) <= Distance(x, 0)
    BY <1>5, <2>1, InfIs
  <2> QED
    BY <2>2 DEF Distance
<1>8. Distance(x, Magnitude[n]) \in Int
  BY <1>3 DEF Distance
<1> QED
  BY <1>6, <1>7, <1>8 DEF n

\* A number that becomes a float comes back as the nearest one; what comes back as
\* an infinity lies beyond the greatest.
LEMMA FloatComesBack ==
  ASSUME NEW x \in Int
  PROVE  /\ Float32bits(x) \in 0 .. Word - 1
         /\ IF Float32frombits(Float32bits(x)).k = "float"
            THEN NearestFloat(x, Float32frombits(Float32bits(x)).v)
            ELSE x \notin -Magnitude[Inf - 1] .. Magnitude[Inf - 1]
<1> DEFINE a == IF x < 0 THEN -x ELSE x
           n == Rounded(a)
           w == Float32bits(x)
           v == IF x < 0 THEN -Magnitude[n] ELSE Magnitude[n]
<1>1. a \in Nat
  OBVIOUS
<1>2. n \in 0 .. Inf
  <2> HIDE DEF a
  <2> QED
    BY <1>1, RoundedIs
<1>3. w = IF x < 0 THEN SignBit + n ELSE n
  BY DEF Float32bits
<1>g. a <= Magnitude[Inf - 1] => n < Inf
  <2> HIDE DEF a
  <2> QED
    BY <1>1, GreatestFloat
<1>n. n < Inf => \A m \in 0 .. Inf - 1 : /\ Distance(a, Magnitude[n]) <= Distance(a, Magnitude[m])
                                         /\ Distance(a, Magnitude[n]) <= a + Magnitude[m]
  <2> HIDE DEF a
  <2> QED
    BY <1>1, RoundedNearest
<1> HIDE DEF n, w
<1>4. w \in 0 .. Word - 1 /\ w % SignBit = n /\ (w < SignBit <=> ~(x < 0))
  BY <1>2, <1>3, InfIs
<1>5. Float32frombits(w) = IF n >= Inf THEN [k |-> "nonfinite", v |-> 0] ELSE [k |-> "float", v |-> v]
  BY <1>4 DEF Float32frombits
<1>6. ASSUME n < Inf PROVE NearestFloat(x, v)
  <2>0. n \in 0 .. Inf - 1 /\ Magnitude[n] \in Nat
    BY <1>2, <1>6, InfIs
  <2>1. v \in Floats
    BY <2>0 DEF Floats
  <2>2. Distance(x, v) = Distance(a, Magnitude[n])
    BY <2>0 DEF Distance
  <2>3. ASSUME NEW u \in Floats PROVE Distance(x, v) <= Distance(x, u)
    <3>1. PICK m \in 0 .. Inf - 1 : u \in {Magnitude[m], -Magnitude[m]}
      BY DEF Floats
    <3>2. Magnitude[m] \in Nat
      BY InfIs
    <3>3. Distance(x, u) \in {Distance(a, Magnitude[m]), a + Magnitude[m]}
      BY <3>1, <3>2 DEF Distance
    <3> HIDE DEF a
    <3> QED
      BY <1>6, <1>n, <2>2, <3>3
  <2> QED
    BY <2>1, <2>3 DEF NearestFloat
<1>7. ASSUME ~(n < Inf) PROVE x \notin -Magnitude[Inf - 1] .. Magnitude[Inf - 1]
  <2>1. Magnitude[Inf - 1] \in Nat /\ ~(a <= Magnitude[Inf - 1])
    BY <1>7, <1>g, InfIs
  <2> QED
    BY <2>1
<1>8. n >= Inf <=> ~(n < Inf)
  BY <1>2, InfIs
<1>9. Float32frombits(w).k = "float" <=> n < Inf
  BY <1>5, <1>8
<1>10. n < Inf => Float32frombits(w).v = v
  BY <1>5, <1>8
<1> HIDE DEF v
<1> QED
  BY <1>4, <1>6, <1>7, <1>9, <1>10 DEF w
-----------------------------------------------------------------------------
(* Byte orders.                                                            *)

\* Each order undoes itself.
LEMMA OrdersUndo ==
  ASSUME NEW b \in Quads, NEW order \in Orders
  PROVE  /\ Ordered(b, order) \in Quads
         /\ Ordered(Ordered(b, order), order) = b
         /\ \A k \in 1 .. 4 : Ordered(b, order)[k] = b[order[k]]
BY DEF Quads, Orders, ABCD, DCBA, CDAB, BADC, Ordered

\* Bytes in the order ABCD are left as they are.
LEMMA OrderABCD == ASSUME NEW b \in Quads PROVE Ordered(b, ABCD) = b
BY DEF Quads, ABCD, Ordered

\* The three tables agree with one another and with the one of the README: a format
\* is decoded in the order in which it is encoded.
LEMMA TablesAgree ==
  ASSUME NEW f \in Formats32
  PROVE  /\ Documented(f) \in Orders /\ EncodeOrder(f) = Documented(f)
         /\ \A b \in Quads : DecodeBits(b, f) = BigEndian(Ordered(b, Documented(f)))
<1>1. Documented(f) \in Orders /\ EncodeOrder(f) = Documented(f)
  BY DEF Formats32, Unsigned32, Signed32, Float32, Orders, Documented, EncodeOrder
<1>2. ASSUME NEW b \in Quads PROVE DecodeBits(b, f) = BigEndian(Ordered(b, Documented(f)))
  <2>1. Ordered(b, ABCD) = b
    BY OrderABCD
  <2> QED
    BY <2>1 DEF Formats32, Unsigned32, Signed32, Float32, Documented, DecodeBits, LittleEndian4
<1> QED
  BY <1>1, <1>2
-----------------------------------------------------------------------------
(* What set writes and cat reads.                                          *)

Given == [form : Forms \cup {"none"}, num : Int, ten : Int]
Read == SubSeq(regs, 1, 2 * Count)

CodecTyped ==
  /\ spec \in [format : STRING, count : Nat]
  /\ text \in Given
  /\ text.form \in {"hex", "dec"} => text.num % 2 = 0 /\ text.ten % 2 = 0
  /\ regs \in Quads
  /\ stage \in {"set", "cat", "refused", "failed", "printed"}

\* The registers are those that set has written.
Written ==
  text # NoText /\ stage \in {"cat", "failed", "printed"} =>
    IF isMultiRegisterFormat(spec.format)
    THEN encodeMultiRegister(text, spec.format) = Ok(regs)
    ELSE toU16(text) = Ok(regs[1] * Radix + regs[2])

\* Set has refused what it cannot write.
Refused ==
  stage = "refused" =>
    IF isMultiRegisterFormat(spec.format) THEN ~encodeMultiRegister(text, spec.format).ok ELSE ~toU16(text).ok

\* What cat prints is what it has read.
Printed ==
  stage \in {"failed", "printed"} =>
    /\ decoded = decodeFormat(Read, spec.format)
    /\ shown = decodedBytes(Read, spec.format)
    /\ stage = "failed" <=> decoded.k = "nonfinite"

CodecInv == CodecTyped /\ Written /\ Refused /\ Printed

\* What fits one register is a number below Half.
LEMMA ToU16Is ==
  ASSUME NEW t \in Given
  PROVE  /\ toU16(t).ok \in BOOLEAN
         /\ toU16(t).ok => toU16(t).v \in 0 .. Half - 1 /\ toU16(t) = Ok(toU16(t).v)
BY DEF toU16, WithinU16, Ok, Refusal, evalNumber, Given

\* What fits two is the number of four bytes.
LEMMA Bits32Is ==
  ASSUME NEW x \in Int, NEW f \in Formats32, Bits32(x, f).ok
  PROVE  Bits32(x, f).v \in 0 .. Word - 1
<1>1. CASE f \in Unsigned32
  BY <1>1, RadixIs DEF Bits32, Unsigned32, Ok, Refusal, Trunc
<1>2. CASE f \in Signed32
  <2>1. Bits32(x, f) = Ok(Trunc(x) % Word) /\ Trunc(x) \in Int
    BY <1>2, RadixIs DEF Bits32, Signed32, Ok, Refusal, Trunc
  <2> QED
    BY <2>1, RadixIs DEF Ok
<1>3. CASE f \in Float32
  <2>1. Bits32(x, f) = Ok(Float32bits(x))
    BY <1>3 DEF Bits32, Float32
  <2> QED
    BY <2>1, FloatComesBack DEF Ok
<1> QED
  BY <1>1, <1>2, <1>3 DEF Formats32

\* The formats with two registers.
LEMMA MultiIs == \A f : isMultiRegisterFormat(f) <=> f \in Formats32
BY DEF isMultiRegisterFormat, Formats32, Unsigned32, Signed32, Float32

\* What set writes to two registers is four bytes.
LEMMA EncodedIs ==
  ASSUME NEW t \in Given, NEW f \in Formats32, encodeMultiRegister(t, f).ok
  PROVE  /\ t.form \notin {"bad", "nan"} /\ Bits32(t.num, f).ok /\ Bits32(t.num, f).v \in 0 .. Word - 1
         /\ encodeMultiRegister(t, f) = Ok(Ordered(PutBigEndian(Bits32(t.num, f).v), Documented(f)))
         /\ Ordered(PutBigEndian(Bits32(t.num, f).v), Documented(f)) \in Quads
<1>1. t.form \notin {"bad", "nan"} /\ Bits32(t.num, f).ok
      /\ encodeMultiRegister(t, f) = Ok(Ordered(PutBigEndian(Bits32(t.num, f).v), EncodeOrder(f)))
  BY DEF encodeMultiRegister, evalNumber, Ok, Refusal
<1>2. Bits32(t.num, f).v \in 0 .. Word - 1
  BY <1>1, Bits32Is DEF Given
<1> QED
  BY <1>1, <1>2, ValueOfPut, OrdersUndo, TablesAgree

\* The start has the registers as the properties need them.
LEMMA CodecInvInit == ASSUME CodecInit PROVE CodecInv
<1>1. NoText \in Given /\ NoText.form = "none"
  BY DEF NoText, Given
<1>2. CodecTyped
  BY <1>1, CodecAssumption DEF CodecAssumption, CodecInit, CodecTyped, Given, Quads
<1>3. Written /\ Refused /\ Printed
  BY DEF CodecInit, Written, Refused, Printed
<1> QED
  BY <1>2, <1>3 DEF CodecInv

\* Each step keeps them so.
LEMMA CodecInvStep == ASSUME CodecInv, [CodecNext]_codecVars PROVE CodecInv'
<1> USE DEF CodecInv
<1>0. spec.format \in STRING /\ text \in Given /\ regs \in Quads
  BY DEF CodecTyped
<1>1. CASE UNCHANGED codecVars
  BY <1>1 DEF codecVars, CodecTyped, Written, Refused, Printed, Read, Count
<1>2. CASE SetTwo
  <2> DEFINE e == encodeMultiRegister(text, spec.format)
  <2>1. /\ isMultiRegisterFormat(spec.format) /\ spec.format \in Formats32
        /\ UNCHANGED <<spec, text>> /\ stage = "set"
        /\ regs' = (IF e.ok THEN e.v ELSE regs) /\ stage' = (IF e.ok THEN "cat" ELSE "refused")
    BY <1>2, MultiIs DEF SetTwo
  <2>2. e.ok => e.v \in Quads /\ e = Ok(e.v)
    <3> SUFFICES ASSUME e.ok PROVE e.v \in Quads /\ e = Ok(e.v)
      OBVIOUS
    <3>1. e = Ok(Ordered(PutBigEndian(Bits32(text.num, spec.format).v), Documented(spec.format)))
          /\ Ordered(PutBigEndian(Bits32(text.num, spec.format).v), Documented(spec.format)) \in Quads
      BY <1>0, <2>1, EncodedIs
    <3> QED
      BY <3>1 DEF Ok
  <2>3. UNCHANGED e
    BY <2>1
  <2> HIDE DEF e
  <2>4. CodecTyped'
    BY <1>0, <2>1, <2>2 DEF CodecTyped
  <2>5. Written' /\ Refused' /\ Printed'
    <3>1. CASE e.ok
      BY <2>1, <2>2, <3>1 DEF Written, Refused, Printed, e
    <3>2. CASE ~e.ok
      BY <2>1, <3>2 DEF Written, Refused, Printed, e
    <3> QED
      BY <3>1, <3>2
  <2> QED
    BY <2>4, <2>5
<1>3. CASE SetOne
  <2> DEFINE e == toU16(text)
             q == <<e.v \div Radix, e.v % Radix, regs[3], regs[4]>>
  <2>1. /\ ~isMultiRegisterFormat(spec.format)
        /\ UNCHANGED <<spec, text>> /\ stage = "set"
        /\ regs' = (IF e.ok THEN q ELSE regs) /\ stage' = (IF e.ok THEN "cat" ELSE "refused")
    BY <1>3 DEF SetOne
  <2>2. e.ok => e.v \in 0 .. Half - 1 /\ e = Ok(e.v)
    BY <1>0, ToU16Is
  <2>3. e.ok => q \in Quads /\ q[1] * Radix + q[2] = e.v
    <3> SUFFICES ASSUME e.ok PROVE q \in Quads /\ q[1] * Radix + q[2] = e.v
      OBVIOUS
    <3>1. e.v \in 0 .. Radix * Radix - 1
      BY <2>2, RadixIs
    <3> HIDE DEF e
    <3>2. e.v \div Radix \in 0 .. Radix - 1 /\ e.v % Radix \in 0 .. Radix - 1 /\ e.v = (e.v \div Radix) * Radix + (e.v % Radix)
      BY <3>1, RadixIs, Halves
    <3>3. regs[3] \in 0 .. Radix - 1 /\ regs[4] \in 0 .. Radix - 1
      BY <1>0 DEF Quads
    <3> QED
      BY <3>2, <3>3 DEF Quads
  <2> HIDE DEF e, q
  <2>4. CodecTyped'
    BY <1>0, <2>1, <2>3 DEF CodecTyped
  <2>5. Written' /\ Refused' /\ Printed'
    <3>1. CASE e.ok
      BY <2>1, <2>2, <2>3, <3>1 DEF Written, Refused, Printed, e
    <3>2. CASE ~e.ok
      BY <2>1, <3>2 DEF Written, Refused, Printed, e
    <3> QED
      BY <3>1, <3>2
  <2> QED
    BY <2>4, <2>5
<1>4. CASE Cat
  <2>1. /\ UNCHANGED <<spec, text, regs>> /\ stage = "cat"
        /\ decoded' = decodeFormat(Read, spec.format) /\ shown' = decodedBytes(Read, spec.format)
        /\ stage' = IF decoded'.k = "nonfinite" THEN "failed" ELSE "printed"
    BY <1>4 DEF Cat, Read
  <2>2. Read' = Read
    BY <2>1 DEF Read, Count
  <2>3. CodecTyped' /\ Written' /\ Refused'
    BY <2>1 DEF CodecTyped, Written, Refused
  <2>4. Printed'
    BY <2>1, <2>2 DEF Printed
  <2> QED
    BY <2>3, <2>4
<1> QED
  BY <1>1, <1>2, <1>3, <1>4 DEF CodecNext

\* The invariant of the theorems.
LEMMA CodecInvariant == CodecSpec => []CodecInv
BY CodecInvInit, CodecInvStep, PTL DEF CodecSpec
-----------------------------------------------------------------------------
(* What cat prints.                                                        *)

\* Cat reads one register at least; of what it reads the first four bytes count.
LEMMA ReadIs ==
  ASSUME CodecTyped
  PROVE  /\ Len(Read) = 2 * Count /\ Count \in Nat \ {0}
         /\ Read[1] = regs[1] /\ Read[2] = regs[2]
         /\ Count >= 2 => \A k \in 1 .. 4 : Read[k] = regs[k]
         /\ Count >= 2 <=> Len(Read) >= 4
         /\ Len(Read) >= 2
<1>1. Count \in Nat \ {0}
  BY DEF CodecTyped, Count
<1> DEFINE n == 2 * Count
<1>2. n \in Nat /\ n >= 2 /\ (Count >= 2 <=> n >= 4)
  BY <1>1
<1>3. Read = [k \in 1 .. n |-> regs[k]]
  BY <1>1 DEF Read
<1> HIDE DEF n
<1>4. Len(Read) = n
  BY <1>2, <1>3
<1>5. \A k \in 1 .. n : Read[k] = regs[k]
  BY <1>3
<1> QED
  BY <1>1, <1>2, <1>4, <1>5 DEF n

\* A format with one register shows its two bytes.
LEMMA OneRegister ==
  ASSUME CodecInv, stage \in {"failed", "printed"}, spec.format \in {"u16", "s16"}
  PROVE  /\ decoded = [k |-> "int", v |-> IF spec.format = "u16" THEN regs[1] * Radix + regs[2]
                                          ELSE Signed(regs[1] * Radix + regs[2], Half)]
         /\ shown[1] = regs[1] /\ shown[2] = regs[2]
<1>1. Len(Read) >= 2 /\ Len(Read) \in Nat /\ Read[1] = regs[1] /\ Read[2] = regs[2]
  BY ReadIs DEF CodecInv
<1>2. decoded = decodeFormat(Read, spec.format) /\ shown = decodedBytes(Read, spec.format)
  BY DEF CodecInv, Printed
<1>3. shown = SubSeq(Read, 1, 2)
  BY <1>1, <1>2 DEF decodedBytes
<1>4. SubSeq(Read, 1, 2)[1] = Read[1] /\ SubSeq(Read, 1, 2)[2] = Read[2]
  OBVIOUS
<1> QED
  BY <1>1, <1>2, <1>3, <1>4 DEF decodeFormat

\* What a format with two registers makes of them, and the bytes that it shows.
LEMMA TwoRegisters ==
  ASSUME CodecInv, stage \in {"failed", "printed"}, spec.format \in Formats32, Count >= 2
  PROVE  /\ decoded = LET w == BigEndian(Ordered(regs, Documented(spec.format)))
                      IN  CASE spec.format \in Unsigned32 -> [k |-> "int", v |-> w]
                            [] spec.format \in Signed32 -> [k |-> "int", v |-> Signed(w, Word)]
                            [] spec.format \in Float32 -> Float32frombits(w)
         /\ \A k \in 1 .. 4 : shown[k] = IF spec.format \in {"u32le", "s32le", "f32le"} THEN regs[k]
                                         ELSE Ordered(regs, Documented(spec.format))[k]
<1> DEFINE f == spec.format
<1>1. Len(Read) >= 4 /\ Len(Read) >= 2 /\ \A k \in 1 .. 4 : Read[k] = regs[k]
  BY ReadIs DEF CodecInv
<1>2. decoded = decodeFormat(Read, f) /\ shown = decodedBytes(Read, f) /\ regs \in Quads
  BY DEF CodecInv, Printed, CodecTyped
<1>3. \A order \in Orders : Ordered(Read, order) = Ordered(regs, order)
  BY <1>1 DEF Orders, ABCD, DCBA, CDAB, BADC, Ordered
<1>4. BigEndian(Read) = BigEndian(regs)
  BY <1>1 DEF BigEndian
<1>5. DecodeBits(Read, f) = DecodeBits(regs, f)
  BY <1>3, <1>4 DEF DecodeBits, LittleEndian4, Orders, Formats32, Unsigned32, Signed32, Float32
<1>6. DecodeBits(regs, f) = BigEndian(Ordered(regs, Documented(f)))
  BY <1>2, TablesAgree
<1> DEFINE r == Read
<1> HIDE DEF r
<1>7. decodeFormat(Read, f) = CASE f \in Unsigned32 -> [k |-> "int", v |-> DecodeBits(Read, f)]
                               [] f \in Signed32 -> [k |-> "int", v |-> Signed(DecodeBits(Read, f), Word)]
                               [] f \in Float32 -> Float32frombits(DecodeBits(Read, f))
  BY <1>1 DEF decodeFormat, Formats32, Unsigned32, Signed32, Float32
<1>8. /\ SubSeq(Read, 1, 4)[1] = Read[1] /\ SubSeq(Read, 1, 4)[2] = Read[2]
      /\ SubSeq(Read, 1, 4)[3] = Read[3] /\ SubSeq(Read, 1, 4)[4] = Read[4]
  OBVIOUS
<1>9. Ordered(regs, ABCD) = regs
  BY <1>2, OrderABCD
<1>10. decodedBytes(Read, f) = IF f \in {"u32le", "s32le", "f32le"} \/ Documented(f) = ABCD THEN SubSeq(Read, 1, 4)
                               ELSE Ordered(Read, Documented(f))
  BY <1>1 DEF decodedBytes, Documented, Formats32, Unsigned32, Signed32, Float32, ABCD, DCBA, CDAB, BADC
<1>11. Ordered(Read, Documented(f)) = Ordered(regs, Documented(f))
  BY <1>3, TablesAgree
<1>12. ASSUME NEW k \in 1 .. 4
       PROVE  shown[k] = IF f \in {"u32le", "s32le", "f32le"} THEN regs[k] ELSE Ordered(regs, Documented(f))[k]
  <2>1. SubSeq(Read, 1, 4)[k] = regs[k]
    BY <1>1, <1>8
  <2> QED
    BY <1>2, <1>9, <1>10, <1>11, <2>1
<1> QED
  BY <1>2, <1>5, <1>6, <1>7, <1>12

\* Nothing else has a value.
LEMMA OthersHaveNone ==
  ASSUME CodecInv, stage \in {"failed", "printed"}, decoded # NoValue
  PROVE  spec.format \in {"u16", "s16"} \/ (spec.format \in Formats32 /\ Count >= 2)
<1>1. Count >= 2 <=> Len(Read) >= 4
  BY ReadIs DEF CodecInv
<1>2. decoded = decodeFormat(Read, spec.format)
  BY DEF CodecInv, Printed
<1> QED
  BY <1>1, <1>2 DEF decodeFormat, Formats32, Unsigned32, Signed32, Float32
-----------------------------------------------------------------------------
(* The properties.                                                         *)

\* A value that is printed comes with the bytes it was made of.
THEOREM BytesShownHolds == CodecSpec => []BytesShown
<1>1. CodecInv => BytesShown
  <2> SUFFICES ASSUME CodecInv, stage = "printed", decoded # NoValue PROVE BytesShown
    BY DEF BytesShown
  <2>0. regs \in Quads
    BY DEF CodecInv, CodecTyped
  <2>1. CASE spec.format \in {"u16", "s16"}
    <3> DEFINE x == regs[1] * Radix + regs[2]
    <3>1. x \in 0 .. Half - 1 /\ Half \in Nat
      BY <2>0, BigEndianIs, RadixIs
    <3>2. decoded.v \in {x, x - Half} /\ shown[1] * Radix + shown[2] = x
      BY <2>1, OneRegister DEF Signed
    <3> HIDE DEF x
    <3>3. x % Half = x /\ (x - Half) % Half = x
      BY <3>1
    <3> QED
      BY <2>1, <3>2, <3>3 DEF BytesShown
  <2>2. CASE spec.format \in Formats32 /\ Count >= 2
    <3> DEFINE f == spec.format
               d == Documented(f)
               w == BigEndian(Ordered(regs, d))
    <3>1. /\ decoded.v = CASE f \in Unsigned32 -> w
                           [] f \in Signed32 -> Signed(w, Word)
                           [] f \in Float32 -> Float32frombits(w).v
          /\ \A k \in 1 .. 4 : shown[k] = IF f \in {"u32le", "s32le", "f32le"} THEN regs[k]
                                          ELSE Ordered(regs, d)[k]
      BY <2>2, TwoRegisters DEF Float32frombits, Formats32
    <3>2. w = IF f \in {"u32le", "s32le", "f32le"} THEN LittleEndian4(shown) ELSE BigEndian(shown)
      <4>1. CASE f \in {"u32le", "s32le", "f32le"}
        <5>1. d = DCBA
          BY <4>1 DEF Documented
        <5>2. shown[1] = regs[1] /\ shown[2] = regs[2] /\ shown[3] = regs[3] /\ shown[4] = regs[4]
          BY <3>1, <4>1
        <5>3. Ordered(shown, DCBA) = Ordered(regs, DCBA)
          BY <5>2 DEF Ordered, DCBA
        <5> QED
          BY <4>1, <5>1, <5>3 DEF LittleEndian4
      <4>2. CASE f \notin {"u32le", "s32le", "f32le"}
        <5>1. BigEndian(shown) = BigEndian(Ordered(regs, d))
          BY <3>1, <4>2 DEF BigEndian
        <5> QED
          BY <4>2, <5>1
      <4> QED
        BY <4>1, <4>2
    <3>3. f \notin {"u16", "s16"}
      BY <2>2 DEF Formats32, Unsigned32, Signed32, Float32
    <3> HIDE DEF w, d
    <3> QED
      BY <3>1, <3>2, <3>3 DEF BytesShown
  <2> QED
    BY <2>1, <2>2, OthersHaveNone
<1> QED
  BY <1>1, CodecInvariant, PTL

\* A number that a device keeps in the order that the README gives to a format is
\* printed as it is.
THEOREM DocumentedOrderHolds == CodecSpec => []DocumentedOrder
<1>1. CodecInv => DocumentedOrder
  <2> SUFFICES ASSUME CodecInv, stage = "printed", spec.format \in Formats32, decoded # NoValue
               PROVE  DocumentedOrder
    BY DEF DocumentedOrder, Formats32
  <2> DEFINE f == spec.format
             b == Ordered(regs, Documented(f))
             w == BigEndian(b)
  <2>1. regs \in Quads /\ Documented(f) \in Orders
    BY TablesAgree DEF CodecInv, CodecTyped
  <2>2. b \in Quads /\ Ordered(b, Documented(f)) = regs
    BY <2>1, OrdersUndo
  <2>3. w \in 0 .. Word - 1 /\ PutBigEndian(w) = b
    BY <2>2, BigEndianIs, PutOfValue
  <2>4. Count >= 2
    BY OthersHaveNone DEF Formats32, Unsigned32, Signed32, Float32
  <2>5. decoded.v = CASE f \in Unsigned32 -> w
                      [] f \in Signed32 -> Signed(w, Word)
                      [] f \in Float32 -> Float32frombits(w).v
    BY <2>4, TwoRegisters DEF Float32frombits, Formats32
  <2>6. regs = Ordered(PutBigEndian(w), Documented(f))
    BY <2>2, <2>3
  <2> HIDE DEF b, w
  <2> QED
    BY <2>3, <2>5, <2>6 DEF DocumentedOrder
<1> QED
  BY <1>1, CodecInvariant, PTL

\* Where no count is given, cat reads as many registers as the format needs.
THEOREM CountSufficesHolds == CodecSpec => []CountSuffices
<1>1. CodecInv => CountSuffices
  <2> SUFFICES ASSUME CodecInv, stage = "printed", spec.count = 0, decoded = NoValue,
                      spec.format \in Formats32 \cup {"u16", "s16"}
               PROVE  FALSE
    BY DEF CountSuffices, Formats32
  <2>1. CASE spec.format \in {"u16", "s16"}
    BY <2>1, OneRegister DEF NoValue
  <2>2. CASE spec.format \in Formats32
    <3>1. Count >= 2
      BY <2>2 DEF Count, TwoByDefault, Formats32, Unsigned32, Signed32, Float32
    <3> QED
      BY <2>2, <3>1, TwoRegisters DEF Formats32, NoValue, Float32frombits
  <2> QED
    BY <2>1, <2>2
<1> QED
  BY <1>1, CodecInvariant, PTL

\* What encodeMultiRegister makes of a number, decodeFormat undoes.
LEMMA NumberComesBack ==
  ASSUME NEW x \in Int, NEW f \in Formats32, Bits32(x, f).ok
  PROVE  LET w == Bits32(x, f).v
         IN  /\ f \in Unsigned32 => w = Trunc(x)
             /\ f \in Signed32 => Signed(w, Word) = Trunc(x)
             /\ f \in Float32 => IF Float32frombits(w).k = "float"
                                THEN NearestFloat(x, Float32frombits(w).v) ELSE x \notin Holds(f)
<1>1. CASE f \in Unsigned32
  BY <1>1 DEF Bits32, Unsigned32, Signed32, Float32, Ok, Refusal
<1>2. CASE f \in Signed32
  <2> DEFINE h == Word \div 2
             y == Trunc(x)
  <2>1. Word = 2 * h /\ h \in Nat \ {0}
    BY WordIsEven
  <2>2. x \in -Word .. 2 * (h - 1) /\ Bits32(x, f).v = y % Word
    BY <1>2 DEF Bits32, Signed32, Ok, Refusal
  <2>3. y \in -h .. h - 1
    BY <2>1, <2>2 DEF Trunc
  <2> HIDE DEF h, y
  <2>4. y % Word = IF y >= 0 THEN y ELSE y + Word
    BY <2>1, <2>3
  <2>5. Signed(y % Word, Word) = IF y % Word >= h THEN (y % Word) - Word ELSE y % Word
    BY DEF Signed, h
  <2>6. Signed(y % Word, Word) = y
    BY <2>1, <2>3, <2>4, <2>5
  <2> QED
    BY <1>2, <2>2, <2>6 DEF y, Unsigned32, Signed32, Float32
<1>3. CASE f \in Float32
  <2>1. Bits32(x, f).v = Float32bits(x)
    BY <1>3 DEF Bits32, Float32, Ok
  <2>2. f \notin Unsigned32 /\ f \notin Signed32
    BY <1>3 DEF Unsigned32, Signed32, Float32
  <2>3. Holds(f) = -Magnitude[Inf - 1] .. Magnitude[Inf - 1]
    BY <1>3, <2>2, Zenon DEF Holds
  <2> QED
    BY <2>1, <2>2, <2>3, FloatComesBack
<1> QED
  BY <1>1, <1>2, <1>3 DEF Formats32

\* What it refuses, the format does not hold.
LEMMA RefusedNumber ==
  ASSUME NEW x \in Int, NEW f \in Formats32, ~Bits32(x, f).ok
  PROVE  x \notin Holds(f)
<1>1. CASE f \in Unsigned32
  <2>1. x \notin 0 .. 2 * (Word - 1)
    BY <1>1 DEF Bits32, Unsigned32, Ok
  <2>2. f \notin Signed32 /\ f \notin Float32
    BY <1>1 DEF Unsigned32, Signed32, Float32
  <2>3. Holds(f) = 0 .. 2 * (Word - 1)
    BY <1>1, <2>2, Zenon DEF Holds
  <2> QED
    BY <2>1, <2>3
<1>2. CASE f \in Signed32
  <2>1. x \notin -Word .. 2 * (Word \div 2 - 1)
    BY <1>2 DEF Bits32, Signed32, Ok
  <2>2. x \notin -Word .. Word - 2
    BY <2>1, WordIsEven
  <2>3. f \notin Unsigned32 /\ f \notin Float32
    BY <1>2 DEF Unsigned32, Signed32, Float32
  <2>4. Holds(f) = -Word .. Word - 2
    BY <1>2, <2>3, Zenon DEF Holds
  <2> QED
    BY <2>2, <2>4
<1>3. CASE f \in Float32
  BY <1>3 DEF Bits32, Float32, Ok
<1> QED
  BY <1>1, <1>2, <1>3 DEF Formats32

\* One register holds the number rounded, as the text denotes it in Go or as its
\* digits do, or the text is refused with cause.
LEMMA OneNumber ==
  ASSUME NEW t \in Given, t.form \in {"hex", "dec"} => t.num % 2 = 0 /\ t.ten % 2 = 0
  PROVE  IF toU16(t).ok THEN toU16(t).v \in {Round(t.num), Round(t.ten)}
         ELSE t.form \in {"bad", "nan", "hexexpr"} \/ t.num \notin 0 .. 2 * (Half - 1)
<1>1. t.num \in Int /\ t.ten \in Int /\ Half \in Nat
  BY RadixIs DEF Given
<1>2. ASSUME NEW x \in Int, x % 2 = 0 PROVE Trunc(x) = Round(x)
  BY <1>2 DEF Trunc, Round
<1>3. ASSUME NEW x \in Int PROVE Trunc(x) \in Int /\ Round(x) \in Int
  BY DEF Trunc, Round
<1>4. ASSUME NEW x \in Int, x \in 0 .. 2 * (Half - 1) PROVE Round(x) \in 0 .. Half - 1
  BY <1>1, <1>4 DEF Round
<1>5. CASE t.form \in {"hex", "dec"}
  <2>1. Trunc(t.num) = Round(t.num) /\ Trunc(t.ten) = Round(t.ten)
    BY <1>1, <1>2, <1>5
  <2>2. toU16(t) = IF t.form = "dec" /\ WithinU16(Trunc(t.ten)).ok THEN WithinU16(Round(t.ten))
                   ELSE WithinU16(Round(t.num))
    BY <1>5, <2>1 DEF toU16, evalNumber, Ok
  <2> QED
    BY <1>1, <1>4, <2>1, <2>2 DEF WithinU16, Ok, Refusal
<1>6. CASE t.form \notin {"hex", "dec"}
  BY <1>1, <1>4, <1>6 DEF toU16, evalNumber, WithinU16, Ok, Refusal
<1> QED
  BY <1>5, <1>6

\* What set has written, in any format and in any way to write a number, cat prints
\* again as the nearest value of the format (cut off for integers of two registers),
\* and what the format cannot hold is refused or, for a float, ends cat.
THEOREM SetThenCatHolds == CodecSpec => []SetThenCat
<1> DEFINE f == spec.format
<1>1. ASSUME CodecInv, text # NoText, stage \in {"printed", "failed"}, f \in Formats32, Count >= 2
      PROVE  /\ Bits32(text.num, f).ok
             /\ decoded = LET w == Bits32(text.num, f).v
                          IN  CASE f \in Unsigned32 -> [k |-> "int", v |-> w]
                                [] f \in Signed32 -> [k |-> "int", v |-> Signed(w, Word)]
                                [] f \in Float32 -> Float32frombits(w)
  <2> DEFINE w == Bits32(text.num, f).v
             p == PutBigEndian(w)
             d == Documented(f)
  <2>1. text \in Given /\ encodeMultiRegister(text, f) = Ok(regs)
    BY <1>1, MultiIs DEF CodecInv, CodecTyped, Written
  <2>2. Bits32(text.num, f).ok /\ w \in 0 .. Word - 1 /\ regs = Ordered(p, d)
    BY <1>1, <2>1, EncodedIs DEF Ok
  <2>3. BigEndian(Ordered(regs, d)) = w
    <3>1. p \in Quads /\ BigEndian(p) = w /\ d \in Orders
      BY <1>1, <2>2, ValueOfPut, TablesAgree
    <3> QED
      BY <2>2, <3>1, OrdersUndo
  <2> QED
    BY <1>1, <2>2, <2>3, TwoRegisters
<1>2. ASSUME CodecInv, stage = "printed", text # NoText, decoded # NoValue
      PROVE  MayReadBack(text, f, decoded.v)
  <2>1. text \in Given /\ (text.form \in {"hex", "dec"} => text.num % 2 = 0 /\ text.ten % 2 = 0)
    BY <1>2 DEF CodecInv, CodecTyped
  <2>2. CASE f \in {"u16", "s16"}
    <3> DEFINE x == regs[1] * Radix + regs[2]
    <3>1. toU16(text) = Ok(x)
      BY <1>2, <2>2 DEF CodecInv, Written, isMultiRegisterFormat
    <3> HIDE DEF x
    <3>2. x \in {Round(text.num), Round(text.ten)}
      BY <2>1, <3>1, OneNumber DEF Ok
    <3>3. decoded.v = IF f = "u16" THEN x ELSE Signed(x, Half)
      BY <1>2, <2>2, OneRegister DEF x
    <3> QED
      BY <2>2, <3>2, <3>3 DEF MayReadBack, Unsigned32, Signed32, Float32
  <2>3. CASE f \in Formats32 /\ Count >= 2
    <3> DEFINE w == Bits32(text.num, f).v
    <3>1. Bits32(text.num, f).ok /\ text.num \in Int /\ decoded.k # "nonfinite"
      BY <1>1, <1>2, <2>1, <2>3 DEF Given, CodecInv, Printed
    <3>2. decoded = CASE f \in Unsigned32 -> [k |-> "int", v |-> w]
                      [] f \in Signed32 -> [k |-> "int", v |-> Signed(w, Word)]
                      [] f \in Float32 -> Float32frombits(w)
      BY <1>1, <1>2, <2>3
    <3>3. /\ f \in Unsigned32 => w = Trunc(text.num)
          /\ f \in Signed32 => Signed(w, Word) = Trunc(text.num)
          /\ f \in Float32 => (Float32frombits(w).k = "float" => NearestFloat(text.num, Float32frombits(w).v))
      BY <2>3, <3>1, NumberComesBack
    <3>4. Float32frombits(w).k \in {"float", "nonfinite"}
      BY DEF Float32frombits
    <3> HIDE DEF w
    <3> QED
      BY <2>3, <3>1, <3>2, <3>3, <3>4 DEF MayReadBack, Formats32, Unsigned32, Signed32, Float32
  <2> QED
    BY <1>2, <2>2, <2>3, OthersHaveNone
<1>3. ASSUME CodecInv, stage = "failed", text # NoText
      PROVE  text.num \notin Holds(f)
  <2>1. decoded.k = "nonfinite" /\ decoded # NoValue /\ text \in Given
    BY <1>3 DEF CodecInv, Printed, CodecTyped, NoValue
  <2>2. f \notin {"u16", "s16"}
    BY <1>3, <2>1, OneRegister
  <2>3. f \in Formats32 /\ Count >= 2
    BY <1>3, <2>1, <2>2, OthersHaveNone
  <2> DEFINE w == Bits32(text.num, f).v
  <2>4. Bits32(text.num, f).ok /\ text.num \in Int
    BY <1>1, <1>3, <2>1, <2>3 DEF Given
  <2>5. f \in Float32 /\ decoded = Float32frombits(w)
    BY <1>1, <1>3, <2>1, <2>3 DEF Formats32
  <2>6. Float32frombits(w).k # "float"
    BY <2>1, <2>5
  <2> QED
    BY <2>3, <2>4, <2>5, <2>6, NumberComesBack
<1>4. ASSUME CodecInv, stage = "refused"
      PROVE  \/ text.form \in {"bad", "nan"}
             \/ text.form = "hexexpr" /\ ~isMultiRegisterFormat(f)
             \/ text.num \notin Holds(f)
  <2>1. text \in Given /\ (text.form \in {"hex", "dec"} => text.num % 2 = 0 /\ text.ten % 2 = 0)
    BY <1>4 DEF CodecInv, CodecTyped
  <2>2. CASE isMultiRegisterFormat(f)
    <3>1. ~encodeMultiRegister(text, f).ok /\ f \in Formats32 /\ text.num \in Int
      BY <1>4, <2>1, <2>2, MultiIs DEF CodecInv, Refused, Given
    <3>2. text.form \in {"bad", "nan"} \/ ~Bits32(text.num, f).ok
      BY <3>1 DEF encodeMultiRegister, evalNumber, Ok
    <3> QED
      BY <3>1, <3>2, RefusedNumber
  <2>3. CASE ~isMultiRegisterFormat(f)
    <3>1. text.form \in {"bad", "nan", "hexexpr"} \/ text.num \notin 0 .. 2 * (Half - 1)
      BY <1>4, <2>1, <2>3, OneNumber DEF CodecInv, Refused
    <3>2. Holds(f) = 0 .. 2 * (Half - 1)
      BY <2>3, MultiIs DEF Holds, Formats32
    <3> QED
      BY <2>3, <3>1, <3>2
  <2> QED
    BY <2>2, <2>3
<1>5. CodecInv => SetThenCat
  BY <1>2, <1>3, <1>4 DEF SetThenCat
<1> QED
  BY <1>5, CodecInvariant, PTL

-----------------------------------------------------------------------------
(* How an address is read.                                                 *)

\* tok is not in s.
Lacks(s, tok) == \A i \in 1 .. Len(s) : s[i] # tok

\* What Index returns: the first place, and only 0 if there is none.
LEMMA IndexIs ==
  ASSUME NEW S, NEW s \in Seq(S), NEW tok
  PROVE  IF Lacks(s, tok) THEN Index(s, tok) = 0
         ELSE /\ Index(s, tok) \in 1 .. Len(s)
              /\ s[Index(s, tok)] = tok
              /\ \A i \in 1 .. Index(s, tok) - 1 : s[i] # tok
<1> DEFINE I == {i \in 1 .. Len(s) : s[i] = tok}
<1>1. Index(s, tok) = IF I # {} THEN Min(I) ELSE 0
  BY DEF Index, SelectInSeq
<1>2. Lacks(s, tok) <=> I = {}
  BY DEF Lacks
<1>3. ASSUME I # {} PROVE Min(I) \in I /\ \A y \in I : Min(I) <= y
  <2>1. Len(s) \in Nat
    OBVIOUS
  <2>2. I \subseteq Nat
    BY <2>1
  <2> HIDE DEF I
  <2>3. \E x \in I : \A y \in I : x <= y
    BY <1>3, <2>2, LeastOf
  <2> QED
    BY <2>3 DEF Min
<1> HIDE DEF I
<1>4. I # {} => Min(I) \in I /\ \A y \in I : Min(I) <= y
  BY <1>3
<1>5. CASE I = {}
  BY <1>1, <1>2, <1>5
<1>6. CASE I # {}
  <2>1. Index(s, tok) \in I /\ \A y \in I : Index(s, tok) <= y
    BY <1>1, <1>4, <1>6
  <2>2. \A i \in 1 .. Len(s) : s[i] = tok => i \in I
    BY DEF I
  <2>3. Index(s, tok) \in 1 .. Len(s) /\ s[Index(s, tok)] = tok /\ Len(s) \in Nat
    BY <2>1 DEF I
  <2> QED
    BY <1>2, <1>6, <2>1, <2>2, <2>3
<1> QED
  BY <1>5, <1>6

\* A text with the first tok in the middle.
LEMMA IndexOfFirst ==
  ASSUME NEW S, NEW s \in Seq(S), NEW tok, NEW k \in 1 .. Len(s), s[k] = tok,
         \A i \in 1 .. k - 1 : s[i] # tok
  PROVE  Index(s, tok) = k
BY IndexIs DEF Lacks

\* A text taken apart at one of its tokens.
LEMMA Split ==
  ASSUME NEW S, NEW s \in Seq(S), NEW k \in 1 .. Len(s)
  PROVE  /\ Before(s, k) \in Seq(S) /\ Len(Before(s, k)) = k - 1
         /\ \A i \in 1 .. k - 1 : Before(s, k)[i] = s[i]
         /\ After(s, k) \in Seq(S) /\ Len(After(s, k)) = Len(s) - k
         /\ \A i \in 1 .. Len(s) - k : After(s, k)[i] = s[k + i]
         /\ s[k] \in S
         /\ s = Before(s, k) \o <<s[k]>> \o After(s, k)
<1>1. Before(s, k) \in Seq(S) /\ Len(Before(s, k)) = k - 1
      /\ \A i \in 1 .. k - 1 : Before(s, k)[i] = s[i]
  BY DEF Before
<1>2. After(s, k) \in Seq(S) /\ Len(After(s, k)) = Len(s) - k
      /\ \A i \in 1 .. Len(s) - k : After(s, k)[i] = s[k + i]
  BY DEF After
<1>3. s[k] \in S /\ <<s[k]>> \in Seq(S)
  BY ElementOfSeq
<1> DEFINE b == Before(s, k)
           a == After(s, k)
           t == b \o <<s[k]>> \o a
           e == s[k]
<1>4. b \in Seq(S) /\ a \in Seq(S) /\ Len(b) = k - 1 /\ Len(a) = Len(s) - k
      /\ (\A i \in 1 .. k - 1 : b[i] = s[i]) /\ \A i \in 1 .. Len(s) - k : a[i] = s[k + i]
  BY <1>1, <1>2
<1>9. e \in S /\ t = b \o <<e>> \o a
  BY <1>3
<1>10. b \in Seq(S) /\ a \in Seq(S)
  BY <1>4
<1> HIDE DEF b, a, e, t
<1>5. /\ t \in Seq(S) /\ Len(t) = Len(b) + 1 + Len(a)
      /\ t[Len(b) + 1] = e
      /\ \A i \in 1 .. Len(b) : t[i] = b[i]
      /\ \A i \in 1 .. Len(a) : t[Len(b) + 1 + i] = a[i]
  BY ONLY <1>9, <1>10
<1>6. Len(t) = Len(s)
  BY <1>4, <1>5
<1>7. ASSUME NEW i \in 1 .. Len(s) PROVE t[i] = s[i]
  <2>1. CASE i < k
    <3>1. i \in 1 .. k - 1 /\ i \in 1 .. Len(b)
      BY <1>4, <2>1
    <3> QED
      BY <1>4, <1>5, <3>1, Zenon
  <2>2. CASE i = k
    <3>1. t[Len(b) + 1] = e /\ Len(b) + 1 = i
      BY <1>4, <1>5, <2>2
    <3> QED
      BY <2>2, <3>1, Zenon DEF e
  <2>3. CASE i > k
    <3> DEFINE j == i - k
    <3>1. j \in 1 .. Len(a) /\ j \in 1 .. Len(s) - k /\ i = k + j /\ i = Len(b) + 1 + j
      BY <1>4, <2>3
    <3> HIDE DEF j
    <3> QED
      BY <1>4, <1>5, <3>1
  <2> QED
    BY <2>1, <2>2, <2>3
<1>8. s = t
  BY <1>5, <1>6, <1>7, SeqEqual
<1> QED
  BY <1>1, <1>2, <1>3, <1>8 DEF a, b, t, e

-----------------------------------------------------------------------------
\* The text after the kind is the numbers and, from its mark on, the format.
LEMMA FormatSplits ==
  ASSUME NEW S, NEW s \in Seq(S), Index(s, "/") = 2
  PROVE  /\ Numbers(s) \in Seq(S) /\ Format(s) \in Seq(S)
         /\ \/ After(s, 2) = Numbers(s) \o <<"@">> \o Format(s)
            \/ After(s, 2) = Numbers(s) \o <<"$">> \o Format(s) /\ Index(Format(s), "@") = 0
            \/ After(s, 2) = Numbers(s) /\ Format(s) = <<>>
<1> DEFINE r == After(s, 2)
           m == FormatMark(r)
<1>1. 2 \in 1 .. Len(s)
  BY IndexIs DEF Lacks
<1>2. r \in Seq(S)
  BY <1>1, Split
<1>3. /\ Numbers(s) = IF m = 0 THEN r ELSE Before(r, m)
      /\ Format(s) = IF m = 0 THEN <<>> ELSE After(r, m)
  BY DEF Numbers, Format
<1>4. m = IF Index(r, "@") # 0 THEN Index(r, "@") ELSE Index(r, "$")
  BY DEF FormatMark
<1> HIDE DEF r, m
<1>5. CASE m = 0
  BY <1>2, <1>3, <1>5 DEF r
<1>6. CASE m # 0
  <2>1. m \in 1 .. Len(r) /\ (r[m] = "@" \/ (r[m] = "$" /\ Lacks(r, "@")))
    BY <1>2, <1>4, <1>6, IndexIs
  <2>2. /\ Before(r, m) \in Seq(S) /\ After(r, m) \in Seq(S)
        /\ Len(After(r, m)) = Len(r) - m
        /\ \A i \in 1 .. Len(r) - m : After(r, m)[i] = r[m + i]
        /\ r = Before(r, m) \o <<r[m]>> \o After(r, m)
    BY ZenonT(60), <1>2, <2>1, Split
  <2>3. Lacks(r, "@") => Lacks(After(r, m), "@")
    BY <1>2, <2>1, <2>2 DEF Lacks
  <2>4. Lacks(r, "@") => Index(After(r, m), "@") = 0
    BY <2>2, <2>3, IndexIs
  <2> QED
    BY <1>3, <1>6, <2>1, <2>2, <2>4 DEF r
<1> QED
  BY <1>5, <1>6

\* The numbers are the address and, behind a colon, the count.
LEMMA CountSplits ==
  ASSUME NEW S, NEW s, Numbers(s) \in Seq(S)
  PROVE  IF Index(Numbers(s), ":") = 0
         THEN Numbers(s) = AddrPart(s) /\ CountPart(s) = <<>>
         ELSE Numbers(s) = AddrPart(s) \o <<":">> \o CountPart(s)
<1> DEFINE n == Numbers(s)
           k == Index(n, ":")
<1>1. AddrPart(s) = (IF k = 0 THEN n ELSE Before(n, k))
      /\ CountPart(s) = IF k = 0 THEN <<>> ELSE After(n, k)
  BY DEF AddrPart, CountPart
<1>2. k # 0 => k \in 1 .. Len(n) /\ n[k] = ":"
  BY IndexIs
<1> HIDE DEF n, k
<1>3. k # 0 => n = Before(n, k) \o <<":">> \o After(n, k)
  BY <1>2, Split DEF n
<1> QED
  BY <1>1, <1>3 DEF n, k

\* A sequence of one.
LEMMA One ==
  ASSUME NEW S, NEW s \in Seq(S), Len(s) = 1
  PROVE  s = <<s[1]>>
OBVIOUS

\* What IsUint16 accepts is a token for its number.
LEMMA Uint16IsToken ==
  ASSUME NEW s, IsUint16(s)
  PROVE  s[1] \in DOMAIN Decimals /\ <<s[1]>> \in Tokens(Decimals[s[1]]) /\ Len(s) = 1
BY DEF IsUint16, Tokens

\* A text may be put together in any order.
LEMMA Assemble ==
  ASSUME NEW S, NEW k \in Seq(S), NEW a \in Seq(S), NEW c \in Seq(S), NEW g \in Seq(S)
  PROVE  k \o ((a \o c) \o g) = k \o a \o c \o g
BY SMTT(60)

\* A token put between two texts, and nothing put behind one.
LEMMA Regroup ==
  ASSUME NEW S, NEW a \in Seq(S), NEW m \in S, NEW c \in Seq(S)
  PROVE  /\ <<m>> \in Seq(S) /\ <<m>> \o c \in Seq(S) /\ <<>> \in Seq(S)
         /\ a \o <<m>> \o c = a \o (<<m>> \o c)
         /\ a \o <<>> = a
OBVIOUS

\* Two tokens are a text.
LEMMA Pair ==
  ASSUME NEW S, NEW m \in S, NEW n \in S
  PROVE  <<m>> \o <<n>> = <<m, n>> /\ <<m, n>> \in Seq(S)
<1>1. <<m>> \o <<n>> \in Seq(S) /\ <<m, n>> \in Seq(S)
  OBVIOUS
<1>2. Len(<<m>> \o <<n>>) = 2 /\ Len(<<m, n>>) = 2
  OBVIOUS
<1>3. \A i \in 1 .. 2 : (<<m>> \o <<n>>)[i] = <<m, n>>[i]
  OBVIOUS
<1> QED
  BY <1>1, <1>2, <1>3, SeqEqual

\* A text with the parts of the grammar is one of it.
LEMMA PartsMakeText ==
  ASSUME NEW S, NEW p,
         NEW k \in Seq(S), NEW a \in Seq(S), NEW c \in Seq(S), NEW g \in Seq(S), NEW s,
         k = <<p.kind, "/">>, a \in Tokens(p.addr), c \in CountTexts(p), g \in FormatTexts(p),
         s = k \o ((a \o c) \o g)
  PROVE  IsTextOf(s, p)
<1>1. k \o ((a \o c) \o g) = k \o a \o c \o g
  BY ONLY SMTT(60), k \in Seq(S), a \in Seq(S), c \in Seq(S), g \in Seq(S)
<1>2. s = <<p.kind, "/">> \o a \o c \o g
  BY <1>1, Zenon
<1> QED
  BY <1>2, Zenon DEF IsTextOf

\* A text that is accepted is the text of what is returned.
LEMMA AcceptedIsText ==
  ASSUME NEW S, NEW s \in Seq(S), {"/", ":", "@", "$", "="} \subseteq S, IsReadSpec(s)
  PROVE  IsTextOf(s, ReadSpecOf(s))
<1> DEFINE p == ReadSpecOf(s)
           x == AddrPart(s)[1]
           c == IF Index(Numbers(s), ":") = 0 THEN <<>> ELSE <<":">> \o CountPart(s)
           f == Format(s)
           r == After(s, 2)
<1>1. Index(s, "/") = 2 /\ s[1] \in Kinds
  BY DEF IsReadSpec
<1>2. /\ Numbers(s) \in Seq(S) /\ f \in Seq(S)
      /\ \/ r = Numbers(s) \o <<"@">> \o f
         \/ r = Numbers(s) \o <<"$">> \o f /\ Index(f, "@") = 0
         \/ r = Numbers(s) /\ f = <<>>
  BY <1>1, FormatSplits
<1>3. <<x>> \in Tokens(Decimals[x]) /\ Len(AddrPart(s)) = 1 /\ x \in DOMAIN Decimals
  BY Uint16IsToken DEF IsReadSpec
<1>4. /\ AddrPart(s) \in Seq(S) /\ CountPart(s) \in Seq(S)
      /\ Numbers(s) = AddrPart(s) \o c
  <2>1. CASE Index(Numbers(s), ":") = 0
    <3>1. Numbers(s) = AddrPart(s) /\ CountPart(s) = <<>> /\ c = <<>>
      BY <1>2, <2>1, CountSplits
    <3>2. <<>> \in Seq(S) /\ Numbers(s) \o <<>> = Numbers(s)
      BY <1>2
    <3> QED
      BY <1>2, <3>1, <3>2
  <2>2. CASE Index(Numbers(s), ":") # 0
    <3>1. Index(Numbers(s), ":") \in 1 .. Len(Numbers(s))
      BY <1>2, <2>2, IndexIs
    <3>2. AddrPart(s) \in Seq(S) /\ CountPart(s) \in Seq(S)
      BY <1>2, <2>2, <3>1, Split DEF AddrPart, CountPart
    <3>3. Numbers(s) = AddrPart(s) \o <<":">> \o CountPart(s)
      BY <1>2, <2>2, CountSplits
    <3>4. AddrPart(s) \o <<":">> \o CountPart(s) = AddrPart(s) \o (<<":">> \o CountPart(s))
      BY <3>2, Regroup
    <3>5. <<":">> \o CountPart(s) = c
      BY <2>2
    <3> HIDE DEF c
    <3> QED
      BY <3>2, <3>3, <3>4, <3>5
  <2> QED
    BY <2>1, <2>2
<1>5. AddrPart(s) = <<x>>
  BY <1>3, <1>4, One
<1>6. c \in CountTexts(p)
  <2>1. CASE Index(Numbers(s), ":") = 0
    <3>1. CountPart(s) = <<>>
      BY <1>2, <2>1, CountSplits
    <3>2. p.count = 0
      BY <3>1 DEF ReadSpecOf
    <3> QED
      BY <2>1, <3>2 DEF CountTexts
  <2>2. CASE Index(Numbers(s), ":") # 0
    <3> DEFINE y == CountPart(s)[1]
    <3>1. <<y>> \in Tokens(Decimals[y]) /\ Len(CountPart(s)) = 1
      BY <2>2, Uint16IsToken DEF IsReadSpec
    <3>2. CountPart(s) = <<y>>
      BY <1>4, <3>1, One
    <3>5. Len(<<>>) # 1
      OBVIOUS
    <3>3. CountPart(s) # <<>>
      BY <3>1, <3>5, Zenon
    <3>4. p.count = Decimals[y]
      BY <3>3 DEF ReadSpecOf
    <3> QED
      BY <2>2, <3>1, <3>2, <3>4 DEF CountTexts
  <2> QED
    BY <2>1, <2>2
<1>7. p.kind = s[1] /\ p.addr = Decimals[x] /\ p.format = f
  BY DEF ReadSpecOf
<1> HIDE DEF r
<1>8. s = <<s[1], "/">> \o r /\ s[1] \in S /\ r \in Seq(S)
  <2>1. 2 \in 1 .. Len(s) /\ 1 \in 1 .. Len(s) /\ s[2] = "/"
    BY <1>1, IndexIs
  <2>7. 2 \in 1 .. Len(s)
    BY <2>1
  <2>5. /\ s = Before(s, 2) \o <<s[2]>> \o After(s, 2) /\ After(s, 2) \in Seq(S)
        /\ Before(s, 2) \in Seq(S) /\ Len(Before(s, 2)) = 2 - 1
        /\ \A i \in 1 .. 2 - 1 : Before(s, 2)[i] = s[i]
    BY ONLY s \in Seq(S), <2>7, Split, ZenonT(60)
  <2>6. 1 \in 1 .. 2 - 1 /\ 2 - 1 = 1
    OBVIOUS
  <2>2. /\ s = Before(s, 2) \o <<"/">> \o r /\ r \in Seq(S)
        /\ Before(s, 2) \in Seq(S) /\ Len(Before(s, 2)) = 1 /\ Before(s, 2)[1] = s[1]
    BY <2>1, <2>5, <2>6, Zenon DEF r
  <2> DEFINE b == Before(s, 2)
  <2>3. b = <<s[1]>> /\ s[1] \in S
    BY <2>1, <2>2, One, ElementOfSeq
  <2>4. <<s[1]>> \o <<"/">> = <<s[1], "/">>
    BY <2>3, Pair
  <2> HIDE DEF r, b
  <2> QED
    BY <2>2, <2>3, <2>4 DEF b
<1> DEFINE k == <<s[1], "/">>
           a == <<x>>
<1>9. /\ k \in Seq(S) /\ a \in Seq(S) /\ c \in Seq(S) /\ f \in Seq(S)
      /\ Numbers(s) = a \o c /\ s = k \o r /\ a \in Tokens(p.addr)
  <2>1. k \in Seq(S)
    BY <1>8, Pair
  <2>2. c \in Seq(S)
    <3>1. <<":">> \o CountPart(s) \in Seq(S) /\ <<>> \in Seq(S)
      BY <1>4, Regroup
    <3> QED
      BY <3>1
  <2> HIDE DEF c, f
  <2> QED
    BY <1>2, <1>3, <1>4, <1>5, <1>7, <1>8, <2>1, <2>2
<1> HIDE DEF k, a, c, f, p, x
<1>10. p.format = f
  BY <1>7
<1>11. \E g \in FormatTexts(p) : g \in Seq(S) /\ r = (a \o c) \o g
  <2>0. a \o c \in Seq(S) /\ (a \o c) \o <<>> = a \o c
    BY <1>9
  <2>1. CASE r = Numbers(s) /\ f = <<>>
    BY <1>9, <1>10, <2>0, <2>1 DEF FormatTexts
  <2>2. ASSUME NEW m \in {"@", "$"}, r = Numbers(s) \o <<m>> \o f
        PROVE  <<m>> \o f \in Seq(S) /\ r = (a \o c) \o (<<m>> \o f)
    <3>1. <<m>> \o f \in Seq(S)
      BY <1>9, Regroup
    <3>2. (a \o c) \o <<m>> \o f = (a \o c) \o (<<m>> \o f)
      BY SMTT(60), <1>9, <2>0, Regroup
    <3> QED
      BY <1>9, <2>2, <3>1, <3>2
  <2>3. <<"@">> \o f \in FormatTexts(p) /\ (Index(f, "@") = 0 => <<"$">> \o f \in FormatTexts(p))
    BY <1>10, Zenon DEF FormatTexts
  <2> QED
    BY <1>2, <2>1, <2>2, <2>3
<1>12. k = <<p.kind, "/">>
  BY <1>7 DEF k
<1>13. IsTextOf(s, p)
  BY <1>6, <1>9, <1>11, <1>12, PartsMakeText, Zenon
<1> QED
  BY <1>13 DEF p

-----------------------------------------------------------------------------
\* What an address and a count may be.
Uint16 == {x \in Nat : x < 65536}

\* What a token is.
LEMMA TokenIs ==
  ASSUME NEW x, NEW a \in Tokens(x)
  PROVE  \E d \in DOMAIN Decimals : a = <<d>> /\ Decimals[d] = x
BY Zenon DEF Tokens

\* A token that stands for a small number is what IsUint16 accepts, and no
\* separator.
LEMMA TokenIsUint16 ==
  ASSUME NEW x \in Uint16, NEW a \in Tokens(x)
  PROVE  /\ IsUint16(a) /\ a = <<a[1]>> /\ a[1] \in DOMAIN Decimals
         /\ \A m \in {"/", ":", "@", "$", "="} : a[1] # m
<1>1. PICK d \in DOMAIN Decimals : a = <<d>> /\ Decimals[d] = x
  BY TokenIs
<1>2. Len(a) = 1 /\ a[1] = d
  BY ONLY <1>1
<1>3. \A m \in {"/", ":", "@", "$", "="} : d # m
  BY AddressAssumption DEF AddressAssumption
<1> QED
  BY <1>1, <1>2, <1>3 DEF IsUint16, Uint16

\* Nowhere is nowhere in the parts.
LEMMA LacksIs ==
  ASSUME NEW S, NEW s \in Seq(S), NEW tok
  PROVE  Index(s, tok) = 0 <=> Lacks(s, tok)
BY IndexIs

\* A token is in a text if it is in one of its parts.
LEMMA LacksParts ==
  ASSUME NEW S, NEW s \in Seq(S), NEW t \in Seq(S), NEW tok
  PROVE  Lacks(s \o t, tok) <=> Lacks(s, tok) /\ Lacks(t, tok)
<1> DEFINE u == s \o t
<1>1. u \in Seq(S) /\ Len(u) = Len(s) + Len(t) /\ Len(s) \in Nat /\ Len(t) \in Nat
  OBVIOUS
<1>2. \A i \in 1 .. Len(s) : u[i] = s[i]
  OBVIOUS
<1>3. \A i \in 1 .. Len(t) : u[Len(s) + i] = t[i]
  OBVIOUS
<1>4. ASSUME NEW i \in 1 .. Len(u) PROVE i \in 1 .. Len(s) \/ (i - Len(s) \in 1 .. Len(t) /\ i = Len(s) + (i - Len(s)))
  BY <1>1
<1>5. \A i \in 1 .. Len(s) : i \in 1 .. Len(u)
  BY <1>1
<1>6. \A i \in 1 .. Len(t) : Len(s) + i \in 1 .. Len(u)
  BY <1>1
<1> HIDE DEF u
<1>7. ASSUME Lacks(u, tok) PROVE Lacks(s, tok) /\ Lacks(t, tok)
  BY <1>2, <1>3, <1>5, <1>6, <1>7 DEF Lacks
<1>8. ASSUME Lacks(s, tok), Lacks(t, tok) PROVE Lacks(u, tok)
  <2> SUFFICES ASSUME NEW i \in 1 .. Len(u) PROVE u[i] # tok
    BY DEF Lacks
  <2>1. CASE i \in 1 .. Len(s)
    BY <1>2, <1>8, <2>1 DEF Lacks
  <2>2. CASE i \notin 1 .. Len(s)
    <3> DEFINE j == i - Len(s)
    <3>1. j \in 1 .. Len(t) /\ i = Len(s) + j
      BY <1>4, <2>2
    <3> HIDE DEF j
    <3> QED
      BY <1>3, <1>8, <3>1 DEF Lacks
  <2> QED
    BY <2>1, <2>2
<1> QED
  BY <1>7, <1>8 DEF u

\* A token is in the text of a token if it is that token.
LEMMA LacksOne == ASSUME NEW e, NEW tok PROVE Lacks(<<e>>, tok) <=> e # tok
<1>1. Len(<<e>>) = 1 /\ <<e>>[1] = e
  OBVIOUS
<1> QED
  BY <1>1 DEF Lacks

\* How texts are put together, where it does not matter what concatenation is.
Joined(s, t, e, u) == s = t \o <<e>> \o u
Behind(s, k, r) == s = <<k, "/">> \o r

\* The first place of a separator that is not in front of it.
LEMMA FirstAfter ==
  ASSUME NEW S, NEW t \in Seq(S), NEW e \in S, NEW u \in Seq(S), NEW s, Joined(s, t, e, u),
         Lacks(t, e)
  PROVE  /\ Index(s, e) = Len(t) + 1 /\ Index(s, e) # 0
         /\ Before(s, Index(s, e)) = t /\ After(s, Index(s, e)) = u
<1>1. s \in Seq(S) /\ Len(s) = Len(t) + 1 + Len(u)
      /\ s[Len(t) + 1] = e
      /\ (\A i \in 1 .. Len(t) : s[i] = t[i])
      /\ (\A i \in 1 .. Len(u) : s[Len(t) + 1 + i] = u[i])
  BY DEF Joined
<1>2. Len(t) + 1 \in 1 .. Len(s) /\ Len(t) \in Nat /\ Len(u) \in Nat
  BY <1>1
<1>3. Before(s, Len(t) + 1) = t
  <2>1. /\ Before(s, Len(t) + 1) \in Seq(S) /\ Len(Before(s, Len(t) + 1)) = Len(t)
        /\ \A i \in 1 .. Len(t) : Before(s, Len(t) + 1)[i] = t[i]
    BY <1>1, <1>2 DEF Before
  <2> QED
    BY <2>1, SeqEqual
<1>4. After(s, Len(t) + 1) = u
  <2>1. /\ After(s, Len(t) + 1) \in Seq(S) /\ Len(After(s, Len(t) + 1)) = Len(u)
        /\ \A i \in 1 .. Len(u) : After(s, Len(t) + 1)[i] = u[i]
    BY <1>1, <1>2 DEF After
  <2> QED
    BY <2>1, SeqEqual
<1>5. \A i \in 1 .. (Len(t) + 1) - 1 : s[i] # e
  BY <1>1, <1>2 DEF Lacks
<1>6. Index(s, e) = Len(t) + 1
  BY <1>1, <1>2, <1>5, IndexOfFirst
<1> QED
  BY <1>2, <1>3, <1>4, <1>6

\* What is in neither part is not in the whole.
LEMMA LacksJoined ==
  ASSUME NEW S, NEW t \in Seq(S), NEW e \in S, NEW u \in Seq(S), NEW s, Joined(s, t, e, u),
         NEW tok, Lacks(t, tok), Lacks(u, tok), e # tok
  PROVE  Lacks(s, tok)
<1>1. s = t \o <<e>> \o u
  BY DEF Joined
<1>2. <<e>> \in Seq(S) /\ t \o <<e>> \in Seq(S)
  BY ONLY t \in Seq(S), e \in S
<1>3. Lacks(<<e>>, tok)
  BY LacksOne
<1>4. Lacks(t \o <<e>>, tok)
  BY ONLY t \in Seq(S), Lacks(t, tok), <1>2, <1>3, LacksParts
<1> QED
  BY ONLY u \in Seq(S), Lacks(u, tok), <1>1, <1>2, <1>4, LacksParts

\* A token is in what follows a kind, or it is not in the whole.
LEMMA LacksBehind ==
  ASSUME NEW S, NEW k \in S, "/" \in S, NEW r \in Seq(S), NEW t, Behind(t, k, r),
         NEW tok, Lacks(r, tok), k # tok, tok # "/"
  PROVE  Lacks(t, tok)
<1>1. t = <<k, "/">> \o r
  BY DEF Behind
<1>2. <<k, "/">> \in Seq(S) /\ <<k, "/">> = <<k>> \o <<"/">> /\ <<k>> \in Seq(S) /\ <<"/">> \in Seq(S)
  BY Pair
<1>3. Lacks(<<k>>, tok) /\ Lacks(<<"/">>, tok)
  BY LacksOne
<1>4. Lacks(<<k, "/">>, tok)
  BY ONLY ZenonT(60), <1>2, <1>3, LacksParts
<1> QED
  BY ONLY r \in Seq(S), Lacks(r, tok), <1>1, <1>2, <1>4, LacksParts

\* The kind, and what is behind it, are found again.
LEMMA KindBack ==
  ASSUME NEW S, NEW k \in S, "/" \in S, k # "/", NEW r \in Seq(S), NEW t, Behind(t, k, r)
  PROVE  t \in Seq(S) /\ Index(t, "/") = 2 /\ After(t, 2) = r /\ t[1] = k
<1>1. <<k>> \in Seq(S) /\ Len(<<k>>) = 1 /\ Lacks(<<k>>, "/")
  BY LacksOne
<1>2. <<k, "/">> = <<k>> \o <<"/">>
  BY Pair
<1>3. t = <<k>> \o <<"/">> \o r
  BY <1>2 DEF Behind
<1>4. t \in Seq(S) /\ t[1] = k
  BY ONLY k \in S, "/" \in S, r \in Seq(S), <1>3
<1>5. Index(t, "/") = Len(<<k>>) + 1 /\ After(t, Index(t, "/")) = r
  <2>1. PICK a \in Seq(S), m \in S : a = <<k>> /\ m = "/"
    BY <1>1
  <2>2. Joined(t, a, m, r) /\ Lacks(a, m)
    BY <1>1, <1>3, <2>1 DEF Joined
  <2>3. Index(t, m) = Len(a) + 1 /\ After(t, Index(t, m)) = r
    BY <2>2, FirstAfter, ZenonT(60)
  <2> QED
    BY <2>1, <2>3
<1>6. Index(t, "/") = 2
  BY <1>1, <1>5
<1> QED
  BY <1>4, <1>5, <1>6

\* And so is the format, whatever is in it.
LEMMA FormatBack ==
  ASSUME NEW S, "@" \in S, "$" \in S, NEW n \in Seq(S), Lacks(n, "@"), Lacks(n, "$"),
         NEW f \in Seq(S), NEW r,
         Joined(r, n, "@", f) \/ (Joined(r, n, "$", f) /\ Index(f, "@") = 0) \/ r = n,
         NEW t, Index(t, "/") = 2, After(t, 2) = r
  PROVE  Numbers(t) = n
<1>1. Numbers(t) = IF FormatMark(r) = 0 THEN r ELSE Before(r, FormatMark(r))
  BY DEF Numbers
<1>2. CASE r = n
  <2>1. Index(r, "@") = 0 /\ Index(r, "$") = 0
    BY <1>2, LacksIs
  <2> QED
    BY <1>1, <1>2, <2>1 DEF FormatMark
<1>3. CASE Joined(r, n, "@", f)
  <2>1. Index(r, "@") # 0 /\ Before(r, Index(r, "@")) = n
    BY <1>3, FirstAfter
  <2> QED
    BY <1>1, <2>1 DEF FormatMark
<1>4. CASE Joined(r, n, "$", f) /\ Index(f, "@") = 0
  <2>1. Index(r, "$") # 0 /\ Before(r, Index(r, "$")) = n
    BY <1>4, FirstAfter
  <2>2. Index(r, "@") = 0
    <3>1. Lacks(f, "@")
      BY <1>4, LacksIs
    <3>2. Lacks(r, "@")
      BY <1>4, <3>1, LacksJoined
    <3>3. r \in Seq(S)
      BY <1>4 DEF Joined
    <3> QED
      BY <3>2, <3>3, LacksIs
  <2> QED
    BY <1>1, <2>1, <2>2 DEF FormatMark
<1> QED
  BY <1>2, <1>3, <1>4

\* And so are the address and the count.
LEMMA NumbersBack ==
  ASSUME NEW S, NEW a \in Seq(S), Lacks(a, ":"), ":" \in S, NEW d \in Seq(S), NEW t,
         Numbers(t) = a \/ Joined(Numbers(t), a, ":", d)
  PROVE  /\ AddrPart(t) = a
         /\ Index(Numbers(t), ":") # 0 => CountPart(t) = d
<1>1. CASE Numbers(t) = a
  <2>1. Index(a, ":") = 0
    BY LacksIs
  <2> QED
    BY <1>1, <2>1 DEF AddrPart
<1>2. CASE Joined(Numbers(t), a, ":", d)
  <2>1. /\ Index(Numbers(t), ":") # 0
        /\ Before(Numbers(t), Index(Numbers(t), ":")) = a
        /\ After(Numbers(t), Index(Numbers(t), ":")) = d
    BY <1>2, FirstAfter
  <2> QED
    BY <2>1 DEF AddrPart, CountPart
<1> QED
  BY <1>1, <1>2

\* The texts of a count, and of a format.
LEMMA CountTextIs ==
  ASSUME NEW p, NEW c \in CountTexts(p)
  PROVE  c = <<>> \/ \E y \in Tokens(p.count) : c = <<":">> \o y
BY DEF CountTexts

\* The same of a format.
LEMMA FormatTextIs ==
  ASSUME NEW p, NEW g \in FormatTexts(p)
  PROVE  \/ g = <<>> \/ g = <<"@">> \o p.format
         \/ g = <<"$">> \o p.format /\ Index(p.format, "@") = 0
BY DEF FormatTexts

\* A token is a text of one.
LEMMA TokenIsText ==
  ASSUME NEW S, DOMAIN Decimals \subseteq S, NEW x, NEW a \in Tokens(x)
  PROVE  a \in Seq(S)
<1>1. PICK d \in DOMAIN Decimals : a = <<d>> /\ Decimals[d] = x
  BY TokenIs
<1>2. d \in S
  OBVIOUS
<1> QED
  BY ONLY <1>1, <1>2

\* The parts of a text of the grammar, as the lemmas above want them.
LEMMA TextParts ==
  ASSUME NEW S, {"/", ":", "@", "$", "="} \subseteq S, DOMAIN Decimals \subseteq S,
         NEW p, p.kind \in S, p.format \in Seq(S), NEW t, IsTextOf(t, p)
  PROVE  \E x \in Tokens(p.addr), n \in Seq(S), r \in Seq(S) :
           /\ Behind(t, p.kind, r)
           /\ n = x \/ \E y \in Tokens(p.count) : Joined(n, x, ":", y)
           /\ \/ Joined(r, n, "@", p.format)
              \/ Joined(r, n, "$", p.format) /\ Index(p.format, "@") = 0
              \/ r = n
<1>1. PICK x \in Tokens(p.addr), c \in CountTexts(p), g \in FormatTexts(p) :
        t = <<p.kind, "/">> \o x \o c \o g
  BY Zenon DEF IsTextOf
<1> DEFINE f == p.format
<1>2. f \in Seq(S)
  OBVIOUS
<1>3. \A y \in Tokens(p.count) : y \in Seq(S)
  BY TokenIsText, Zenon
<1>4. x \in Seq(S)
  BY TokenIsText, Zenon
<1>5. c = <<>> \/ \E y \in Tokens(p.count) : c = <<":">> \o y
  BY CountTextIs, Zenon
<1>13. "@" \in S /\ "$" \in S /\ ":" \in S
  OBVIOUS
<1>14. ASSUME NEW m \in S, NEW h \in Seq(S) PROVE <<m>> \o h \in Seq(S)
  BY ONLY m \in S, h \in Seq(S)
<1>6. c \in Seq(S)
  <2>1. \A y \in Tokens(p.count) : <<":">> \o y \in Seq(S)
    BY <1>3, <1>13, <1>14
  <2>2. <<>> \in Seq(S)
    OBVIOUS
  <2> QED
    BY <1>5, <2>1, <2>2, Zenon
<1>7. g = <<>> \/ g = <<"@">> \o f \/ (g = <<"$">> \o f /\ Index(f, "@") = 0)
  BY FormatTextIs, Zenon
<1>8. g \in Seq(S)
  <2>1. <<>> \in Seq(S) /\ <<"@">> \o f \in Seq(S) /\ <<"$">> \o f \in Seq(S)
    BY ONLY <1>2, <1>13
  <2> QED
    BY <1>7, <2>1, Zenon
<1> HIDE DEF f
<1> DEFINE n == x \o c
           r == n \o g
           k == <<p.kind, "/">>
<1>9. n \in Seq(S) /\ r \in Seq(S)
  BY ONLY <1>4, <1>6, <1>8
<1>10. n = x \/ \E y \in Tokens(p.count) : n = x \o <<":">> \o y
  <2>1. CASE c = <<>>
    BY ONLY <1>4, <2>1
  <2>2. ASSUME NEW y \in Tokens(p.count), c = <<":">> \o y PROVE n = x \o <<":">> \o y
    <3>1. y \in Seq(S)
      BY <1>3
    <3>2. x \o <<":">> \o y = x \o (<<":">> \o y)
      BY ONLY <1>4, <1>13, <3>1
    <3> QED
      BY ONLY <2>2, <3>2
  <2> QED
    BY <1>5, <2>1, <2>2, Zenon
<1>11. \/ r = n \o <<"@">> \o f
       \/ r = n \o <<"$">> \o f /\ Index(f, "@") = 0
       \/ r = n
  <2> HIDE DEF n
  <2>1. CASE g = <<>>
    BY ONLY <1>9, <2>1
  <2>2. ASSUME NEW m \in S, g = <<m>> \o f PROVE r = n \o <<m>> \o f
    <3>1. n \o <<m>> \o f = n \o (<<m>> \o f)
      BY ONLY m \in S, <1>2, <1>9
    <3> QED
      BY ONLY <2>2, <3>1
  <2> QED
    BY <1>7, <1>13, <2>1, <2>2, Zenon
<1>12. t = k \o r
  <2>1. \A h \in Seq(S) : h \o x \o c \o g = h \o ((x \o c) \o g)
    BY ONLY SMTT(60), <1>4, <1>6, <1>8
  <2>2. k \in Seq(S)
    BY Pair, Zenon
  <2> QED
    BY <1>1, <2>1, <2>2, Zenon
<1> QED
  <2>1. Behind(t, p.kind, r)
    BY <1>12, Zenon DEF Behind
  <2>2. n = x \/ \E y \in Tokens(p.count) : Joined(n, x, ":", y)
    BY <1>10, Zenon DEF Joined
  <2>3. \/ Joined(r, n, "@", p.format)
        \/ Joined(r, n, "$", p.format) /\ Index(p.format, "@") = 0
        \/ r = n
    BY <1>11, Zenon DEF Joined, f
  <2> HIDE DEF n, r
  <2> QED
    BY <1>4, <1>9, <2>1, <2>2, <2>3, Zenon

\* What the grammar allows is accepted.
LEMMA TextIsAccepted ==
  ASSUME NEW S, {"/", ":", "@", "$", "="} \subseteq S, DOMAIN Decimals \subseteq S, Kinds \subseteq S,
         NEW p, p.kind \in Kinds, p.addr \in Uint16, p.count \in Uint16,
         p.format \in Seq(S), NEW t, IsTextOf(t, p)
  PROVE  /\ t \in Seq(S) /\ IsReadSpec(t)
         /\ Index(p.format, "=") = 0 => Index(t, "=") = 0
<1>0. PICK k, f : k = p.kind /\ f = p.format
  OBVIOUS
<1>1. PICK x \in Tokens(p.addr), n \in Seq(S), r \in Seq(S) :
        /\ Behind(t, k, r)
        /\ n = x \/ \E y \in Tokens(p.count) : Joined(n, x, ":", y)
        /\ Joined(r, n, "@", f) \/ (Joined(r, n, "$", f) /\ Index(f, "@") = 0) \/ r = n
  BY <1>0, TextParts, Zenon
<1>2. k \in S /\ k # "/" /\ k # "=" /\ f \in Seq(S)
  BY <1>0 DEF Kinds
<1>3. "/" \in S /\ ":" \in S /\ "@" \in S /\ "$" \in S /\ "=" \in S
  OBVIOUS
<1>4. PICK y \in Seq(S) : n = x \/ (Joined(n, x, ":", y) /\ y \in Tokens(p.count))
  <2>1. CASE n = x
    BY <1>2, <2>1
  <2>2. CASE \E y \in Tokens(p.count) : Joined(n, x, ":", y)
    BY <2>2, TokenIsText, Zenon
  <2> QED
    BY <1>1, <2>1, <2>2
<1>5. IsUint16(x) /\ \A m \in {"/", ":", "@", "$", "="} : Lacks(x, m)
  <2>1. IsUint16(x) /\ x = <<x[1]>> /\ \A m \in {"/", ":", "@", "$", "="} : x[1] # m
    BY TokenIsUint16
  <2> QED
    BY ONLY <2>1, LacksOne, Zenon
<1>6. n # x => IsUint16(y) /\ \A m \in {"/", ":", "@", "$", "="} : Lacks(y, m)
  <2> SUFFICES ASSUME n # x PROVE IsUint16(y) /\ \A m \in {"/", ":", "@", "$", "="} : Lacks(y, m)
    OBVIOUS
  <2>1. IsUint16(y) /\ y = <<y[1]>> /\ \A m \in {"/", ":", "@", "$", "="} : y[1] # m
    BY <1>4, TokenIsUint16
  <2> QED
    BY ONLY <2>1, LacksOne, Zenon
<1>7. x \in Seq(S)
  BY TokenIsText, Zenon
\* No token of the numbers is another separator than the colon.
<1>8. ASSUME NEW m \in {"@", "$", "="} PROVE Lacks(n, m)
  <2>1. Lacks(x, m)
    BY <1>5
  <2>2. CASE n = x
    BY <2>1, <2>2, Zenon
  <2>3. CASE n # x
    <3>1. Joined(n, x, ":", y)
      BY <1>4, <2>3
    <3>2. Lacks(y, m)
      BY <1>6, <2>3
    <3> QED
      BY <1>3, <1>7, <2>1, <3>1, <3>2, LacksJoined
  <2> QED
    BY <2>2, <2>3
<1>9. t \in Seq(S) /\ Index(t, "/") = 2 /\ After(t, 2) = r /\ t[1] = k
  BY <1>1, <1>2, <1>3, KindBack
<1>10. Numbers(t) = n
  <2>1. Lacks(n, "@") /\ Lacks(n, "$")
    BY <1>8
  <2> QED
    BY <1>1, <1>2, <1>3, <1>9, <2>1, FormatBack
<1>11. /\ AddrPart(t) = x
       /\ Index(Numbers(t), ":") # 0 => CountPart(t) = y
  <2>1. Lacks(x, ":")
    BY <1>5
  <2> QED
    BY <1>3, <1>4, <1>7, <1>10, <2>1, NumbersBack
<1>12. n = x => Index(Numbers(t), ":") = 0
  <2>1. Lacks(x, ":")
    BY <1>5
  <2> QED
    BY <1>7, <1>10, <2>1, LacksIs
<1>13. IsReadSpec(t)
  <2>1. k \in Kinds
    BY <1>0
  <2> QED
    BY <1>5, <1>6, <1>9, <1>11, <1>12, <2>1, Zenon DEF IsReadSpec
<1>14. ASSUME Index(f, "=") = 0 PROVE Index(t, "=") = 0
  <2>1. Lacks(f, "=") /\ Lacks(n, "=")
    BY <1>2, <1>8, <1>14, LacksIs
  <2>2. ASSUME NEW m \in {"@", "$"}, Joined(r, n, m, f) PROVE Lacks(r, "=")
    BY <1>2, <1>3, <2>1, <2>2, LacksJoined
  <2>3. Lacks(r, "=")
    BY <1>1, <2>1, <2>2, Zenon
  <2>4. Lacks(t, "=")
    BY <1>1, <1>2, <1>3, <2>3, LacksBehind
  <2> QED
    BY <1>9, <2>4, LacksIs
<1>15. Index(p.format, "=") = 0 => Index(t, "=") = 0
  BY <1>0, <1>14, Zenon
<1> QED
  BY <1>9, <1>13, <1>15, Zenon

-----------------------------------------------------------------------------
\* What is known of a text while it is read.

\* The typed text, taken apart at its first =.
Divided ==
  IF typed.cmd = "cat" THEN addrText = typed.tokens /\ valueText = <<>>
  ELSE /\ Index(typed.tokens, "=") # 0
       /\ addrText = Before(typed.tokens, Index(typed.tokens, "="))
       /\ valueText = After(typed.tokens, Index(typed.tokens, "="))

AddrInv ==
  /\ typed \in Typed
  /\ progress \in {"pair", "address", "done", "error"}
  /\ progress = "pair" => typed.cmd = "set"
  /\ progress \in {"address", "done"} => Divided
  /\ progress = "done" => IsReadSpec(addrText) /\ parsed = ReadSpecOf(addrText)
  /\ progress = "error" =>
       \/ typed.cmd = "set" /\ Index(typed.tokens, "=") = 0
       \/ Divided /\ ~IsReadSpec(addrText)

\* Every step of the parser keeps it.
LEMMA AddrInvHolds == AddrSpec => []AddrInv
<1>1. AddrInit => AddrInv
  <2> SUFFICES ASSUME AddrInit PROVE AddrInv
    OBVIOUS
  <2>1. typed.cmd \in {"cat", "set"}
    BY AddressAssumption DEF AddressAssumption, AddrInit
  <2> QED
    BY <2>1 DEF AddrInit, AddrStart, AddrInv, Divided
<1>2. AddrInv /\ [AddrNext]_addrVars => AddrInv'
  <2> SUFFICES ASSUME AddrInv, [AddrNext]_addrVars PROVE AddrInv'
    OBVIOUS
  <2>1. CASE SplitPair
    BY <2>1 DEF SplitPair, AddrInv, Divided
  <2>2. CASE ParseReadSpec
    BY <2>2, Zenon DEF ParseReadSpec, AddrInv, Divided
  <2>3. CASE RefuseSpec
    BY <2>3, Zenon DEF RefuseSpec, AddrInv, Divided
  <2>4. CASE UNCHANGED addrVars
    BY <2>4 DEF addrVars, AddrInv, Divided
  <2> QED
    BY <2>1, <2>2, <2>3, <2>4 DEF AddrNext
<1> QED
  BY <1>1, <1>2, PTL DEF AddrSpec

\* What is behind a place is in the text.
LEMMA LacksAfter ==
  ASSUME NEW S, NEW s \in Seq(S), NEW k \in 0 .. Len(s), NEW tok, Lacks(s, tok)
  PROVE  After(s, k) \in Seq(S) /\ Lacks(After(s, k), tok)
<1>1. /\ After(s, k) \in Seq(S) /\ Len(After(s, k)) = Len(s) - k
      /\ \A i \in 1 .. Len(s) - k : After(s, k)[i] = s[k + i]
  BY DEF After
<1> QED
  BY <1>1 DEF Lacks

\* The format has no token that the text has not.
LEMMA FormatLacks ==
  ASSUME NEW S, NEW s \in Seq(S), NEW tok, Lacks(s, tok)
  PROVE  Format(s) \in Seq(S) /\ Lacks(Format(s), tok)
<1>1. \A t \in Seq(S), m \in {"/", "@", "$"} : Index(t, m) \in 0 .. Len(t)
  BY IndexIs
<1> DEFINE r == After(s, Index(s, "/"))
<1>2. r \in Seq(S) /\ Lacks(r, tok)
  BY <1>1, LacksAfter
<1> HIDE DEF r
<1>3. Format(s) = IF FormatMark(r) = 0 THEN <<>> ELSE After(r, FormatMark(r))
  BY DEF Format, r
<1>4. FormatMark(r) \in 0 .. Len(r)
  BY <1>1, <1>2 DEF FormatMark
<1>5. <<>> \in Seq(S) /\ Lacks(<<>>, tok)
  BY DEF Lacks
<1>6. After(r, FormatMark(r)) \in Seq(S) /\ Lacks(After(r, FormatMark(r)), tok)
  BY <1>2, <1>4, LacksAfter
<1> QED
  BY <1>3, <1>5, <1>6

\* The invariant is what the grammar is read by: what is accepted is a text of
\* what is returned.
LEMMA DoneIsTyped ==
  ASSUME NEW S, {"/", ":", "@", "$", "="} \subseteq S, typed.tokens \in Seq(S),
         AddrInv, progress = "done"
  PROVE  IsTypedFor(typed.tokens, parsed, valueText)
<1> DEFINE s == typed.tokens
           k == Index(s, "=")
<1>1. IsReadSpec(addrText) /\ parsed = ReadSpecOf(addrText) /\ Divided
  BY Zenon DEF AddrInv
<1>2. CASE typed.cmd = "cat"
  <2>1. addrText = s /\ valueText = <<>>
    BY <1>1, <1>2, Zenon DEF Divided
  <2>2. IsTextOf(s, parsed)
    BY <1>1, <2>1, AcceptedIsText, Zenon
  <2> QED
    BY <1>2, <2>1, <2>2, Zenon DEF IsTypedFor
<1>3. CASE typed.cmd # "cat"
  <2>1. k # 0 /\ addrText = Before(s, k) /\ valueText = After(s, k)
    BY <1>1, <1>3, Zenon DEF Divided
  <2>2. k \in 1 .. Len(s) /\ s[k] = "=" /\ \A i \in 1 .. k - 1 : s[i] # "="
    BY <2>1, IndexIs
  <2>3. /\ addrText \in Seq(S) /\ Len(addrText) = k - 1
        /\ \A i \in 1 .. k - 1 : addrText[i] = s[i]
    <3>1. PICK m : m = k
      OBVIOUS
    <3>2. m \in 1 .. Len(s) /\ addrText = Before(s, m)
      BY <2>1, <2>2, <3>1
    <3>3. s \in Seq(S)
      OBVIOUS
    <3> HIDE DEF s
    <3>4. /\ addrText \in Seq(S) /\ Len(addrText) = m - 1
          /\ \A i \in 1 .. m - 1 : addrText[i] = s[i]
      BY ONLY ZenonT(60), <3>2, <3>3, Split
    <3> QED
      BY <3>1, <3>4, Zenon
  <2>4. IsTextOf(addrText, parsed)
    BY <1>1, <2>3, AcceptedIsText, Zenon
  <2>5. Lacks(addrText, "=")
    BY <2>2, <2>3 DEF Lacks
  <2>6. parsed.format = Format(addrText)
    BY <1>1 DEF ReadSpecOf
  <2>7. Index(parsed.format, "=") = 0
    BY <2>3, <2>5, <2>6, FormatLacks, LacksIs, Zenon
  <2>8. k \in DOMAIN s
    BY <2>2
  <2> QED
    BY <1>3, <2>1, <2>2, <2>4, <2>7, <2>8, Zenon DEF IsTypedFor
<1> QED
  BY <1>2, <1>3

\* And what is refused is the text of nothing.
LEMMA ErrorIsNotTyped ==
  ASSUME NEW S, {"/", ":", "@", "$", "="} \subseteq S, DOMAIN Decimals \subseteq S,
         Kinds \subseteq S, typed.tokens \in Seq(S), AddrInv, progress = "error",
         NEW p, p.kind \in Kinds, p.addr \in Uint16, p.count \in Uint16, p.format \in Seq(S),
         NEW v
  PROVE  ~IsTypedFor(typed.tokens, p, v)
<1> SUFFICES ASSUME IsTypedFor(typed.tokens, p, v) PROVE FALSE
  OBVIOUS
<1> DEFINE s == typed.tokens
<1>1. \A t : IsTextOf(t, p) => IsReadSpec(t) /\ (Index(p.format, "=") = 0 => Index(t, "=") = 0)
  BY TextIsAccepted, Zenon
<1>2. CASE typed.cmd = "cat"
  <2>1. IsReadSpec(s)
    BY <1>1, <1>2, Zenon DEF IsTypedFor
  <2> QED
    BY <1>2, <2>1, Zenon DEF AddrInv, Divided
<1>3. CASE typed.cmd # "cat"
  <2>1. PICK k \in DOMAIN s :
          s[k] = "=" /\ Index(p.format, "=") = 0 /\ IsTextOf(Before(s, k), p)
    BY <1>3, Zenon DEF IsTypedFor
  <2>2. IsReadSpec(Before(s, k)) /\ Index(Before(s, k), "=") = 0
    BY <1>1, <2>1, Zenon
  <2>3. k \in 1 .. Len(s)
    OBVIOUS
  <2>4. Index(s, "=") = k
    <3>1. Before(s, k) \in Seq(S) /\ Len(Before(s, k)) = k - 1
          /\ \A i \in 1 .. k - 1 : Before(s, k)[i] = s[i]
      <4>1. s \in Seq(S)
        OBVIOUS
      <4> HIDE DEF s
      <4> QED
        BY ONLY ZenonT(60), <2>3, <4>1, Split
    <3>2. Lacks(Before(s, k), "=")
      BY <2>2, <3>1, LacksIs, Zenon
    <3>3. \A i \in 1 .. k - 1 : s[i] # "="
      BY <3>1, <3>2 DEF Lacks
    <3> QED
      <4>1. s \in Seq(S) /\ s[k] = "="
        BY <2>1
      <4> HIDE DEF s
      <4> QED
        BY ONLY <2>3, <3>3, <4>1, IndexOfFirst
  <2>5. k # 0
    BY <2>3
  <2> QED
    BY <1>3, <2>2, <2>4, <2>5, Zenon DEF AddrInv, Divided
<1> QED
  BY <1>2, <1>3

\* The values of a function that are below a bound.
LEMMA Below ==
  ASSUME NEW A, NEW D \in [A -> Nat], NEW B \in SUBSET A, NEW m \in Nat,
         NEW x \in {D[d] : d \in {d \in B : D[d] < m}}
  PROVE  x \in Nat /\ x < m
OBVIOUS

\* The numbers of a text are small.
LEMMA Uint16sAre == ASSUME NEW s, NEW x \in Uint16s(s) PROVE x \in Uint16
<1>1. Decimals \in [DOMAIN Decimals -> Nat]
  BY AddressAssumption DEF AddressAssumption
<1>2. PICK m \in Nat : m = 65536
  OBVIOUS
<1>3. PICK A, B : A = DOMAIN Decimals /\ B = A \cap ToSet(s)
  OBVIOUS
<1>4. x \in {Decimals[d] : d \in {d \in B : Decimals[d] < m}}
  BY <1>2, <1>3 DEF Uint16s
<1>5. Decimals \in [A -> Nat] /\ B \in SUBSET A
  BY <1>1, <1>3
<1>6. x \in Nat /\ x < m
  BY ONLY m \in Nat, <1>4, <1>5, Below
<1> QED
  BY ONLY <1>2, <1>6 DEF Uint16

\* What is accepted is the text of what is returned, and what is refused has no
\* reading.
THEOREM SpecExactHolds == AddrSpec => []SpecExact
<1>1. AddrInv => SpecExact
  <2> SUFFICES ASSUME AddrInv PROVE SpecExact
    OBVIOUS
  <2> DEFINE S == STRING \cup {"/", ":", "@", "$", "="} \cup Kinds
             s == typed.tokens
  <2>1. {"/", ":", "@", "$", "="} \subseteq S /\ Kinds \subseteq S /\ STRING \subseteq S
    OBVIOUS
  <2>2. DOMAIN Decimals \subseteq S /\ Decimals \in [DOMAIN Decimals -> Nat]
    BY AddressAssumption DEF AddressAssumption
  <2>3. s \in Seq(STRING)
    BY AddressAssumption DEF AddressAssumption, AddrInv
  <2> HIDE DEF S
  <2>4. s \in Seq(S)
    BY <2>1, <2>3, SeqMonotonic, Zenon
  <2>5. progress = "done" => IsTypedFor(s, parsed, valueText)
    BY <2>1, <2>4, DoneIsTyped, Zenon
  <2>6. ASSUME progress = "error",
               NEW k \in Kinds \cap ToSet(s), NEW a \in Uint16s(s), NEW c \in {0} \cup Uint16s(s),
               NEW f \in SubSeqs(s), NEW v \in Suffixes(s)
        PROVE  ~IsTypedFor(s, [kind |-> k, addr |-> a, count |-> c, format |-> f], v)
    <3> DEFINE p == [kind |-> k, addr |-> a, count |-> c, format |-> f]
    <3>1. a \in Uint16 /\ c \in Uint16
      <4>1. \A x \in Uint16s(s) : x \in Uint16
        BY Uint16sAre, Zenon
      <4>2. 0 \in Uint16
        BY DEF Uint16
      <4> QED
        BY <4>1, <4>2, Zenon
    <3>2. f \in Seq(S)
      <4>1. PICK i, j \in 0 .. Len(s) : f = SubSeq(s, i + 1, j)
        BY DEF SubSeqs
      <4> QED
        BY <2>4, <4>1
    <3>3. p.kind \in Kinds /\ p.addr \in Uint16 /\ p.count \in Uint16 /\ p.format \in Seq(S)
      BY <3>1, <3>2
    <3> HIDE DEF p
    <3>4. ~IsTypedFor(s, p, v)
      BY <2>1, <2>2, <2>4, <2>6, <3>3, ErrorIsNotTyped, Zenon
    <3> QED
      BY <3>4 DEF p
  <2> QED
    BY <2>5, <2>6 DEF SpecExact
<1> QED
  BY <1>1, AddrInvHolds, PTL
=============================================================================
