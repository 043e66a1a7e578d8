---------------------------- MODULE RegisterCodec ---------------------------
(***************************************************************************)
(* What pc makes of the registers of a Modbus device: how set turns the    *)
(* text of a value into one or two registers, in the byte order that the   *)
(* format names, and how cat turns registers back into a number.  The code *)
(* has the byte orders three times: to encode, to decode, and to show the  *)
(* bytes that were decoded.  (How registers travel is ModbusExchange.)     *)
(*                                                                         *)
(* A number (the float64 that a text gives) is an integer that counts      *)
(* halves, so that there is something to round.  The number of byte values *)
(* is a parameter, and so is which numbers have a float32: a number is     *)
(* rounded to one that has.                                                *)
(***************************************************************************)
EXTENDS Integers, Sequences

CONSTANTS
  Radix,     \* number of byte values, 256 in the code
  Inf,       \* the bits of the float +Inf; those below are the floats from 0 on
  Magnitude, \* the number, in halves, that such bits stand for; for Inf it is
             \* the one that would come next
  Specs,     \* inputs: records [format, count], count 0 if there is none
  Texts,     \* inputs of set: records [form, num, ten]
  Contents   \* inputs of cat: what the four bytes of two registers may be

Forms == {"dec", "hex", "expr", "hexexpr", "nan", "bad"}

Half == Radix * Radix  \* the values of one register
Word == Half * Half    \* and of two

ASSUME CodecAssumption ==
  /\ Radix \in Nat \ {0} /\ Radix % 2 = 0
  /\ Inf \in Nat \ {0} /\ 2 * Inf < Word  \* the highest bit is the sign
  /\ Magnitude \in [0 .. Inf -> Nat] /\ Magnitude[0] = 0
  /\ \A m, n \in 0 .. Inf : m < n => Magnitude[m] < Magnitude[n]
  /\ Specs \subseteq [format : STRING, count : Nat]
  /\ Texts \subseteq [form : Forms, num : Int, ten : Int]
  /\ \A t \in Texts : t.form \in {"hex", "dec"} => t.num % 2 = 0 /\ t.ten % 2 = 0
  /\ Contents \subseteq [1 .. 4 -> 0 .. Radix - 1]

VARIABLES
  spec,     \* format and count of the address
  text,     \* the value given to set, or NoText
  regs,     \* the four bytes of the two registers at the address
  stage,    \* "set", "cat", or how it ended: "refused", "failed", "printed"
  decoded,  \* what cat prints as the value, or NoValue
  shown     \* what cat prints as the bytes of the value

codecVars == <<spec, text, regs, stage, decoded, shown>>

NoText == [form |-> "none", num |-> 0, ten |-> 0]
NoValue == [k |-> "none", v |-> 0]
-----------------------------------------------------------------------------
(* Numbers.                                                                *)

Trunc(x) == IF x >= 0 THEN x \div 2 ELSE -((-x) \div 2)
Round(x) == IF x >= 0 THEN (x + 1) \div 2 ELSE -((1 - x) \div 2)
Signed(w, size) == IF w >= size \div 2 THEN w - size ELSE w

\* float32(x), which rounds to the nearest float and halfway to even bits, and
\* to an infinity from halfway beyond the greatest float on.
Rounded(x) ==
  CHOOSE n \in 0 .. Inf :
    /\ n # 0 => \/ Magnitude[n - 1] + Magnitude[n] < 2 * x
                \/ Magnitude[n - 1] + Magnitude[n] = 2 * x /\ n % 2 = 0
    /\ n # Inf => \/ 2 * x < Magnitude[n] + Magnitude[n + 1]
                  \/ 2 * x = Magnitude[n] + Magnitude[n + 1] /\ n % 2 = 0

SignBit == Word \div 2
Float32bits(x) == IF x < 0 THEN SignBit + Rounded(-x) ELSE Rounded(x)

\* Bits from Inf on are an infinity or not a number.
Float32frombits(w) ==
  LET n == w % SignBit
  IN IF n >= Inf THEN [k |-> "nonfinite", v |-> 0]
     ELSE [k |-> "float", v |-> IF w < SignBit THEN Magnitude[n] ELSE -Magnitude[n]]

BigEndian(b) == ((b[1] * Radix + b[2]) * Radix + b[3]) * Radix + b[4]
PutBigEndian(w) ==
  <<(w \div (Radix * Half)) % Radix, (w \div Half) % Radix, (w \div Radix) % Radix, w % Radix>>

ABCD == <<1, 2, 3, 4>>
DCBA == <<4, 3, 2, 1>>
CDAB == <<3, 4, 1, 2>>
BADC == <<2, 1, 4, 3>>
Ordered(b, order) == [i \in DOMAIN order |-> b[order[i]]]
LittleEndian4(b) == BigEndian(Ordered(b, DCBA))
-----------------------------------------------------------------------------
(* Texts.  form says how one is written: "dec" digits, "hex" 0x and digits,*)
(* "expr" any other literal or expression, "hexexpr" one that begins with  *)
(* 0x, "nan" one without a finite value, "bad" none of these.  num is what *)
(* it denotes in Go, ten what its digits denote in base ten: for 010 they  *)
(* differ.                                                                 *)

\* A number, or a refusal: [ok, v].
Ok(x) == [ok |-> TRUE, v |-> x]
Refusal == [ok |-> FALSE, v |-> 0]

\* evalNumber and the test for a finite result that both callers make.
evalNumber(t) == IF t.form \in {"bad", "nan"} THEN Refusal ELSE Ok(t.num)

WithinU16(x) == IF x \in 0 .. Half - 1 THEN Ok(x) ELSE Refusal

toU16(t) ==
  CASE t.form = "hex" -> WithinU16(Trunc(t.num))
    [] t.form = "hexexpr" -> Refusal
    [] t.form = "dec" /\ WithinU16(Trunc(t.ten)).ok -> WithinU16(Trunc(t.ten))
    [] OTHER -> LET e == evalNumber(t) IN IF e.ok THEN WithinU16(Round(e.v)) ELSE e
-----------------------------------------------------------------------------
(* Variants with a bug, named after what they stand in for.                *)

\* One alias is missing among the formats with two registers.
TwoByDefault_NoAlias ==
  {"u32", "u32le", "u32ws", "u32bs", "u32wbs", "s32", "s32le", "s32ws",
   "f32", "f32be", "f32le", "f32ws", "f32bs", "f32wbs", "f32abcd", "f32cdab", "f32badc"}

\* The conversion wraps around, as it does without the test of the range.
Bits32_Unchecked(x, f) ==
  IF f \in {"u32", "u32le", "u32ws", "u32bs", "u32wbs", "s32", "s32le", "s32ws"}
  THEN Ok(Trunc(x) % Word) ELSE Ok(Float32bits(x))

\* Words and bytes are confused, in the one direction and in the other.
DecodeBits_Swapped(b, f) ==
  IF f \in {"u32ws", "s32ws", "f32ws", "f32cdab"} THEN BigEndian(Ordered(b, BADC))
  ELSE IF f \in {"u32bs", "f32bs", "f32badc"} THEN BigEndian(Ordered(b, CDAB))
  ELSE BigEndian(b)

\* cat shows the bytes as they were read.
decodedBytes_AsRead(b, f) == SubSeq(b, 1, IF Len(b) >= 4 THEN 4 ELSE 2)
-----------------------------------------------------------------------------
(* Formats.                                                                *)

\* The formats for which Read takes two registers if no count is given.
TwoByDefault == {"u32", "u32le", "u32ws", "u32bs", "u32wbs", "s32", "s32le", "s32ws",
                 "f32", "f32be", "f32le", "f32ws", "f32bs", "f32wbs",
                 "f32abcd", "f32cdab", "f32badc", "f32dcba"}

isMultiRegisterFormat(f) ==
  f \in {"u32", "u32le", "u32ws", "u32bs", "u32wbs", "s32", "s32le", "s32ws",
         "f32", "f32be", "f32le", "f32ws", "f32bs", "f32wbs",
         "f32abcd", "f32cdab", "f32badc", "f32dcba"}

\* The 32 bits that stand for x (in halves), by kind of format.
Bits32(x, f) ==
  CASE f \in {"u32", "u32le", "u32ws", "u32bs", "u32wbs"} ->
         IF x \in 0 .. 2 * (Word - 1) THEN Ok(Trunc(x)) ELSE Refusal
    [] f \in {"s32", "s32le", "s32ws"} ->
         IF x \in -Word .. 2 * (Word \div 2 - 1) THEN Ok(Trunc(x) % Word) ELSE Refusal
    [] OTHER -> Ok(Float32bits(x))

EncodeOrder(f) ==
  CASE f \in {"u32", "s32", "f32", "f32be", "f32abcd"} -> ABCD
    [] f \in {"u32le", "u32wbs", "s32le", "f32le", "f32dcba", "f32wbs"} -> DCBA
    [] f \in {"u32ws", "s32ws", "f32ws", "f32cdab"} -> CDAB
    [] f \in {"u32bs", "f32bs", "f32badc"} -> BADC

encodeMultiRegister(t, f) ==
  LET e == evalNumber(t)
      bits == Bits32(e.v, f)
  IN IF e.ok /\ bits.ok THEN Ok(Ordered(PutBigEndian(bits.v), EncodeOrder(f))) ELSE Refusal

\* The bytes are brought into the order of a big-endian number; for the le
\* formats they stay and are read as little-endian.
DecodeBits(b, f) ==
  CASE f \in {"u32", "s32", "f32", "f32be", "f32abcd"} -> BigEndian(b)
    [] f \in {"u32le", "s32le", "f32le"} -> LittleEndian4(b)
    [] f \in {"u32bs", "f32bs", "f32badc"} -> BigEndian(Ordered(b, BADC))
    [] f \in {"u32wbs", "f32wbs", "f32dcba"} -> BigEndian(Ordered(b, DCBA))
    [] f \in {"u32ws", "s32ws", "f32ws", "f32cdab"} -> BigEndian(Ordered(b, CDAB))

decodeFormat(b, f) ==
  CASE f = "u16" /\ Len(b) >= 2 -> [k |-> "int", v |-> b[1] * Radix + b[2]]
    [] f = "s16" /\ Len(b) >= 2 -> [k |-> "int", v |-> Signed(b[1] * Radix + b[2], Half)]
    [] f \in {"u32", "u32le", "u32ws", "u32bs", "u32wbs"} /\ Len(b) >= 4 ->
         [k |-> "int", v |-> DecodeBits(b, f)]
    [] f \in {"s32", "s32le", "s32ws"} /\ Len(b) >= 4 ->
         [k |-> "int", v |-> Signed(DecodeBits(b, f), Word)]
    [] f \in {"f32", "f32be", "f32abcd", "f32le", "f32ws", "f32cdab", "f32bs", "f32badc",
              "f32wbs", "f32dcba"} /\ Len(b) >= 4 -> Float32frombits(DecodeBits(b, f))
    [] OTHER -> NoValue

\* cat shows the bytes of a value by a table of its own.
decodedBytes(b, f) ==
  CASE f \in {"u16", "s16"} /\ Len(b) >= 2 -> SubSeq(b, 1, 2)
    [] f \in {"u32", "s32", "f32", "f32be", "f32abcd", "u32le", "s32le", "f32le"}
         /\ Len(b) >= 4 -> SubSeq(b, 1, 4)
    [] f \in {"u32bs", "f32bs", "f32badc"} /\ Len(b) >= 4 -> Ordered(b, BADC)
    [] f \in {"u32ws", "s32ws", "f32ws", "f32cdab"} /\ Len(b) >= 4 -> Ordered(b, CDAB)
    [] f \in {"u32wbs", "f32wbs", "f32dcba"} /\ Len(b) >= 4 -> Ordered(b, DCBA)
    [] OTHER -> <<>>
-----------------------------------------------------------------------------
CodecInit ==
  /\ spec \in Specs
  /\ \/ text \in Texts /\ stage = "set"
     \/ text = NoText /\ stage = "cat"
  /\ regs \in Contents
  /\ decoded = NoValue
  /\ shown = <<>>

\* Write: the format alone decides between two registers and one.
SetTwo ==
  /\ stage = "set" /\ isMultiRegisterFormat(spec.format)
  /\ LET e == encodeMultiRegister(text, spec.format)
     IN /\ regs' = IF e.ok THEN e.v ELSE regs
        /\ stage' = IF e.ok THEN "cat" ELSE "refused"
  /\ UNCHANGED <<spec, text, decoded, shown>>

SetOne ==
  /\ stage = "set" /\ ~isMultiRegisterFormat(spec.format)
  /\ LET e == toU16(text)
     IN /\ regs' = IF e.ok THEN <<e.v \div Radix, e.v % Radix, regs[3], regs[4]>> ELSE regs
        /\ stage' = IF e.ok THEN "cat" ELSE "refused"
  /\ UNCHANGED <<spec, text, decoded, shown>>

Count == IF spec.count # 0 THEN spec.count
         ELSE IF spec.format \in TwoByDefault THEN 2 ELSE 1

\* What cannot be decoded is printed without a value; a float that is not
\* finite ends the command.
Cat ==
  /\ stage = "cat"
  /\ LET read == SubSeq(regs, 1, 2 * Count)
     IN /\ decoded' = decodeFormat(read, spec.format)
        /\ shown' = decodedBytes(read, spec.format)
  /\ stage' = IF decoded'.k = "nonfinite" THEN "failed" ELSE "printed"
  /\ UNCHANGED <<spec, text, regs>>

CodecNext == SetTwo \/ SetOne \/ Cat

CodecSpec == CodecInit /\ [][CodecNext]_codecVars
-----------------------------------------------------------------------------
(* Properties.                                                             *)

Unsigned32 == {"u32", "u32le", "u32ws", "u32bs", "u32wbs"}
Signed32 == {"s32", "s32le", "s32ws"}
Float32 == {"f32", "f32be", "f32le", "f32ws", "f32bs", "f32wbs",
            "f32abcd", "f32cdab", "f32badc", "f32dcba"}

\* The finite floats, and those of them that are nearest to a number.
Floats == UNION {{Magnitude[n], -Magnitude[n]} : n \in 0 .. Inf - 1}
Distance(x, y) == IF x >= y THEN x - y ELSE y - x
NearestFloat(x, v) == v \in Floats /\ \A u \in Floats : Distance(x, v) <= Distance(x, u)

\* What a number may read back as: rounded to the nearest to fit one register,
\* without its fraction to fit two, and as the nearest float.  010 is ten or
\* eight.
MayReadBack(t, f, v) ==
  CASE f \in Unsigned32 \cup Signed32 -> v = Trunc(t.num)
    [] f \in Float32 -> NearestFloat(t.num, v)
    [] f = "u16" -> v \in {Round(t.num), Round(t.ten)}
    [] f = "s16" -> v \in {Signed(Round(t.num), Half), Signed(Round(t.ten), Half)}
    [] OTHER -> FALSE

\* What a format holds, in halves.  Nothing negative is written to one
\* register, not even for s16.
Holds(f) == CASE f \in Unsigned32 -> 0 .. 2 * (Word - 1)
              [] f \in Signed32 -> -Word .. Word - 2
              [] f \in Float32 -> -Magnitude[Inf - 1] .. Magnitude[Inf - 1]
              [] OTHER -> 0 .. 2 * (Half - 1)

\* What set has written, cat prints again, in every format and with every way
\* to write a number: encodeMultiRegister and toU16 agree with decodeFormat.
\* A number that the format cannot hold is refused and never reads back as
\* another one (a float too great is written as an infinity, and cat fails);
\* one that it can hold is only brought to the nearest value that the format
\* has, or cut off for integers of two registers (where the README says that an
\* expression is rounded to the nearest integer).
SetThenCat ==
  /\ stage = "printed" /\ text # NoText /\ decoded # NoValue =>
       MayReadBack(text, spec.format, decoded.v)
  /\ stage = "failed" /\ text # NoText => text.num \notin Holds(spec.format)
  /\ stage = "refused" =>
       \/ text.form \in {"bad", "nan"}
       \/ text.form = "hexexpr" /\ ~isMultiRegisterFormat(spec.format)
       \/ text.num \notin Holds(spec.format)

\* The order that the README gives to each format (f32 is f32be).
Documented(f) ==
  CASE f \in {"u32", "s32", "f32", "f32be", "f32abcd"} -> ABCD
    [] f \in {"u32ws", "s32ws", "f32ws", "f32cdab"} -> CDAB
    [] f \in {"u32bs", "f32bs", "f32badc"} -> BADC
    [] f \in {"u32le", "s32le", "f32le", "u32wbs", "f32wbs", "f32dcba"} -> DCBA

\* A device that keeps a number in the documented order is read rightly: the
\* value printed is that of its bytes A, B, C and D.
DocumentedOrder ==
  stage = "printed" /\ spec.format \in Unsigned32 \cup Signed32 \cup Float32
    /\ decoded # NoValue =>
    \E w \in 0 .. Word - 1 :
      /\ regs = Ordered(PutBigEndian(w), Documented(spec.format))
      /\ decoded.v = CASE spec.format \in Unsigned32 -> w
                       [] spec.format \in Signed32 -> Signed(w, Word)
                       [] spec.format \in Float32 -> Float32frombits(w).v

\* The bytes printed beside a value are those that it was made of: read in
\* their order (backwards for le) they give the value (decodedBytes claims to
\* mirror decodeFormat).
BytesShown ==
  stage = "printed" /\ decoded # NoValue =>
    IF spec.format \in {"u16", "s16"} THEN decoded.v % Half = shown[1] * Radix + shown[2]
    ELSE LET w == IF spec.format \in {"u32le", "s32le", "f32le"}
                  THEN LittleEndian4(shown) ELSE BigEndian(shown)
         IN decoded.v = CASE spec.format \in Unsigned32 -> w
                          [] spec.format \in Signed32 -> Signed(w, Word)
                          [] spec.format \in Float32 -> Float32frombits(w).v

\* With the count left out, enough registers are read: the only value left
\* out is that of a format that the code does not know.
CountSuffices ==
  stage = "printed" /\ spec.count = 0 /\ decoded = NoValue =>
    spec.format \notin Unsigned32 \cup Signed32 \cup Float32 \cup {"u16", "s16"}
=============================================================================
