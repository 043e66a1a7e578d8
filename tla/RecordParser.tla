---------------------------- MODULE RecordParser ----------------------------
(***************************************************************************)
(* parseRecords of pkg/proto/mbus/decode.go: how the records of an M-Bus   *)
(* telegram are taken apart.  A record is                                  *)
(*     DIF DIFE* VIF VIFE* [length] value                                  *)
(* and nothing but these bytes says where the next one begins, so that one *)
(* wrong length makes nonsense of all that follows.  What comes from the   *)
(* bus may also end anywhere.                                              *)
(*                                                                         *)
(* Names of quantities and units are left out: vi says whether the VIF is  *)
(* known, how the value is to be read, and what it is multiplied with      *)
(* (m times ten to the e).  The bits of a float are kept as they are.      *)
(***************************************************************************)
EXTENDS Integers, Sequences, SequencesExt

CONSTANTS
  StorageMod,  \* how many storage numbers there are, 2^64 in the code
  TariffMod,   \* how many tariffs there are, 2^64 in the code
  Telegrams    \* what meters send: sequences of [bytes, shows], the bytes of
               \* one item and the records (at most one) that it stands for

ASSUME ParserAssumption ==
  /\ StorageMod \in Nat \ {0, 1}
  /\ TariffMod \in Nat \ {0, 1}
  /\ \A t \in Telegrams : t.bytes \in Seq(0 .. 255)

VARIABLES
  telegram,  \* what the meter meant
  data,      \* what has come of it
  pos,       \* how many bytes are consumed
  step,      \* which part of a record is next
  cur,       \* the last byte of a chain of extensions
  rec,       \* the record under construction
  records    \* the records returned

parserVars == <<telegram, data, pos, step, cur, rec, records>>

Octet == 0 .. 255
More(b) == b >= 128  \* the extension bit
-----------------------------------------------------------------------------
(* What a VIF means.                                                       *)

Vi(known, type, m, e) == [known |-> known, type |-> type, m |-> m, e |-> e]
Plain(e) == Vi(TRUE, "normal", 1, e)
Text == Vi(TRUE, "string", 1, 0)
UnknownVif == Vi(FALSE, "normal", 1, 0)

decodeVIF(vif) ==
  LET v == vif % 128
      n == v % 8
  IN CASE v \in 0 .. 7 \cup 24 .. 31 \cup 40 .. 47 \cup 80 .. 87 -> Plain(n - 3)
       [] v \in 8 .. 15 \cup 48 .. 55 -> Plain(n)
       [] v \in 16 .. 23 \cup 56 .. 63 -> Plain(n - 6)
       [] v \in 64 .. 71 -> Plain(n - 7)
       [] v \in 72 .. 79 -> Plain(n - 9)
       [] v \in 88 .. 107 -> Plain((n % 4) - 3)
       [] v = 108 -> Vi(TRUE, "date", 1, 0)
       [] v = 109 -> Vi(TRUE, "datetime", 1, 0)
       [] v = 124 -> Text
       [] v \in {123, 125} -> UnknownVif
       [] OTHER -> Plain(0)

\* Seconds, minutes, hours, days; the code's month and year.
TimeFactor == <<1, 60, 3600, 86400>>

decodeFDVIFE(vife) ==
  LET v == vife % 128
  IN CASE v \in 0 .. 7 -> Plain((v % 4) - 3)
       [] v \in {10} \cup 12 .. 17 -> Text
       [] v \in 36 .. 39 \cup 44 .. 55 -> Vi(TRUE, "normal", TimeFactor[(v % 4) + 1], 0)
       [] v \in {40, 56} -> Vi(TRUE, "normal", 2629744, 0)
       [] v \in {41, 57} -> Vi(TRUE, "normal", 31556926, 0)
       [] v \in 64 .. 79 -> Plain((v % 16) - 9)
       [] v \in 80 .. 95 -> Plain((v % 16) - 12)
       [] v \in {42, 43} \cup 59 .. 63 \cup 113 .. 126 -> UnknownVif
       [] OTHER -> Plain(0)

decodeFBVIFE(vife) ==
  LET v == vife % 128
  IN CASE v \in {0, 1, 24, 25, 40, 41} -> Plain(5 + (v % 8))
       [] v \in {8, 9, 48, 49} -> Plain(8 + (v % 8))
       [] v \in {16, 17} -> Plain(2 + (v % 8))
       [] v \in {33, 34} -> Plain(-1)
       [] v \in {35, 37, 38} -> Plain(0)
       [] v = 36 -> Plain(-3)
       [] v \in 88 .. 103 \cup 112 .. 119 -> Plain((v % 4) - 3)
       [] v \in 120 .. 127 -> Plain((v % 8) - 3)
       [] OTHER -> UnknownVif
-----------------------------------------------------------------------------
(* Values.  Each is [k, v]: how it is to be understood, and its parts.     *)

Val(k, v) == [k |-> k, v |-> v]
Failed(raw) == Val("error", raw)

\* A number from its digits, the lowest one first.
Number(digit, base, n) ==
  LET from[i \in 1 .. n + 1] == IF i = n + 1 THEN 0 ELSE digit[i] + base * from[i + 1]
  IN from[1]

\* Least significant byte first, two's complement; only some lengths.
decodeSigned(b) ==
  LET n == Len(b)
  IN Number([i \in 1 .. n |-> IF i = n /\ b[n] >= 128 THEN b[n] - 256 ELSE b[i]], 256, n)

SignedLength == {1, 2, 3, 4, 6, 8}

\* Two digits in each byte; a digit above 9 counts for what it is.
decodeBCD(b) == Number([i \in 1 .. Len(b) |-> 10 * (b[i] \div 16) + (b[i] % 16)], 100, Len(b))

\* Year, month, day.
decodeTypeGDate(b) ==
  LET word == b[1] + 256 * b[2]
  IN <<word \div 512, (word \div 32) % 16, word % 32>>

\* Year, month, day, hour, minute; the year from two groups of three bits.
decodeTypeFDatetime(b) ==
  <<b[3] \div 32 + 8 * ((b[4] \div 16) % 8), b[4] % 16, b[3] % 32, b[2] % 32, b[1] % 64>>

\* Stored back to front; zeros at the end of the text are cut off.
decodeString(b) ==
  LET s == Reverse(b)
      n == CHOOSE n \in 0 .. Len(s) : /\ n # 0 => s[n] # 0
                                     /\ \A i \in n + 1 .. Len(s) : s[i] = 0
  IN SubSeq(s, 1, n)

\* An exponent of ones: an infinity, or not a number.
Finite(b) == ~(b[4] % 128 = 127 /\ b[3] >= 128)

\* The VIF decides before the data field does; lengths that are too short for
\* a date are shown in hexadecimal.
decodeValue(b, df, vi) ==
  CASE b = <<>> -> Val("none", <<>>)
    [] b # <<>> /\ vi.type = "string" -> Val("text", decodeString(b))
    [] b # <<>> /\ vi.type = "date" ->
         IF Len(b) < 2 THEN Val("hex", b) ELSE Val("date", decodeTypeGDate(b))
    [] b # <<>> /\ vi.type = "datetime" ->
         IF Len(b) < 4 THEN Val("hex", b) ELSE Val("datetime", decodeTypeFDatetime(b))
    [] b # <<>> /\ vi.type = "normal" ->
         IF df \in {9, 10, 11, 12, 14} THEN Val("number", <<decodeBCD(b), vi.m, vi.e>>)
         ELSE IF df = 5
           THEN IF Finite(b) THEN Val("float", b \o <<vi.m, vi.e>>) ELSE Failed(b)
         ELSE IF Len(b) \in SignedLength THEN Val("number", <<decodeSigned(b), vi.m, vi.e>>)
         ELSE Failed(b)
-----------------------------------------------------------------------------
(* The fixed header: identification, manufacturer, version, medium, access *)
(* number, status and two bytes of signature.                              *)

decodeBCDID(b) == Reverse(b)  \* the bytes, printed as hexadecimal digits

\* Variant with a bug: the bytes are taken the other way round.
decodeMfr_Swapped(lo, hi) ==
  LET word == hi + 256 * lo
  IN [i \in 1 .. 3 |-> 64 + ((word \div 32^(3 - i)) % 32)]

decodeMfr(lo, hi) ==
  LET word == lo + 256 * hi
  IN [i \in 1 .. 3 |-> 64 + ((word \div 32^(3 - i)) % 32)]

HeaderLength == 12

DecodedHeader(b) ==
  [id |-> decodeBCDID(SubSeq(b, 1, 4)), mfr |-> decodeMfr(b[5], b[6]),
   version |-> b[7], medium |-> b[8], access |-> b[9], status |-> b[10]]

VariableData == 114  \* the CI 0x72
-----------------------------------------------------------------------------
(* Variants with a bug, named after what they stand in for.                *)

\* The length byte of a variable record is taken for data.
ValueStart_LengthKept == pos

\* The shift is done in a type wide enough for any storage number.
AddStorage_Wide(r, b) == r.storage + ((b \div 2) % 16) * r.sweight
-----------------------------------------------------------------------------
\* A weight is what the next bits of its number count: they are shifted as far.
EmptyRecord == [fn |-> 0, df |-> 0, storage |-> 0, sweight |-> 2, tariff |-> 0,
                tweight |-> 1, vi |-> UnknownVif]

ParserStart ==
  /\ pos = 0
  /\ step = "ci"
  /\ cur = 0
  /\ rec = EmptyRecord
  /\ records = <<>>

ParserInit ==
  /\ telegram \in Telegrams
  /\ \E cut \in 1 .. Len(telegram.bytes) : data = SubSeq(telegram.bytes, 1, cut)
  /\ ParserStart

Here == data[pos + 1]
Left == pos < Len(data)

ControlInformation ==
  /\ step = "ci"
  /\ pos' = pos + 1
  /\ step' = IF Here # VariableData THEN "unsupported"
             ELSE IF Len(data) < 1 + HeaderLength THEN "error"
             ELSE "header"
  /\ UNCHANGED <<telegram, data, cur, rec, records>>

Header ==
  /\ step = "header"
  /\ pos' = pos + HeaderLength
  /\ step' = "record"
  /\ UNCHANGED <<telegram, data, cur, rec, records>>

Filler ==
  /\ step = "record" /\ Left /\ Here = 47
  /\ pos' = pos + 1
  /\ UNCHANGED <<telegram, data, step, cur, rec, records>>

\* Manufacturer data follows, or nothing.
EndMark ==
  /\ step = "record"
  /\ Left => Here \in {15, 31}
  /\ step' = "done"
  /\ UNCHANGED <<telegram, data, pos, cur, rec, records>>

Dif ==
  /\ step = "record" /\ Left /\ Here \notin {15, 31, 47}
  /\ pos' = pos + 1
  /\ step' = "dife"
  /\ cur' = Here
  /\ rec' = [EmptyRecord EXCEPT !.fn = (Here \div 16) % 4, !.df = Here % 16,
                                !.storage = (Here \div 64) % 2]
  /\ UNCHANGED <<telegram, data, records>>

\* Four bits of storage number and two of tariff; what is shifted beyond the
\* width is gone.
AddStorage(r, b) == (r.storage + ((b \div 2) % 16) * r.sweight) % StorageMod
AddTariff(r, b) == (r.tariff + ((b \div 32) % 4) * r.tweight) % TariffMod

Dife ==
  /\ step = "dife" /\ More(cur) /\ Left
  /\ pos' = pos + 1
  /\ cur' = Here
  /\ rec' = [rec EXCEPT !.storage = AddStorage(rec, Here),
                        !.sweight = (16 * @) % StorageMod,
                        !.tariff = AddTariff(rec, Here),
                        !.tweight = (4 * @) % TariffMod]
  /\ UNCHANGED <<telegram, data, step, records>>

\* FD and FB (with the extension bit, as they always have it) lead to tables
\* of their own.
Vif ==
  /\ step = "dife" /\ ~More(cur) /\ Left
  /\ pos' = pos + 1
  /\ cur' = Here
  /\ step' = CASE Here = 253 -> "fd" [] Here = 251 -> "fb" [] OTHER -> "vife"
  /\ rec' = [rec EXCEPT !.vi = decodeVIF(Here)]
  /\ UNCHANGED <<telegram, data, records>>

SecondVif ==
  /\ step \in {"fd", "fb"} /\ Left
  /\ pos' = pos + 1
  /\ cur' = Here
  /\ step' = "vife"
  /\ rec' = [rec EXCEPT !.vi = IF step = "fd" THEN decodeFDVIFE(Here) ELSE decodeFBVIFE(Here)]
  /\ UNCHANGED <<telegram, data, records>>

\* Further VIFEs are skipped.
Vife ==
  /\ step = "vife" /\ More(cur) /\ Left
  /\ pos' = pos + 1
  /\ cur' = Here
  /\ UNCHANGED <<telegram, data, step, rec, records>>

AtValue == step = "vife" /\ ~(More(cur) /\ Left)

Variable == rec.df = 13
DataLen == <<0, 1, 2, 3, 4, 4, 6, 8, 0, 1, 2, 3, 4, 0, 6, 0>>
ValueStart == IF Variable THEN pos + 1 ELSE pos

\* Variant with a bug: the length byte has a sign.
ValueLength_Signed ==
  IF Variable THEN Here - (IF More(Here) THEN 256 ELSE 0) ELSE DataLen[rec.df + 1]

ValueLength == IF Variable THEN Here ELSE DataLen[rec.df + 1]
ValueFits == (Variable => Left) /\ ValueStart + ValueLength <= Len(data)

Shown(raw) == [fn |-> rec.fn, storage |-> rec.storage, tariff |-> rec.tariff,
               known |-> rec.vi.known, value |-> decodeValue(raw, rec.df, rec.vi)]

Value ==
  /\ AtValue /\ ValueFits
  /\ pos' = ValueStart + ValueLength
  /\ step' = "record"
  /\ records' = Append(records, Shown(SubSeq(data, ValueStart + 1, pos')))
  /\ UNCHANGED <<telegram, data, cur, rec>>

\* The data ends inside a record: what there is of it is dropped.
Truncated ==
  /\ \/ step \in {"dife", "fd", "fb"} /\ ~Left
     \/ AtValue /\ ~ValueFits
  /\ step' = "done"
  /\ UNCHANGED <<telegram, data, pos, cur, rec, records>>

ParserNext ==
  \/ ControlInformation \/ Header
  \/ Filler \/ EndMark \/ Dif \/ Dife \/ Vif \/ SecondVif \/ Vife
  \/ Value \/ Truncated

ParserSpec == ParserInit /\ [][ParserNext]_parserVars
-----------------------------------------------------------------------------
(* What a meter sends.  A value is what the bytes of the data field encode *)
(* as the kind of its field says, and is stated from the value to the      *)
(* bytes: integers in two's complement, numbers of decimal digits, floats  *)
(* by their bits, dates and times of types G and F, text back to front.    *)
(* What a VIF means is taken from the tables of the code, for want of      *)
(* others.  Left out is what the code does not take apart: texts from 192  *)
(* bytes on, of which the length byte says something else, VIFs in plain   *)
(* text (124), and fields of other lengths than their VIF is for.          *)

\* What is left of x when its lowest digits are taken off one by one.
Rest(x, base, n) ==
  LET rest[i \in 1 .. n] == IF i = 1 THEN x ELSE rest[i - 1] \div base
  IN rest

IntegerSent(b, x) ==
  LET rest == Rest(x, 256, Len(b))
  IN rest[Len(b)] \in -128 .. 127 /\ \A i \in 1 .. Len(b) : b[i] = rest[i] % 256

\* Two digits in each byte.
DigitsSent(b, x) ==
  LET rest == Rest(x, 100, Len(b))
  IN /\ rest[Len(b)] \in 0 .. 99
     /\ \A i \in 1 .. Len(b) : b[i] = 16 * ((rest[i] % 100) \div 10) + (rest[i] % 10)

DateSent(b, year, month, day) ==
  /\ year \in 0 .. 99 /\ month \in 1 .. 12 /\ day \in 1 .. 31
  /\ b[1] + 256 * b[2] = day + 32 * month + 512 * year

\* Seven bits of the year, the low three in the byte of the day and the high
\* four in that of the month; flags above minutes and hours.
TimeSent(b, year, month, day, hour, minute) ==
  /\ year \in 0 .. 99 /\ month \in 1 .. 12 /\ day \in 1 .. 31
  /\ hour \in 0 .. 23 /\ minute \in 0 .. 59
  /\ b[1] % 64 = minute
  /\ b[2] % 32 = hour
  /\ b[3] = day + 32 * (year % 8)
  /\ b[4] = month + 16 * (year \div 8)

\* Zeros come before it.
TextSent(b, s) ==
  /\ Len(s) \in 0 .. Len(b) /\ Len(b) \in 1 .. 191
  /\ \A i \in 1 .. Len(s) : s[i] \in 1 .. 127 /\ s[i] = b[Len(b) + 1 - i]
  /\ \A i \in 1 .. Len(b) - Len(s) : b[i] = 0

\* The bytes b of the data field df stand for val.
ValueSent(b, df, vi, val) ==
  \/ df \in {0, 13} /\ b = <<>> /\ val = Val("none", <<>>)
  \/ df = 13 /\ vi.type = "string" /\ val.k = "text" /\ TextSent(b, val.v)
  \/ df = 2 /\ vi.type = "date" /\ val.k = "date" /\ Len(val.v) = 3
     /\ DateSent(b, val.v[1], val.v[2], val.v[3])
  \/ df = 4 /\ vi.type = "datetime" /\ val.k = "datetime" /\ Len(val.v) = 5
     /\ TimeSent(b, val.v[1], val.v[2], val.v[3], val.v[4], val.v[5])
  \/ df \in {1, 2, 3, 4, 6, 7} /\ vi.type = "normal"
     /\ val = Val("number", <<val.v[1], vi.m, vi.e>>) /\ IntegerSent(b, val.v[1])
  \/ df \in {9, 10, 11, 12, 14} /\ vi.type = "normal"
     /\ val = Val("number", <<val.v[1], vi.m, vi.e>>) /\ DigitsSent(b, val.v[1])
  \/ df = 5 /\ vi.type = "normal"
     /\ val = IF Finite(b) THEN Val("float", b \o <<vi.m, vi.e>>) ELSE Failed(b)

\* All bytes but the last one have the extension bit.
Chain(b, first, last) == \A i \in first .. last : More(b[i]) <=> i < last

VibMeans(b, v) == CASE b[v] = 253 -> decodeFDVIFE(b[v + 1])
                    [] b[v] = 251 -> decodeFBVIFE(b[v + 1])
                    [] OTHER -> decodeVIF(b[v])

\* A record of which the VIF is the byte v and the last VIFE the byte e, and
\* the value begins behind the byte s.
RecordSent(b, shown, v, e, s) ==
  /\ b[1] \notin {15, 31, 47}
  /\ v \in 2 .. e /\ Chain(b, 1, v - 1) /\ Chain(b, v, e) /\ b[v] % 128 # 124
  /\ IF b[1] % 16 = 13 THEN s = e + 1 /\ s <= Len(b) /\ Len(b) = s + b[s]
     ELSE s = e /\ Len(b) = s + DataLen[(b[1] % 16) + 1]
  /\ shown.fn = (b[1] \div 16) % 4
  /\ shown.storage = (((b[1] \div 64) % 2)
       + 2 * Number([i \in 1 .. v - 2 |-> (b[i + 1] \div 2) % 16], 16, v - 2)) % StorageMod
  /\ shown.tariff = Number([i \in 1 .. v - 2 |-> (b[i + 1] \div 32) % 4], 4, v - 2) % TariffMod
  /\ shown.known = VibMeans(b, v).known
  /\ ValueSent(SubSeq(b, s + 1, Len(b)), b[1] % 16, VibMeans(b, v), shown.value)

ItemSent(it) ==
  \/ it.bytes = <<47>> /\ it.shows = <<>>
  \/ /\ Len(it.shows) = 1
     /\ \E e, s \in 1 .. Len(it.bytes) : \E v \in 2 .. e :
          RecordSent(it.bytes, it.shows[1], v, e, s)

\* What follows is the manufacturer's own.
MarkSent(it) == it.bytes # <<>> /\ it.bytes[1] \in {15, 31} /\ it.shows = <<>>

\* The identification is sent back to front, and the three letters of the
\* manufacturer with five bits each.
HeaderSent(b, h) ==
  /\ h \in [id : [1 .. 4 -> Octet], mfr : [1 .. 3 -> 65 .. 90], version : Octet,
            medium : Octet, access : Octet, status : Octet]
  /\ \A i \in 1 .. 4 : b[i] = h.id[5 - i]
  /\ b[5] + 256 * b[6] = 1024 * (h.mfr[1] - 64) + 32 * (h.mfr[2] - 64) + (h.mfr[3] - 64)
  /\ b[7] = h.version /\ b[8] = h.medium /\ b[9] = h.access /\ b[10] = h.status

ShownRecord == [fn : 0 .. 3, storage : Nat, tariff : Nat, known : BOOLEAN,
                value : [k : STRING, v : Seq(Int)]]

TelegramSent(t) ==
  /\ t.items \in Seq([bytes : Seq(Octet), shows : Seq(ShownRecord)])
  /\ Len(t.bytes) > HeaderLength
  /\ t.bytes = SubSeq(t.bytes, 1, 1 + HeaderLength)
                \o FlattenSeq([k \in DOMAIN t.items |-> t.items[k].bytes])
  /\ HeaderSent(SubSeq(t.bytes, 2, 1 + HeaderLength), t.head)
  /\ \A k \in DOMAIN t.items :
       ItemSent(t.items[k]) \/ (k = Len(t.items) /\ MarkSent(t.items[k]))

\* What RecordsComplete and HeaderRead are proved from ...
MetersKeepToStandard == \A t \in Telegrams : TelegramSent(t)

\* ... and what RecordsComplete is proved from besides: no type F date lies
\* beyond 2063.  The code takes six bits of the year, its comment says seven.
Before2064(t) ==
  \A k \in DOMAIN t.items : \A i \in DOMAIN t.items[k].shows :
    LET val == t.items[k].shows[i].value
    IN val.k = "datetime" => val.v[1] < 64
DatesBefore2064 == \A t \in Telegrams : Before2064(t)
-----------------------------------------------------------------------------
(* Properties.                                                             *)

\* The parser stays inside the data, and numbers inside their widths.
ParserTypeOK ==
  /\ pos \in 0 .. Len(data)
  /\ step \in {"ci", "header", "record", "dife", "fd", "fb", "vife", "done", "error",
               "unsupported"}
  /\ cur \in Octet
  /\ rec.storage \in 0 .. StorageMod - 1
  /\ rec.tariff \in 0 .. TariffMod - 1
  /\ \A i \in DOMAIN records :
       records[i].storage \in 0 .. StorageMod - 1 /\ records[i].tariff \in 0 .. TariffMod - 1

\* parseRecords ends: every step consumes something, but for those that leave
\* the loop or go back to its head, where a record begins, that consumes.
StepsForward ==
  [][ \/ pos' > pos
      \/ step' = "done"
      \/ pos' = pos /\ step = "vife" /\ step' = "record" ]_parserVars

\* What the items that have come in full stand for.
Meant ==
  LET all == telegram.items
      end[i \in 0 .. Len(all)] == IF i = 0 THEN 1 + HeaderLength
                                  ELSE end[i - 1] + Len(all[i].bytes)
      whole == {i \in 0 .. Len(all) : end[i] <= Len(data)}
      n == CHOOSE i \in whole : \A j \in whole : j <= i
  IN FlattenSeq([i \in 1 .. n |-> all[i].shows])

\* However long the telegram, whatever its records, and wherever it ends: the
\* records that have come in full are returned, in their order, with the
\* values that the meter has encoded, and nothing besides.  (A record without
\* data may be returned although the end of its VIFEs is missing.)
RecordsComplete ==
  step = "done" =>
    \/ records = Meant
    \/ /\ records # <<>>
       /\ Front(records) = Meant
       /\ Last(records).value.k = "none"

\* The header is shown as the meter sent it, unless it is cut off.
HeaderRead ==
  /\ step \in {"record", "done"} => DecodedHeader(SubSeq(data, 2, 13)) = telegram.head
  /\ step = "error" => Len(data) < 1 + HeaderLength
=============================================================================
