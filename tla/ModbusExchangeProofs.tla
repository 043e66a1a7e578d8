------------------------- MODULE ModbusExchangeProofs -------------------------
(***************************************************************************)
(* Proofs about ModbusExchange, for any list of arguments, any registers,  *)
(* any number of disturbances, and responses that take any time.           *)
(*                                                                         *)
(* Of the CRC the proofs use that it is a word.  What a reader of damaged  *)
(* responses gets depends on it, and on the registers: OwnRegisters needs  *)
(* CRCDetects, a statement about the responses of this device.             *)
(***************************************************************************)
EXTENDS ModbusExchange, SequenceTheorems, TLAPS

\* crc16Modbus returns a uint16.
CRCIsWord == \A s \in Seq(Byte) : CRC(s) \in Word

\* The response to the present request, and what of it can arrive.
Reply == Framed(ADU(PDU(Op)), Answer(PDU(Op)))
Arrivals == {Reply, <<>>} \cup (IF Serial THEN Damaged(Reply) ELSE {})

\* What the parts that have been read say about the next one.
Parts ==
  /\ status = "running" /\ stage # "send" => i <= Len(job.ops) /\ Acceptable(Op)
  /\ Serial => stage # "body"
  /\ ~Serial => stage \in {"send", "header", "body"}
  /\ status = "running" =>
       /\ stage = "count" => Len(got) = 2 /\ got[1] = Unit /\ got[2] \in Reads
       /\ stage = "data" => Len(got) = 3 /\ got[1] = Unit /\ got[2] \in Reads
       /\ stage = "exception" => Len(got) = 2 /\ got[2] >= 128
       /\ stage = "echo" => Len(got) = 2 /\ got[2] \in Writes
       /\ stage = "body" => Len(got) = mbapHeaderLen

\* What the device is asked is what an argument says.
Requested ==
  request # <<>> =>
    \E k \in 1 .. Len(job.ops) :
      /\ Acceptable(job.ops[k])
      /\ Payload(request) = PDU(job.ops[k])
      /\ Len(request) >= 8

ModbusTyping == TypeOK /\ Parts /\ Requested

\* As long as no damaged response is taken for a good one, nothing is left over
\* from one exchange to the next; over TCP there is no next one.
InStep ==
  status = "running" =>
    /\ stage = "send" => rx = <<>> /\ request = <<>>
    /\ stage # "send" =>
         \/ request = ADU(PDU(Op)) /\ rx = <<>> /\ stage = "header"
         \/ request = <<>> /\ got \o rx \in Arrivals /\ (faults = 0 => got \o rx = Reply)

\* Only the values of a cat on a serial line depend on the CRC.
Undamaged == ~Serial \/ job.cmd = "set" \/ faults = 0 \/ CRCDetects
ExchangeInv == Undamaged => InStep

\* A set sends pair after pair, and the device is at most one ahead of it.
Accounted ==
  /\ job.cmd = "cat" => log = <<>> /\ regs = Holding
  /\ job.cmd = "set" =>
       /\ \A k \in 1 .. Len(log) : log[k] = [addr |-> job.ops[k].addr, words |-> job.ops[k].words]
       /\ Len(log) = i - 1 \/ (Len(log) = i /\ i <= Len(job.ops))
       /\ request # <<>> =>
            Len(log) = i - 1 /\ i <= Len(job.ops) /\ Acceptable(Op) /\ Payload(request) = PDU(Op)
       /\ status = "running" /\ stage = "send" => Len(log) = i - 1
       /\ status = "running" /\ stage # "send" /\ request = <<>> =>
            Len(log) = i \/ got \o rx = <<>> \/ ~Has(PDU(Op))
       /\ status = "ok" => Len(log) = i - 1 /\ i = Len(job.ops) + 1
-----------------------------------------------------------------------------
\* What a word and a byte are, as inequalities.
LEMMA WordIs == \A n \in Int : n \in Word <=> 0 <= n /\ n <= 65535
BY SMTT(60) DEF Word

\* Words and bytes are integers.
LEMMA WordIsInt == \A n \in Word : n \in Int
BY SMT DEF Word

\* The same for bytes.
LEMMA ByteIs == \A n : n \in Byte <=> n \in Nat /\ n <= 255
BY SMT DEF Byte

\* The two bytes of a word.
LEMMA WordSplit ==
  ASSUME NEW n \in Word
  PROVE  /\ n \div 256 \in Byte
         /\ n % 256 \in Byte
         /\ (n \div 256) * 256 + (n % 256) = n
BY SMT, WordIs, WordIsInt, ByteIs

\* Two numbers that are sent as words.
LEMMA SentAsWords ==
  /\ \A n \in Nat : n % 65536 \in Word
  /\ \A n \in 0 .. 252 : 1 + n \in Word
<1>1. \A n \in Nat : n % 65536 \in Word
  BY SMT, WordIs
<1>2. \A n \in 0 .. 252 : 1 + n \in Word
  BY SMT, WordIs
<1> QED
  BY <1>1, <1>2

\* One sequence of bytes after another.
LEMMA Joined ==
  ASSUME NEW s \in Seq(Byte), NEW t \in Seq(Byte)
  PROVE  /\ s \o t \in Seq(Byte)
         /\ Len(s) \in Nat /\ Len(t) \in Nat
         /\ Len(s \o t) = Len(s) + Len(t)
         /\ \A k \in 1 .. Len(s) : (s \o t)[k] = s[k]
         /\ \A k \in 1 .. Len(t) : (s \o t)[Len(s) + k] = t[k]
BY ConcatProperties

\* A part of a sequence of bytes.
LEMMA Sliced ==
  ASSUME NEW s \in Seq(Byte), NEW a \in Nat \ {0}, NEW b \in Nat, b <= Len(s), a <= b + 1
  PROVE  /\ SubSeq(s, a, b) \in Seq(Byte)
         /\ Len(SubSeq(s, a, b)) = b - a + 1
         /\ \A k \in 1 .. b - a + 1 : SubSeq(s, a, b)[k] = s[a + k - 1]
OBVIOUS

\* The bytes of words: two for each, and the word can be read off them.
LEMMA WordBytesProps ==
  ASSUME NEW w \in Seq(Word)
  PROVE  /\ WordBytes(w) \in Seq(Byte)
         /\ Len(WordBytes(w)) = 2 * Len(w)
         /\ \A k \in 1 .. Len(w) : Uint16(WordBytes(w), 2 * k - 1) = w[k]
<1> DEFINE N == 2 * Len(w)
           e(n) == IF n % 2 = 1 THEN w[(n + 1) \div 2] \div 256 ELSE w[n \div 2] % 256
<1>1. N \in Nat /\ Len(w) \in Nat
  OBVIOUS
<1>2. ASSUME NEW n \in 1 .. N PROVE e(n) \in Byte
  <2>1. CASE n % 2 = 1
    <3>1. (n + 1) \div 2 \in 1 .. Len(w)
      BY <1>1, <2>1
    <3>2. w[(n + 1) \div 2] \in Word
      BY <3>1, ElementOfSeq
    <3> QED
      BY <2>1, <3>2, WordSplit
  <2>2. CASE n % 2 # 1
    <3>1. n \div 2 \in 1 .. Len(w)
      BY <1>1, <2>2
    <3>2. w[n \div 2] \in Word
      BY <3>1, ElementOfSeq
    <3> QED
      BY <2>2, <3>2, WordSplit
  <2> QED
    BY <2>1, <2>2
<1>3. WordBytes(w) = [n \in 1 .. N |-> e(n)]
  BY DEF WordBytes
<1>4. ASSUME NEW k \in 1 .. Len(w)
      PROVE  /\ 2 * k - 1 \in 1 .. N /\ 2 * k - 1 + 1 \in 1 .. N
             /\ e(2 * k - 1) = w[k] \div 256 /\ e(2 * k - 1 + 1) = w[k] % 256
  <2>1. 2 * k - 1 \in 1 .. N /\ 2 * k - 1 + 1 \in 1 .. N
    BY <1>1
  <2>2. (2 * k - 1) % 2 = 1 /\ (2 * k - 1 + 1) \div 2 = k
    BY <1>1
  <2>3. (2 * k - 1 + 1) % 2 # 1
    BY <1>1
  <2> QED
    BY <2>1, <2>2, <2>3
<1> HIDE DEF e, N
<1>5. WordBytes(w) \in Seq(Byte) /\ Len(WordBytes(w)) = N
  BY <1>1, <1>2, <1>3
<1>6. ASSUME NEW k \in 1 .. Len(w) PROVE Uint16(WordBytes(w), 2 * k - 1) = w[k]
  <2>1. WordBytes(w)[2 * k - 1] = w[k] \div 256 /\ WordBytes(w)[2 * k - 1 + 1] = w[k] % 256
    BY <1>3, <1>4
  <2>2. w[k] \in Word
    BY ElementOfSeq
  <2> QED
    BY <2>1, <2>2, WordSplit DEF Uint16
<1> QED
  BY <1>5, <1>6 DEF N

\* The request says what the argument says.
LEMMA PDUProps ==
  ASSUME NEW op, IsOp(op), Acceptable(op)
  PROVE  /\ PDU(op) \in Seq(Byte)
         /\ Len(PDU(op)) = IF op.fc = fcWriteMultiple THEN 6 + 2 * op.count ELSE 5
         /\ PDU(op)[1] = op.fc
         /\ Uint16(PDU(op), 2) = op.addr
         /\ op.fc # fcWriteSingle => Uint16(PDU(op), 4) = op.count
         /\ op.fc = fcWriteSingle => Uint16(PDU(op), 4) = op.words[1]
         /\ op.fc = fcWriteMultiple =>
              /\ PDU(op)[6] = 2 * op.count
              /\ \A k \in 1 .. op.count : Uint16(PDU(op), 5 + 2 * k) = op.words[k]
<1> USE DEF fcReadHolding, fcReadInput, fcWriteSingle, fcWriteMultiple
<1>1. op.fc \in {3, 4, 6, 16} /\ op.addr \in Word /\ op.count \in Word /\ op.words \in Seq(Word)
  BY DEF IsOp, Acceptable, Reads, Writes
<1> DEFINE a1 == op.addr \div 256
           a2 == op.addr % 256
<1>2. a1 \in Byte /\ a2 \in Byte /\ a1 * 256 + a2 = op.addr
  BY <1>1, WordSplit
<1>2a. op.fc \in Byte
  BY <1>1 DEF Byte
<1> HIDE DEF a1, a2
<1>3. ASSUME NEW w \in Word, PDU(op) = <<op.fc>> \o PutUint16(op.addr) \o PutUint16(w)
      PROVE  PDU(op) \in Seq(Byte) /\ Len(PDU(op)) = 5 /\ PDU(op)[1] = op.fc
             /\ Uint16(PDU(op), 2) = op.addr /\ Uint16(PDU(op), 4) = w
  <2> DEFINE c1 == w \div 256
             c2 == w % 256
  <2>1. c1 \in Byte /\ c2 \in Byte /\ c1 * 256 + c2 = w
    BY WordSplit
  <2> HIDE DEF c1, c2
  <2>2. PDU(op) = <<op.fc>> \o <<a1, a2>> \o <<c1, c2>>
    BY <1>3 DEF PutUint16, a1, a2, c1, c2
  <2>3. PDU(op) \in Seq(Byte) /\ Len(PDU(op)) = 5
    BY <1>2, <1>2a, <2>1, <2>2
  <2>4. PDU(op)[1] = op.fc /\ PDU(op)[2] = a1 /\ PDU(op)[3] = a2 /\ PDU(op)[4] = c1 /\ PDU(op)[5] = c2
    BY <1>2, <1>2a, <2>1, <2>2
  <2> QED
    BY <1>2, <2>1, <2>3, <2>4 DEF Uint16
<1>4. CASE op.fc \in {3, 4}
  <2>1. op.fc \in Reads /\ op.fc # 6 /\ op.fc # 16
    BY <1>4 DEF Reads
  <2>2. PDU(op) = <<op.fc>> \o PutUint16(op.addr) \o PutUint16(op.count)
    BY <2>1 DEF PDU
  <2> QED
    BY SMTT(60), <1>1, <1>3, <1>4, <2>2
<1>5. CASE op.fc = 6
  <2>1. PDU(op) = <<op.fc>> \o PutUint16(op.addr) \o PutUint16(op.words[1])
    BY <1>5 DEF PDU, Reads
  <2>2. Len(op.words) = 1
    BY <1>5 DEF IsOp, Writes
  <2>3. op.words[1] \in Word
    BY <1>1, <2>2, ElementOfSeq
  <2> QED
    BY SMTT(60), <1>1, <1>3, <1>5, <2>1, <2>3
<1>6. CASE op.fc = 16
  <2> DEFINE c1 == op.count \div 256
             c2 == op.count % 256
             c3 == 2 * op.count
             b == WordBytes(op.words)
             h == <<op.fc>> \o <<a1, a2>>
             t == (<<c1, c2>> \o <<c3>>) \o b
  <2>1. c1 \in Byte /\ c2 \in Byte /\ c1 * 256 + c2 = op.count
    BY <1>1, WordSplit
  <2>2. op.count \in 1 .. 123 /\ Len(op.words) = op.count
    <3>1. op.fc \in Writes /\ op.fc \notin Reads
      BY <1>6 DEF Writes, Reads
    <3> QED
      BY <1>6, <3>1 DEF IsOp, Acceptable
  <2>3. c3 \in Byte
    <3>1. \A n \in 1 .. 123 : 2 * n \in Byte
      BY DEF Byte
    <3> QED
      BY <2>2, <3>1
  <2>4. b \in Seq(Byte) /\ Len(b) = c3 /\ \A k \in 1 .. op.count : Uint16(b, 2 * k - 1) = op.words[k]
    BY <1>1, <2>2, WordBytesProps
  <2>5. PDU(op) = (<<op.fc>> \o <<a1, a2>>) \o ((<<c1, c2>> \o <<c3>>) \o b)
    <3>1. op.fc \notin Reads
      BY <1>6 DEF Reads
    <3> QED
      BY <1>6, <3>1 DEF PDU, PutUint16, a1, a2
  <2> HIDE DEF c1, c2, c3, b
  <2>7. PDU(op) = h \o t
    BY <2>5
  <2>8. h \in Seq(Byte) /\ Len(h) = 3 /\ h[1] = op.fc /\ h[2] = a1 /\ h[3] = a2
    BY <1>2, <1>2a
  <2>9. /\ t \in Seq(Byte) /\ Len(t) = 3 + c3 /\ t[1] = c1 /\ t[2] = c2 /\ t[3] = c3
        /\ \A n \in 1 .. c3 : t[n + 3] = b[n]
    <3> DEFINE c == <<c1, c2>> \o <<c3>>
    <3>1. c \in Seq(Byte) /\ Len(c) = 3 /\ c[1] = c1 /\ c[2] = c2 /\ c[3] = c3
      BY <2>1, <2>3
    <3>2. t = c \o b
      OBVIOUS
    <3> HIDE DEF c, t
    <3>3. /\ c \o b \in Seq(Byte)
          /\ Len(c) \in Nat /\ Len(b) \in Nat
          /\ Len(c \o b) = Len(c) + Len(b)
          /\ \A k \in 1 .. Len(c) : (c \o b)[k] = c[k]
          /\ \A k \in 1 .. Len(b) : (c \o b)[Len(c) + k] = b[k]
      BY <2>4, <3>1, Joined
    <3> QED
      BY <2>3, <2>4, <3>1, <3>2, <3>3 DEF Byte
  <2> HIDE DEF h, t
  <2>10. /\ h \o t \in Seq(Byte)
         /\ Len(h) \in Nat /\ Len(t) \in Nat
         /\ Len(h \o t) = Len(h) + Len(t)
         /\ \A k \in 1 .. Len(h) : (h \o t)[k] = h[k]
         /\ \A k \in 1 .. Len(t) : (h \o t)[Len(h) + k] = t[k]
    BY <2>8, <2>9, Joined
  <2>11. PDU(op) \in Seq(Byte) /\ Len(PDU(op)) = 6 + c3
    <3>1. Len(PDU(op)) = 3 + (3 + c3)
      BY <2>7, <2>8, <2>9, <2>10
    <3> QED
      BY <2>3, <2>7, <2>10, <3>1 DEF Byte
  <2>12. PDU(op)[1] = op.fc /\ PDU(op)[2] = a1 /\ PDU(op)[3] = a2
    BY <2>7, <2>8, <2>10
  <2>12a. ASSUME NEW n \in 1 .. 3 + c3 PROVE PDU(op)[3 + n] = t[n]
    BY <2>7, <2>8, <2>9, <2>10
  <2>13. PDU(op)[4] = c1 /\ PDU(op)[5] = c2 /\ PDU(op)[6] = c3
    <3>1. 1 \in 1 .. 3 + c3 /\ 2 \in 1 .. 3 + c3 /\ 3 \in 1 .. 3 + c3
      BY <2>3 DEF Byte
    <3>2. PDU(op)[3 + 1] = t[1] /\ PDU(op)[3 + 2] = t[2] /\ PDU(op)[3 + 3] = t[3]
      BY <2>12a, <3>1
    <3> QED
      BY <2>9, <3>2
  <2>14. ASSUME NEW n \in 1 .. c3 PROVE PDU(op)[n + 6] = b[n]
    <3>1. n + 3 \in 1 .. 3 + c3 /\ 3 + (n + 3) = n + 6
      BY <2>3 DEF Byte
    <3>2. PDU(op)[3 + (n + 3)] = t[n + 3]
      BY <2>12a, <3>1
    <3> QED
      BY <2>9, <3>1, <3>2
  <2>15. ASSUME NEW k \in 1 .. op.count PROVE Uint16(PDU(op), 5 + 2 * k) = op.words[k]
    <3>1. 2 * k - 1 \in 1 .. c3 /\ 2 * k \in 1 .. c3
      BY <2>2 DEF c3
    <3>2. PDU(op)[2 * k - 1 + 6] = b[2 * k - 1] /\ PDU(op)[2 * k + 6] = b[2 * k]
      BY <2>14, <3>1
    <3>3. 2 * k - 1 + 6 = 5 + 2 * k /\ 2 * k + 6 = 5 + 2 * k + 1 /\ 2 * k - 1 + 1 = 2 * k
      BY <2>2
    <3>4. Uint16(b, 2 * k - 1) = op.words[k]
      BY <2>4
    <3> QED
      BY <3>2, <3>3, <3>4 DEF Uint16
  <2> QED
    BY <1>2, <1>6, <2>1, <2>11, <2>12, <2>13, <2>15 DEF Uint16, c3
<1> QED
  BY <1>1, <1>4, <1>5, <1>6

\* The CRC adds two bytes.
LEMMA CRCProps ==
  ASSUME CRCIsWord, NEW s \in Seq(Byte)
  PROVE  /\ WithCRC(s) \in Seq(Byte)
         /\ Len(WithCRC(s)) = Len(s) + 2
         /\ \A k \in 1 .. Len(s) : WithCRC(s)[k] = s[k]
         /\ SubSeq(WithCRC(s), 1, Len(s)) = s
<1> DEFINE lo == CRC(s) % 256
           hi == CRC(s) \div 256
           t == <<lo, hi>>
<1>1. lo \in Byte /\ hi \in Byte
  BY WordSplit DEF CRCIsWord
<1>2. WithCRC(s) = s \o t
  BY DEF WithCRC
<1> HIDE DEF lo, hi
<1>3. t \in Seq(Byte) /\ Len(t) = 2
  BY <1>1
<1> HIDE DEF t
<1>4. /\ s \o t \in Seq(Byte)
      /\ Len(s) \in Nat /\ Len(t) \in Nat
      /\ Len(s \o t) = Len(s) + Len(t)
      /\ \A k \in 1 .. Len(s) : (s \o t)[k] = s[k]
      /\ \A k \in 1 .. Len(t) : (s \o t)[Len(s) + k] = t[k]
  BY <1>3, Joined
<1>5. SubSeq(s \o t, 1, Len(s)) = s
  <2>1. /\ SubSeq(s \o t, 1, Len(s)) \in Seq(Byte)
        /\ Len(SubSeq(s \o t, 1, Len(s))) = Len(s) - 1 + 1
        /\ \A k \in 1 .. Len(s) - 1 + 1 : SubSeq(s \o t, 1, Len(s))[k] = (s \o t)[1 + k - 1]
    BY <1>3, <1>4, Sliced
  <2> DEFINE u == SubSeq(s \o t, 1, Len(s))
  <2>2. u \in Seq(Byte) /\ Len(u) = Len(s)
    BY <1>4, <2>1
  <2>3. \A k \in 1 .. Len(s) : u[k] = s[k]
    BY <1>4, <2>1
  <2> HIDE DEF u
  <2>4. u = s
    BY <2>2, <2>3, SeqEqual
  <2> QED
    BY <2>4 DEF u
<1> QED
  BY <1>2, <1>3, <1>4, <1>5

\* Damage makes nothing longer.
LEMMA DamagedProps ==
  ASSUME NEW s \in Seq(Byte), NEW r \in Damaged(s)
  PROVE  r \in Seq(Byte) /\ Len(r) <= Len(s)
<1>1. CASE \E k \in DOMAIN s, d \in {1, 128} : r = [s EXCEPT ![k] = (s[k] + d) % 256]
  <2>1. PICK k \in DOMAIN s, d \in {1, 128} : r = [s EXCEPT ![k] = (s[k] + d) % 256]
    BY <1>1
  <2>2. k \in 1 .. Len(s)
    OBVIOUS
  <2>3. s[k] \in Byte
    BY <2>2, ElementOfSeq
  <2>4. (s[k] + d) % 256 \in Byte
    <3>1. \A b \in Byte, e \in {1, 128} : (b + e) % 256 \in Byte
      BY DEF Byte
    <3> QED
      BY <2>3, <3>1
  <2> DEFINE v == (s[k] + d) % 256
  <2> HIDE DEF v
  <2>5. r = [s EXCEPT ![k] = v] /\ v \in Byte
    BY <2>1, <2>4 DEF v
  <2> QED
    BY <2>2, <2>5
<1>2. CASE \E k \in 0 .. Len(s) - 1 : r = SubSeq(s, 1, k)
  <2>1. PICK k \in 0 .. Len(s) - 1 : r = SubSeq(s, 1, k)
    BY <1>2
  <2>2. Len(s) \in Nat /\ k \in Nat /\ k <= Len(s) /\ 1 <= k + 1
    OBVIOUS
  <2>3. SubSeq(s, 1, k) \in Seq(Byte) /\ Len(SubSeq(s, 1, k)) = k - 1 + 1
    BY <2>2, Sliced
  <2> QED
    BY <2>1, <2>2, <2>3
<1> QED
  BY <1>1, <1>2 DEF Damaged

\* What is taken and what is left make up what there was.
LEMMA TakenAndLeft ==
  ASSUME NEW s \in Seq(Byte), NEW t \in Seq(Byte), NEW n \in 0 .. Len(t)
  PROVE  /\ s \o SubSeq(t, 1, n) \in Seq(Byte)
         /\ Len(s \o SubSeq(t, 1, n)) = Len(s) + n
         /\ SubSeq(t, n + 1, Len(t)) \in Seq(Byte)
         /\ Len(SubSeq(t, n + 1, Len(t))) = Len(t) - n
         /\ (s \o SubSeq(t, 1, n)) \o SubSeq(t, n + 1, Len(t)) = s \o t
<1> DEFINE u == SubSeq(t, 1, n)
           v == SubSeq(t, n + 1, Len(t))
<1>1. Len(t) \in Nat /\ n \in Nat /\ n + 1 \in Nat \ {0}
  OBVIOUS
<1>2. u \in Seq(Byte) /\ Len(u) = n /\ \A k \in 1 .. n : u[k] = t[k]
  BY <1>1, Sliced
<1>3. v \in Seq(Byte) /\ Len(v) = Len(t) - n /\ \A k \in 1 .. Len(t) - n : v[k] = t[n + k]
  <2>1. /\ SubSeq(t, n + 1, Len(t)) \in Seq(Byte)
        /\ Len(SubSeq(t, n + 1, Len(t))) = Len(t) - (n + 1) + 1
        /\ \A k \in 1 .. Len(t) - (n + 1) + 1 : SubSeq(t, n + 1, Len(t))[k] = t[n + 1 + k - 1]
    BY <1>1, Sliced
  <2> QED
    BY <1>1, <2>1
<1> HIDE DEF u, v
<1>4. /\ u \o v \in Seq(Byte)
      /\ Len(u \o v) = Len(u) + Len(v)
      /\ \A k \in 1 .. Len(u) : (u \o v)[k] = u[k]
      /\ \A k \in 1 .. Len(v) : (u \o v)[Len(u) + k] = v[k]
  BY <1>2, <1>3, Joined
<1>5. u \o v = t
  <2>1. Len(u \o v) = Len(t)
    BY <1>1, <1>2, <1>3, <1>4
  <2>2. ASSUME NEW k \in 1 .. Len(t) PROVE (u \o v)[k] = t[k]
    <3>1. CASE k \in 1 .. n
      BY <1>2, <1>4, <3>1
    <3>2. CASE k \notin 1 .. n
      <4>1. k - n \in 1 .. Len(t) - n /\ n + (k - n) = k
        BY <1>1, <3>2
      <4>2. (u \o v)[n + (k - n)] = v[k - n]
        BY <1>2, <1>3, <1>4, <4>1
      <4> QED
        BY <1>3, <4>1, <4>2
    <3> QED
      BY <3>1, <3>2
  <2> QED
    BY <1>4, <2>1, <2>2, SeqEqual
<1>6. s \o u \in Seq(Byte) /\ Len(s \o u) = Len(s) + Len(u)
  BY <1>2, Joined
<1>7. (s \o u) \o v = s \o (u \o v)
  <2>1. s \in Seq(Byte) /\ u \in Seq(Byte) /\ v \in Seq(Byte)
    BY <1>2, <1>3
  <2> HIDE DEF Byte
  <2> QED
    BY ONLY SMTT(60), <2>1
<1> QED
  BY <1>2, <1>3, <1>5, <1>6, <1>7 DEF u, v

\* A message on a serial line.
LEMMA SerialFrame ==
  ASSUME CRCIsWord, NEW a \in Byte, NEW pdu \in Seq(Byte), Len(pdu) \in 1 .. 252
  PROVE  LET w == WithCRC(<<a>> \o pdu) IN
         /\ w \in Seq(Byte)
         /\ Len(w) = Len(pdu) + 3
         /\ w[1] = a
         /\ \A k \in 1 .. Len(pdu) : w[1 + k] = pdu[k]
         /\ SubSeq(w, 2, Len(w) - 2) = pdu
         /\ verifyCRC(w)
<1> DEFINE n == Len(pdu)
           u == <<a>> \o pdu
           w == WithCRC(u)
<1>1. n \in 1 .. 252
  OBVIOUS
<1>2. <<a>> \in Seq(Byte) /\ Len(<<a>>) = 1 /\ <<a>>[1] = a
  OBVIOUS
<1>3. /\ u \in Seq(Byte) /\ Len(u) = 1 + n /\ u[1] = a
      /\ \A k \in 1 .. n : u[1 + k] = pdu[k]
  BY <1>2, Joined
<1> HIDE DEF u
<1>4. w \in Seq(Byte) /\ Len(w) = Len(u) + 2 /\ \A k \in 1 .. Len(u) : w[k] = u[k]
  BY <1>3, CRCProps
<1>4_. verifyCRC(w)
  <2>1. SubSeq(w, 1, Len(u)) = u /\ Len(w) = Len(u) + 2
    BY <1>3, CRCProps
  <2>2. Len(w) >= 3 /\ Len(w) - 2 = Len(u)
    <3> HIDE DEF n, w
    <3> QED
      BY SMTT(60), <1>1, <1>3, <2>1
  <2> QED
    BY <2>1, <2>2 DEF verifyCRC
<1> HIDE DEF w
<1> DEFINE p == SubSeq(w, 2, Len(w) - 2)
<1>5. p = pdu
  <2>1. Len(w) - 2 = 1 + n /\ 1 + n \in Nat /\ 1 + n <= Len(w) /\ 2 <= 1 + n + 1
    BY <1>1, <1>3, <1>4
  <2>2. /\ p \in Seq(Byte)
        /\ Len(p) = 1 + n - 2 + 1
        /\ \A k \in 1 .. 1 + n - 2 + 1 : p[k] = w[2 + k - 1]
    BY <1>4, <2>1, Sliced
  <2>3. Len(p) = n
    BY <1>1, <2>2
  <2> HIDE DEF p, n
  <2>4. ASSUME NEW k \in 1 .. n PROVE p[k] = pdu[k]
    <3>1. 1 + k \in 1 .. Len(u) /\ 2 + k - 1 = 1 + k /\ k \in 1 .. 1 + n - 2 + 1
      BY <1>1, <1>3
    <3> QED
      BY <1>3, <1>4, <2>2, <3>1
  <2> QED
    BY <2>2, <2>3, <2>4, SeqEqual DEF n
<1>6. Len(w) = n + 3 /\ w[1] = a /\ \A k \in 1 .. n : w[1 + k] = pdu[k]
  <2> HIDE DEF n
  <2> QED
    BY SMTT(60), <1>1, <1>3, <1>4
<1> QED
  BY <1>4, <1>4_, <1>5, <1>6 DEF u, w

\* A message over TCP, after the transaction and protocol ids.
LEMMA TCPFrame ==
  ASSUME NEW a \in Byte, NEW h \in Seq(Byte), Len(h) = 4,
         NEW pdu \in Seq(Byte), Len(pdu) \in 1 .. 252
  PROVE  LET w == ((h \o PutUint16(1 + Len(pdu))) \o <<a>>) \o pdu IN
         /\ w \in Seq(Byte)
         /\ Len(w) = Len(pdu) + 7
         /\ w[7] = a
         /\ Uint16(w, 5) = 1 + Len(pdu)
         /\ SubSeq(w, 8, Len(w)) = pdu
<1> DEFINE n == Len(pdu)
           size == PutUint16(1 + n)
           b == h \o size
           c == b \o <<a>>
           w == c \o pdu
<1>1. n \in 1 .. 252
  OBVIOUS
<1>2. size \in Seq(Byte) /\ Len(size) = 2 /\ Uint16(size, 1) = 1 + n
  <2> HIDE DEF n
  <2>1. 1 + n \in Word
    BY SMT, <1>1, WordIs
  <2> DEFINE c1 == (1 + n) \div 256
             c2 == (1 + n) % 256
  <2>2. c1 \in Byte /\ c2 \in Byte /\ c1 * 256 + c2 = 1 + n
    BY <2>1, WordSplit
  <2>3. size = <<c1, c2>>
    BY DEF PutUint16
  <2> HIDE DEF c1, c2, size
  <2>4. size \in Seq(Byte) /\ Len(size) = 2 /\ size[1] = c1 /\ size[2] = c2
    BY <2>2, <2>3
  <2> QED
    BY <2>2, <2>4 DEF Uint16
<1> HIDE DEF size
<1>3. /\ b \in Seq(Byte) /\ Len(b) = 6 /\ b[5] = size[1] /\ b[6] = size[2]
  <2>1. /\ b \in Seq(Byte) /\ Len(b) = Len(h) + Len(size)
        /\ \A k \in 1 .. Len(size) : b[Len(h) + k] = size[k]
    BY <1>2, Joined, Zenon
  <2> HIDE DEF b
  <2>2. b[4 + 1] = size[1] /\ b[4 + 2] = size[2]
    BY <1>2, <2>1
  <2> QED
    BY <1>2, <2>1, <2>2
<1> HIDE DEF b
<1>4. <<a>> \in Seq(Byte) /\ Len(<<a>>) = 1 /\ <<a>>[1] = a
  OBVIOUS
<1>5. c \in Seq(Byte) /\ Len(c) = 7 /\ c[7] = a /\ c[5] = size[1] /\ c[6] = size[2]
  <2> DEFINE d == <<a>>
  <2>1. d \in Seq(Byte) /\ Len(d) = 1 /\ d[1] = a
    BY <1>4
  <2>2. c = b \o d
    OBVIOUS
  <2> HIDE DEF c, d
  <2>3. /\ b \o d \in Seq(Byte) /\ Len(b \o d) = Len(b) + Len(d)
        /\ \A k \in 1 .. Len(b) : (b \o d)[k] = b[k]
        /\ \A k \in 1 .. Len(d) : (b \o d)[Len(b) + k] = d[k]
    BY <1>3, <2>1, Joined, Zenon
  <2>4. c[7] = d[1] /\ c[5] = b[5] /\ c[6] = b[6]
    <3>1. 1 \in 1 .. Len(d) /\ Len(b) + 1 = 7 /\ 5 \in 1 .. Len(b) /\ 6 \in 1 .. Len(b)
      BY <1>3, <2>1
    <3>2. (b \o d)[Len(b) + 1] = d[1] /\ (b \o d)[5] = b[5] /\ (b \o d)[6] = b[6]
      BY <2>3, <3>1
    <3> QED
      BY <2>2, <3>1, <3>2
  <2> QED
    BY <1>3, <2>1, <2>2, <2>3, <2>4
<1> HIDE DEF c
<1>6. /\ w \in Seq(Byte) /\ Len(w) = Len(c) + Len(pdu)
      /\ \A k \in 1 .. Len(c) : w[k] = c[k]
      /\ \A k \in 1 .. Len(pdu) : w[Len(c) + k] = pdu[k]
  BY <1>5, Joined, Zenon
<1> HIDE DEF w
<1>7. Len(w) = n + 7 /\ w[7] = a /\ w[5] = size[1] /\ w[6] = size[2]
  <2>1. Len(w) = 7 + n
    BY SMTT(60), <1>5, <1>6
  <2> HIDE DEF n
  <2> QED
    BY <1>1, <1>5, <1>6, <2>1
<1> DEFINE p == SubSeq(w, 8, Len(w))
<1>8. p = pdu
  <2>1. Len(w) \in Nat /\ 8 <= Len(w) + 1
    <3> HIDE DEF n
    <3> QED
      BY <1>1, <1>7
  <2>2. /\ p \in Seq(Byte)
        /\ Len(p) = Len(w) - 8 + 1
        /\ \A k \in 1 .. Len(w) - 8 + 1 : p[k] = w[8 + k - 1]
    BY <1>6, <2>1, Sliced
  <2>3. Len(p) = n
    <3> HIDE DEF n
    <3> QED
      BY <1>1, <1>7, <2>2
  <2>4. ASSUME NEW k \in 1 .. n PROVE p[k] = pdu[k]
    <3>1. w[Len(c) + k] = pdu[k]
      BY <1>6
    <3> HIDE DEF p, n
    <3>2. 8 + k - 1 = 7 + k /\ k \in 1 .. Len(w) - 8 + 1
      BY <1>1, <1>7
    <3> QED
      BY <1>5, <2>2, <3>1, <3>2
  <2> HIDE DEF p
  <2> QED
    BY <2>2, <2>3, <2>4, SeqEqual
<1>9. Uint16(w, 5) = 1 + n
  BY <1>2, <1>7 DEF Uint16
<1> QED
  BY <1>6, <1>7, <1>8, <1>9 DEF w, c, b, size

\* The device reads the message that the client has made, over either transport.
LEMMA ADUProps ==
  ASSUME CRCIsWord, ModbusAssumption, i \in Nat,
         NEW pdu \in Seq(Byte), Len(pdu) \in 1 .. 252
  PROVE  /\ ADU(pdu) \in Seq(Byte)
         /\ Len(ADU(pdu)) = Len(pdu) + (IF Serial THEN 3 ELSE 7)
         /\ ADU(pdu)[IF Serial THEN 1 ELSE 7] = Unit
         /\ Payload(ADU(pdu)) = pdu
<1>1. Unit \in Byte
  BY DEF ModbusAssumption, Byte
<1>2. CASE Serial
  <2> DEFINE w == WithCRC(<<Unit>> \o pdu)
  <2>1. ADU(pdu) = w
    BY <1>2 DEF ADU
  <2>2. /\ w \in Seq(Byte) /\ Len(w) = Len(pdu) + 3 /\ w[1] = Unit
        /\ SubSeq(w, 2, Len(w) - 2) = pdu
    BY <1>1, SerialFrame, Zenon
  <2> HIDE DEF w
  <2>3. Payload(w) = SubSeq(w, 2, Len(w) - 2)
    BY SMTT(60), <1>2 DEF Payload
  <2> QED
    BY <1>2, <2>1, <2>2, <2>3, Zenon
<1>3. CASE ~Serial
  <2> DEFINE tid == PutUint16(i % 65536)
             h == tid \o PutUint16(0)
  <2>1. tid \in Seq(Byte) /\ Len(tid) = 2
    <3>1. i % 65536 \in Word
      BY SentAsWords
    <3>2. (i % 65536) \div 256 \in Byte /\ (i % 65536) % 256 \in Byte
      BY <3>1, WordSplit
    <3> QED
      BY <3>2 DEF PutUint16
  <2>2. PutUint16(0) \in Seq(Byte) /\ Len(PutUint16(0)) = 2
    BY DEF PutUint16, Byte
  <2> HIDE DEF tid
  <2>3. h \in Seq(Byte) /\ Len(h) = 4
    <3>1. h \in Seq(Byte) /\ Len(h) = Len(tid) + Len(PutUint16(0))
      BY <2>1, <2>2, Joined, ZenonT(60)
    <3> QED
      BY <2>1, <2>2, <3>1
  <2>4. ADU(pdu) = ((h \o PutUint16(1 + Len(pdu))) \o <<Unit>>) \o pdu
    BY <1>3 DEF ADU, tid
  <2>5. Payload(ADU(pdu)) = SubSeq(ADU(pdu), 8, Len(ADU(pdu)))
    BY <1>3 DEF Payload
  <2> HIDE DEF h
  <2> DEFINE w == ((h \o PutUint16(1 + Len(pdu))) \o <<Unit>>) \o pdu
  <2>6. /\ w \in Seq(Byte)
        /\ Len(w) = Len(pdu) + 7
        /\ w[7] = Unit
        /\ Uint16(w, 5) = 1 + Len(pdu)
        /\ SubSeq(w, 8, Len(w)) = pdu
    BY <1>1, <2>3, TCPFrame, Zenon
  <2>7. ADU(pdu) = w
    BY <2>4
  <2> HIDE DEF w
  <2> QED
    BY <1>3, <2>5, <2>6, <2>7
<1> QED
  BY <1>2, <1>3

\* What comes back to it.
LEMMA FramedProps ==
  ASSUME CRCIsWord, NEW adu \in Seq(Byte), Len(adu) >= 8,
         NEW pdu \in Seq(Byte), Len(pdu) \in 1 .. 252
  PROVE  /\ Framed(adu, pdu) \in Seq(Byte)
         /\ Len(Framed(adu, pdu)) = Len(pdu) + (IF Serial THEN 3 ELSE 7)
         /\ Serial =>
              /\ Framed(adu, pdu)[1] = adu[1]
              /\ verifyCRC(Framed(adu, pdu))
              /\ \A k \in 1 .. Len(pdu) : Framed(adu, pdu)[1 + k] = pdu[k]
              /\ SubSeq(Framed(adu, pdu), 2, Len(Framed(adu, pdu)) - 2) = pdu
         /\ ~Serial => Uint16(Framed(adu, pdu), 5) = 1 + Len(pdu)
<1>1. CASE Serial
  <2>1. adu[1] \in Byte
    <3>1. 1 \in 1 .. Len(adu)
      BY SMTT(60)
    <3> QED
      BY <3>1, ElementOfSeq
  <2> QED
    BY ZenonT(60), <1>1, <2>1, SerialFrame DEF Framed
<1>2. CASE ~Serial
  <2> DEFINE h == SubSeq(adu, 1, 4)
  <2>1. adu[7] \in Byte
    <3>1. 7 \in 1 .. Len(adu)
      OBVIOUS
    <3> QED
      BY <3>1, ElementOfSeq
  <2>2. h \in Seq(Byte) /\ Len(h) = 4
    <3>1. 4 <= Len(adu) /\ 1 <= 4 + 1
      OBVIOUS
    <3>2. h \in Seq(Byte) /\ Len(h) = 4 - 1 + 1
      BY <3>1, Sliced
    <3> QED
      BY <3>2
  <2>3. Framed(adu, pdu) = ((h \o PutUint16(1 + Len(pdu))) \o <<adu[7]>>) \o pdu
    BY <1>2 DEF Framed
  <2> HIDE DEF h
  <2> DEFINE w == ((h \o PutUint16(1 + Len(pdu))) \o <<adu[7]>>) \o pdu
  <2>4. /\ w \in Seq(Byte)
        /\ Len(w) = Len(pdu) + 7
        /\ w[7] = adu[7]
        /\ Uint16(w, 5) = 1 + Len(pdu)
        /\ SubSeq(w, 8, Len(w)) = pdu
    BY <2>1, <2>2, TCPFrame, ZenonT(60)
  <2>5. Framed(adu, pdu) = w
    BY <2>3
  <2> HIDE DEF w
  <2> QED
    BY <1>2, <2>4, <2>5
<1> QED
  BY SMTT(60), <1>1, <1>2

\* The registers that an argument names, as they are now.
Named(op) == [n \in 1 .. op.count |-> Contents(op.fc)[op.addr + n - 1]]

RegsTyped ==
  /\ DOMAIN regs = DOMAIN Holding
  /\ \A a \in DOMAIN regs : regs[a] \in Word

\* The device addresses what the argument names.
LEMMA AddressedProps ==
  ASSUME ModbusAssumption, RegsTyped, NEW op, IsOp(op), Acceptable(op), op.fc \in Reads
  PROVE  /\ Has(PDU(op)) => Named(op) \in Seq(Word) /\ Len(Named(op)) = op.count
         /\ Asked(PDU(op)) = Named(op)
<1> USE DEF fcReadHolding, fcReadInput, fcWriteSingle, fcWriteMultiple
<1>1. PDU(op)[1] = op.fc /\ Uint16(PDU(op), 2) = op.addr /\ Uint16(PDU(op), 4) = op.count /\ op.fc # 6
  <2>1. op.fc # 6
    BY DEF Reads
  <2> QED
    BY <2>1, PDUProps
<1>2. op.count \in 1 .. 125
  BY DEF Acceptable
<1>3. Asked(PDU(op)) = Named(op)
  BY <1>1 DEF Asked, Named
<1>4. op.addr \in Nat
  BY WordIs, WordIsInt DEF IsOp
<1>5. ASSUME Has(PDU(op)) PROVE Named(op) \in Seq(Word) /\ Len(Named(op)) = op.count
  <2>1. ASSUME NEW a \in DOMAIN Contents(op.fc) PROVE Contents(op.fc)[a] \in Word
    BY <2>1 DEF Contents, ModbusAssumption, RegsTyped
  <2>2. ASSUME NEW n \in 1 .. op.count PROVE op.addr + n - 1 \in DOMAIN Contents(op.fc)
    <3>1. op.addr + n - 1 \in op.addr .. op.addr + op.count - 1
      BY <1>2, <1>4
    <3> QED
      BY <1>1, <1>5, <3>1 DEF Has, Addressed
  <2> DEFINE e(n) == Contents(op.fc)[op.addr + n - 1]
  <2>3. ASSUME NEW n \in 1 .. op.count PROVE e(n) \in Word
    BY <2>1, <2>2
  <2>4. Named(op) = [n \in 1 .. op.count |-> e(n)]
    BY DEF Named
  <2> HIDE DEF e
  <2>5. op.count \in Nat
    BY <1>2
  <2> QED
    BY <2>3, <2>4, <2>5
<1> QED
  BY <1>3, <1>5

\* How long a response is, and what it begins with.
LEMMA AnswerProps ==
  ASSUME ModbusAssumption, RegsTyped, NEW op, IsOp(op), Acceptable(op)
  PROVE  /\ Answer(PDU(op)) \in Seq(Byte)
         /\ Len(Answer(PDU(op))) \in 1 .. 252
         /\ ~Has(PDU(op)) => Len(Answer(PDU(op))) = 2 /\ Answer(PDU(op))[1] = op.fc + 128
         /\ Has(PDU(op)) => Answer(PDU(op))[1] = op.fc
         /\ Has(PDU(op)) /\ op.fc \in Writes => Len(Answer(PDU(op))) = 5
         /\ Has(PDU(op)) /\ op.fc \in Reads =>
              /\ Len(Answer(PDU(op))) = 2 + 2 * op.count
              /\ Answer(PDU(op))[2] = 2 * op.count
              /\ SubSeq(Answer(PDU(op)), 3, 2 + 2 * op.count) = WordBytes(Named(op))
<1> USE DEF fcReadHolding, fcReadInput, fcWriteSingle, fcWriteMultiple
<1> DEFINE p == PDU(op)
           r == Answer(p)
<1>1. p \in Seq(Byte) /\ p[1] = op.fc /\ Len(p) >= 5
  <2>1. p \in Seq(Byte) /\ p[1] = op.fc /\ Len(p) = IF op.fc = fcWriteMultiple THEN 6 + 2 * op.count ELSE 5
    BY PDUProps
  <2>2. op.fc = 16 => op.count \in 1 .. 123
    BY DEF Acceptable, Reads
  <2>3. \A n \in 1 .. 123 : 6 + 2 * n >= 5
    OBVIOUS
  <2> HIDE DEF p
  <2>4. CASE op.fc = 16
    BY <2>1, <2>2, <2>3, <2>4
  <2>5. CASE op.fc # 16
    BY <2>1, <2>5
  <2> QED
    BY <2>4, <2>5
<1>2. op.fc \in {3, 4, 6, 16}
  BY DEF IsOp, Acceptable, Reads, Writes
<1>3. CASE ~Has(p)
  <2> DEFINE x == op.fc + 128
  <2>1. r = <<x, 2>>
    BY <1>1, <1>3 DEF Answer
  <2>2. x \in Byte /\ 2 \in Byte
    BY <1>2 DEF Byte
  <2> HIDE DEF x, r
  <2>3. r \in Seq(Byte) /\ Len(r) = 2 /\ r[1] = x
    BY <2>1, <2>2
  <2> QED
    BY <1>3, <2>3 DEF r, x
<1>4. CASE Has(p) /\ op.fc \in Reads
  <2> DEFINE c == 2 * op.count
             b == WordBytes(Named(op))
             h == <<op.fc, c>>
  <2>1. Named(op) \in Seq(Word) /\ Len(Named(op)) = op.count /\ Asked(p) = Named(op)
    BY <1>4, AddressedProps
  <2>2. op.count \in 1 .. 125 /\ op.fc # 6
    BY <1>4 DEF Acceptable, Reads
  <2>3. Uint16(p, 4) = op.count
    BY <2>2, PDUProps
  <2>4. r = h \o b
    BY <1>1, <1>4, <2>1, <2>3 DEF Answer
  <2>5. b \in Seq(Byte) /\ Len(b) = c
    BY <2>1, WordBytesProps
  <2>6. c \in 2 .. 250 /\ c \in Byte /\ op.fc \in Byte
    <3>1. \A n \in 1 .. 125 : 2 * n \in 2 .. 250
      OBVIOUS
    <3>2. c \in 2 .. 250
      BY <2>2, <3>1
    <3> HIDE DEF c
    <3>3. op.fc \in Byte
      BY <1>2, ByteIs
    <3>4. c \in Byte
      BY SMT, <3>2, ByteIs
    <3> QED
      BY <3>2, <3>3, <3>4
  <2> HIDE DEF c, b, r, p
  <2>7. h \in Seq(Byte) /\ Len(h) = 2 /\ h[1] = op.fc /\ h[2] = c
    BY <2>6
  <2> HIDE DEF h
  <2>8. /\ h \o b \in Seq(Byte) /\ Len(h \o b) = Len(h) + Len(b)
        /\ \A k \in 1 .. Len(h) : (h \o b)[k] = h[k]
        /\ \A k \in 1 .. Len(b) : (h \o b)[Len(h) + k] = b[k]
    BY <2>5, <2>7, Joined, Zenon
  <2>9. r \in Seq(Byte) /\ Len(r) = 2 + c /\ r[1] = op.fc /\ r[2] = c
    BY <2>4, <2>5, <2>7, <2>8
  <2>10. SubSeq(r, 3, 2 + c) = b
    <3> DEFINE e == 2 + c
               q == SubSeq(r, 3, e)
    <3>1. e \in Nat /\ e = Len(r) /\ 3 <= e + 1 /\ e - 3 + 1 = c /\ c \in Nat
      <4>1. e = Len(r)
        BY <2>9
      <4>2. e \in Nat /\ 3 <= e + 1 /\ e - 3 + 1 = c /\ c \in Nat
        BY <2>6
      <4> QED
        BY <4>1, <4>2
    <3> HIDE DEF e
    <3>2. /\ q \in Seq(Byte)
          /\ Len(q) = e - 3 + 1
          /\ \A k \in 1 .. e - 3 + 1 : q[k] = r[3 + k - 1]
      <4>1. r \in Seq(Byte) /\ e <= Len(r) /\ 3 \in Nat \ {0}
        BY <2>9, <3>1
      <4> HIDE DEF q
      <4> QED
        BY <3>1, <4>1, Sliced DEF q
    <3> HIDE DEF q
    <3>3. Len(q) = c /\ Len(b) = c /\ \A k \in 1 .. c : q[k] = r[3 + k - 1]
      BY <2>5, <3>1, <3>2
    <3>4. ASSUME NEW k \in 1 .. c PROVE q[k] = b[k]
      <4>1. 3 + k - 1 = 2 + k
        BY <3>1
      <4>2. q[k] = r[2 + k]
        BY <3>3, <4>1
      <4>3. (h \o b)[2 + k] = b[k]
        BY <2>7, <2>8, <3>3
      <4> QED
        BY <2>4, <4>2, <4>3
    <3>5. q = b
      BY <2>5, <3>2, <3>3, <3>4, SeqEqual
    <3> QED
      BY <3>5 DEF q, e
  <2>11. Len(r) \in 1 .. 252
    <3>1. 2 + c \in 1 .. 252
      BY <2>6
    <3> QED
      BY <2>9, <3>1
  <2>12. op.fc \notin Writes
    BY <1>4 DEF Reads, Writes
  <2> QED
    BY <1>4, <2>9, <2>10, <2>11, <2>12 DEF r, p, c, b
<1>5. CASE Has(p) /\ op.fc \notin Reads
  <2>1. r = SubSeq(p, 1, 5)
    BY <1>1, <1>5 DEF Answer
  <2> HIDE DEF r, p
  <2>2. /\ SubSeq(p, 1, 5) \in Seq(Byte)
        /\ Len(SubSeq(p, 1, 5)) = 5 - 1 + 1
        /\ \A k \in 1 .. 5 - 1 + 1 : SubSeq(p, 1, 5)[k] = p[1 + k - 1]
    BY <1>1, Sliced
  <2>3. r \in Seq(Byte) /\ Len(r) = 5 /\ r[1] = op.fc
    BY <1>1, <2>1, <2>2
  <2> QED
    BY <1>5, <2>3 DEF r, p
<1> QED
  BY <1>3, <1>4, <1>5

\* What the device writes is what the argument says.
LEMMA SentProps ==
  ASSUME NEW op, IsOp(op), Acceptable(op), op.fc \in Writes
  PROVE  Sent(PDU(op)) = op.words
<1> USE DEF fcReadHolding, fcReadInput, fcWriteSingle, fcWriteMultiple
<1>1. op.fc \in {6, 16} /\ op.words \in Seq(Word) /\ Len(op.words) = op.count
  BY DEF IsOp, Writes
<1>2. CASE op.fc = 6
  <2>1. PDU(op)[1] = 6 /\ Uint16(PDU(op), 4) = op.words[1]
    BY <1>2, PDUProps
  <2>2. Len(op.words) = 1
    BY <1>1, <1>2 DEF IsOp
  <2>3. Sent(PDU(op)) = <<op.words[1]>>
    BY <2>1 DEF Sent
  <2>4. op.words[1] \in Word
    BY <1>1, <2>2, ElementOfSeq
  <2> DEFINE x == op.words[1]
             t == <<x>>
  <2> HIDE DEF x
  <2>5. t \in Seq(Word) /\ Len(t) = 1 /\ t[1] = x
    BY <2>4 DEF x
  <2>6. Len(t) = Len(op.words) /\ \A k \in 1 .. Len(t) : t[k] = op.words[k]
    BY <2>2, <2>5 DEF x
  <2> HIDE DEF t
  <2>7. t = op.words
    BY <1>1, <2>5, <2>6, SeqEqual
  <2> QED
    BY <2>3, <2>7 DEF t, x
<1>3. CASE op.fc = 16
  <2>1. /\ PDU(op)[1] = 16 /\ PDU(op)[6] = 2 * op.count
        /\ \A k \in 1 .. op.count : Uint16(PDU(op), 5 + 2 * k) = op.words[k]
    BY <1>3, PDUProps
  <2>2. op.count \in 1 .. 123
    BY <1>3 DEF Acceptable, Reads
  <2>3. (2 * op.count) \div 2 = op.count
    BY <2>2
  <2>4. Sent(PDU(op)) = [k \in 1 .. op.count |-> Uint16(PDU(op), 5 + 2 * k)]
    BY <2>1, <2>3 DEF Sent
  <2>5. op.words = [k \in 1 .. op.count |-> op.words[k]]
    BY <1>1
  <2> QED
    BY <2>1, <2>4, <2>5
<1> QED
  BY <1>1, <1>2, <1>3
-----------------------------------------------------------------------------
(* Types.                                                                  *)

\* The argument whose turn it is.
LEMMA OpProps ==
  ASSUME ModbusAssumption, job \in Jobs, NEW k \in 1 .. Len(job.ops), Acceptable(job.ops[k])
  PROVE  /\ IsOp(job.ops[k])
         /\ job.cmd \in {"cat", "set"}
         /\ job.cmd = "cat" => job.ops[k].fc \in Reads
         /\ job.cmd = "set" => job.ops[k].fc \in Writes
<1>1. IsJob(job)
  BY DEF ModbusAssumption
<1>2. IsOp(job.ops[k]) /\ job.ops[k].fc \in (IF job.cmd = "cat" THEN Reads ELSE Writes) \cup {0}
  BY <1>1 DEF IsJob
<1>3. job.ops[k].fc # 0
  BY DEF Acceptable, Reads, fcReadHolding, fcReadInput, fcWriteSingle, fcWriteMultiple
<1> QED
  BY <1>1, <1>2, <1>3 DEF IsJob

\* How many registers a read may ask for.
LEMMA ReadCount ==
  ASSUME NEW op, Acceptable(op), op.fc \in Reads
  PROVE  op.count \in 1 .. 125
<1>1. op.fc # 6 /\ op.fc # 16
  BY DEF Reads, fcReadHolding, fcReadInput
<1> QED
  BY <1>1 DEF Acceptable, fcWriteSingle, fcWriteMultiple

\* The list of arguments and the index.
LEMMA IndexTyped ==
  ASSUME ModbusAssumption, TypeOK
  PROVE  Len(job.ops) \in Nat /\ i \in Nat \ {0} /\ i <= Len(job.ops) + 1 /\ IsJob(job)
BY DEF ModbusAssumption, IsJob, TypeOK

\* The buffers.
LEMMA BuffersTyped ==
  ASSUME TypeOK
  PROVE  /\ got \in Seq(Byte) /\ rx \in Seq(Byte) /\ request \in Seq(Byte)
         /\ Len(got) \in Nat /\ Len(rx) \in Nat
<1>1. {got, rx, request} \subseteq Seq(Byte)
  BY DEF TypeOK
<1>2. got \in Seq(Byte) /\ rx \in Seq(Byte) /\ request \in Seq(Byte)
  BY <1>1
<1> QED
  BY <1>2

\* A request that the client makes.
LEMMA RequestMade ==
  ASSUME CRCIsWord, ModbusAssumption, TypeOK, i <= Len(job.ops), Acceptable(Op)
  PROVE  /\ ADU(PDU(Op)) \in Seq(Byte)
         /\ Len(ADU(PDU(Op))) >= 8
         /\ ADU(PDU(Op))[IF Serial THEN 1 ELSE 7] = Unit
         /\ Payload(ADU(PDU(Op))) = PDU(Op)
<1> USE DEF fcReadHolding, fcReadInput, fcWriteSingle, fcWriteMultiple
<1>1. i \in 1 .. Len(job.ops) /\ i \in Nat
  BY IndexTyped
<1>2. IsOp(Op)
  BY <1>1, OpProps DEF Op, TypeOK
<1> DEFINE p == PDU(Op)
<1>3. p \in Seq(Byte) /\ Len(p) = IF Op.fc = fcWriteMultiple THEN 6 + 2 * Op.count ELSE 5
  BY <1>2, PDUProps
<1>4. Op.fc = 16 => Op.count \in 1 .. 123
  BY DEF Acceptable, Reads
<1> HIDE DEF p
<1>5. Len(p) \in 5 .. 252
  <2>1. \A n \in 1 .. 123 : 6 + 2 * n \in 5 .. 252
    OBVIOUS
  <2>2. CASE Op.fc = 16
    <3>1. 6 + 2 * Op.count \in 5 .. 252
      BY <1>4, <2>1, <2>2
    <3>2. Len(p) = 6 + 2 * Op.count
      BY <1>3, <2>2
    <3> QED
      BY <3>1, <3>2
  <2>3. CASE Op.fc # 16
    BY <1>3, <2>3
  <2> QED
    BY <2>2, <2>3
<1>6. Len(p) \in 1 .. 252
  BY <1>5
<1>7. /\ ADU(p) \in Seq(Byte)
      /\ Len(ADU(p)) = Len(p) + (IF Serial THEN 3 ELSE 7)
      /\ ADU(p)[IF Serial THEN 1 ELSE 7] = Unit
      /\ Payload(ADU(p)) = p
  BY <1>1, <1>3, <1>6, ADUProps
<1>8. Len(ADU(p)) >= 8
  <2> DEFINE m == Len(ADU(p))
             n == Len(p)
  <2>1. n \in 5 .. 252 /\ m = n + (IF Serial THEN 3 ELSE 7)
    BY <1>5, <1>7
  <2> HIDE DEF m, n
  <2>2. m >= 8
    BY <2>1
  <2> QED
    BY <2>2 DEF m
<1> QED
  BY <1>7, <1>8 DEF p

\* The response of the device.
LEMMA ResponseMade ==
  ASSUME CRCIsWord, ModbusAssumption, ModbusTyping, request # <<>>
  PROVE  \E k \in 1 .. Len(job.ops) :
           /\ Acceptable(job.ops[k]) /\ IsOp(job.ops[k])
           /\ job.cmd = "cat" => job.ops[k].fc \in Reads
           /\ job.cmd = "set" => job.ops[k].fc \in Writes
           /\ Payload(request) = PDU(job.ops[k])
           /\ Framed(request, Answer(Payload(request))) \in Seq(Byte)
<1>1. PICK k \in 1 .. Len(job.ops) :
        Acceptable(job.ops[k]) /\ Payload(request) = PDU(job.ops[k]) /\ Len(request) >= 8
  BY DEF ModbusTyping, Requested
<1>2. /\ IsOp(job.ops[k])
      /\ job.cmd = "cat" => job.ops[k].fc \in Reads
      /\ job.cmd = "set" => job.ops[k].fc \in Writes
  BY SMTT(60), <1>1, OpProps DEF ModbusTyping, TypeOK
<1>3. RegsTyped /\ request \in Seq(Byte)
  BY DEF ModbusTyping, TypeOK, RegsTyped
<1>4. Answer(PDU(job.ops[k])) \in Seq(Byte) /\ Len(Answer(PDU(job.ops[k]))) \in 1 .. 252
  BY SMTT(60), <1>1, <1>2, <1>3, AnswerProps
<1>5. Framed(request, Answer(PDU(job.ops[k]))) \in Seq(Byte)
  BY <1>1, <1>3, <1>4, FramedProps
<1> QED
  BY <1>1, <1>2, <1>5

\* Executing a request writes registers and the log as it says.
LEMMA Executed ==
  ASSUME ModbusAssumption, RegsTyped, log \in Seq([addr : Word, words : Seq(Word)]),
         NEW op, IsOp(op), Acceptable(op), Execute(PDU(op))
  PROVE  /\ RegsTyped'
         /\ DOMAIN regs' = DOMAIN regs
         /\ log' \in Seq([addr : Word, words : Seq(Word)])
         /\ op.fc \in Reads => regs' = regs /\ log' = log
         /\ op.fc \in Writes =>
              log' = IF Has(PDU(op)) THEN Append(log, [addr |-> op.addr, words |-> op.words]) ELSE log
<1>1. PDU(op)[1] = op.fc /\ Uint16(PDU(op), 2) = op.addr
  BY PDUProps
<1>2. Reads \cap Writes = {}
  BY DEF Reads, Writes, fcReadHolding, fcReadInput, fcWriteSingle, fcWriteMultiple
<1>3. CASE op.fc \in Writes /\ Has(PDU(op))
  <2>1. Sent(PDU(op)) = op.words
    BY <1>3, SentProps
  <2>2. /\ regs' = [a \in DOMAIN regs |->
                     IF a \in op.addr .. op.addr + Len(op.words) - 1
                     THEN op.words[a - op.addr + 1] ELSE regs[a]]
        /\ log' = Append(log, [addr |-> op.addr, words |-> op.words])
    BY <1>1, <1>3, <2>1 DEF Execute
  <2>3. op.addr \in Word /\ op.words \in Seq(Word)
    BY DEF IsOp
  <2>4. op.addr \in Nat
    BY <2>3, WordIs, WordIsInt
  <2>5. ASSUME NEW a \in op.addr .. op.addr + Len(op.words) - 1 PROVE op.words[a - op.addr + 1] \in Word
    <3>1. Len(op.words) \in Nat
      BY <2>3
    <3>2. a - op.addr + 1 \in 1 .. Len(op.words)
      BY <2>4, <3>1
    <3> QED
      BY <2>3, <3>2, ElementOfSeq
  <2>6. RegsTyped' /\ DOMAIN regs' = DOMAIN regs
    BY <2>2, <2>5 DEF RegsTyped
  <2>7. log' \in Seq([addr : Word, words : Seq(Word)])
    <3> DEFINE e == [addr |-> op.addr, words |-> op.words]
               R == [addr : Word, words : Seq(Word)]
    <3>1. e \in R /\ log \in Seq(R) /\ log' = Append(log, e)
      BY <2>2, <2>3
    <3> HIDE DEF e, R
    <3>2. log' \in Seq(R)
      BY <3>1, AppendProperties
    <3> QED
      BY <3>2 DEF R
  <2> QED
    BY <1>2, <1>3, <2>2, <2>6, <2>7
<1>4. CASE ~(op.fc \in Writes /\ Has(PDU(op)))
  <2>1. UNCHANGED <<regs, log>>
    BY <1>1, <1>4 DEF Execute
  <2> QED
    BY <1>4, <2>1 DEF RegsTyped
<1> QED
  BY <1>3, <1>4

\* Taking a part: its length, and that what has been read and what has not make
\* up the same bytes as before.
LEMMA Taken ==
  ASSUME ModbusAssumption, ModbusTyping, Waiting, Full, Take
  PROVE  /\ Need \in Nat /\ Len(rx) \in Nat /\ Len(got) \in Nat /\ Need <= Len(rx)
         /\ got' = Sofar
         /\ got' \in Seq(Byte) /\ rx' \in Seq(Byte)
         /\ Len(got') = Len(got) + Need
         /\ Len(rx') = Len(rx) - Need
         /\ got' \o rx' = got \o rx
         /\ \A k \in 1 .. Len(got') : got'[k] = (got \o rx)[k] /\ got'[k] \in Byte
         /\ \A k \in 1 .. Len(got) : got'[k] = got[k]
<1>1. got \in Seq(Byte) /\ rx \in Seq(Byte) /\ Len(got) \in Nat /\ Len(rx) \in Nat
  BY BuffersTyped DEF ModbusTyping
<1>2. stage \in {"header", "count", "data", "exception", "echo", "body"} /\ status = "running"
  BY DEF ModbusTyping, TypeOK, Waiting
<1>3. Need \in Nat
  <2>1. CASE stage = "header"
    BY <2>1 DEF Need, mbapHeaderLen
  <2>2. CASE stage = "count"
    BY <2>2 DEF Need
  <2>3. CASE stage = "data"
    <3>1. Len(got) = 3
      BY <1>2, <2>3 DEF ModbusTyping, Parts
    <3>2. got[3] \in Byte
      <4>1. 3 \in 1 .. Len(got)
        BY <3>1
      <4> QED
        BY <1>1, <4>1, ElementOfSeq
    <3> QED
      BY <2>3, <3>2, ByteIs DEF Need
  <2>4. CASE stage = "exception"
    BY <2>4 DEF Need
  <2>5. CASE stage = "echo"
    BY <2>5 DEF Need
  <2>6. CASE stage = "body"
    <3>1. Len(got) = 7
      BY <1>2, <2>6 DEF ModbusTyping, Parts, mbapHeaderLen
    <3>2. got[5] \in Byte /\ got[5 + 1] \in Byte
      <4>1. 5 \in 1 .. Len(got) /\ 5 + 1 \in 1 .. Len(got)
        BY <3>1
      <4> QED
        BY <1>1, <4>1, ElementOfSeq
    <3>3. Uint16(got, 5) \in Nat
      BY <3>2, ByteIs DEF Uint16
    <3> QED
      BY <2>6, <3>3 DEF Need
  <2> QED
    BY <1>2, <2>1, <2>2, <2>3, <2>4, <2>5, <2>6
<1> DEFINE n == Need
<1>4. n \in 0 .. Len(rx)
  BY <1>1, <1>3 DEF Full
<1>5. got' = got \o SubSeq(rx, 1, n) /\ rx' = SubSeq(rx, n + 1, Len(rx))
  BY DEF Take, Sofar
<1> HIDE DEF n
<1>6. /\ got' \in Seq(Byte) /\ rx' \in Seq(Byte)
      /\ Len(got') = Len(got) + n
      /\ Len(rx') = Len(rx) - n
      /\ got' \o rx' = got \o rx
  BY <1>1, <1>4, <1>5, TakenAndLeft
<1>7. ASSUME NEW k \in 1 .. Len(got') PROVE got'[k] = (got \o rx)[k] /\ got'[k] \in Byte
  <2>1. \A m \in 1 .. Len(got') : (got' \o rx')[m] = got'[m]
    BY <1>6, Joined, Zenon
  <2>2. got'[k] \in Byte
    BY <1>6, ElementOfSeq
  <2> QED
    BY <1>6, <2>1, <2>2
<1>8. ASSUME NEW k \in 1 .. Len(got) PROVE got'[k] = got[k]
  <2>1. \A m \in 1 .. Len(got) : (got \o rx)[m] = got[m]
    BY <1>1, Joined, Zenon
  <2>2. k \in 1 .. Len(got')
    BY <1>1, <1>4, <1>6
  <2> QED
    BY <1>7, <2>1, <2>2
<1> QED
  BY <1>1, <1>3, <1>4, <1>6, <1>7, <1>8 DEF n, Take, Full

\* What exchange returns is made of bytes.
LEMMA ReturnTyped ==
  ASSUME ModbusAssumption, ModbusTyping, Waiting, Full, Take,
         stage \in {"data", "exception", "echo", "body"}, Matches(pduResp)
  PROVE  /\ pduResp \in Seq(Byte)
         /\ Op.fc \in Reads => SubSeq(pduResp, 3, 2 + pduResp[2]) \in Seq(Byte)
<1>1. Sofar \in Seq(Byte) /\ Len(Sofar) \in Nat
  BY Taken
<1>2. pduResp \in Seq(Byte)
  <2>1. CASE Serial
    <3>1. verifyCRC(Sofar) => SubSeq(Sofar, 2, Len(Sofar) - 2) \in Seq(Byte)
      <4>1. verifyCRC(Sofar) => Len(Sofar) >= 3
        BY DEF verifyCRC
      <4> DEFINE e == Len(Sofar) - 2
      <4>2. Len(Sofar) >= 3 => e \in Nat /\ e <= Len(Sofar) /\ 2 <= e + 1
        BY <1>1
      <4> HIDE DEF e
      <4>3. Len(Sofar) >= 3 => SubSeq(Sofar, 2, e) \in Seq(Byte)
        BY <1>1, <4>2, Sliced
      <4> QED
        BY <4>1, <4>3 DEF e
    <3> QED
      BY <2>1, <3>1 DEF pduResp
  <2>2. CASE ~Serial
    <3> DEFINE l == Len(Sofar)
    <3>1. l \in Nat
      BY <1>1
    <3>2. pduResp = SubSeq(Sofar, 9, l)
      BY <2>2 DEF pduResp, mbapHeaderLen
    <3>3. CASE l >= 8
      BY <1>1, <3>1, <3>2, <3>3, Sliced
    <3>4. CASE l < 8
      <4>1. SubSeq(Sofar, 9, l) = <<>>
        BY <1>1, <3>1, <3>4
      <4> QED
        BY <3>2, <4>1, EmptySeq
    <3> QED
      BY <3>1, <3>3, <3>4
  <2> QED
    BY <2>1, <2>2
<1>3. ASSUME Op.fc \in Reads PROVE SubSeq(pduResp, 3, 2 + pduResp[2]) \in Seq(Byte)
  <2> DEFINE r == pduResp
             e == 2 + r[2]
  <2>1. Len(r) >= 2 /\ Len(r) >= e /\ Len(r) \in Nat
    BY <1>2, <1>3 DEF Matches
  <2>2. r[2] \in Byte
    <3>1. 2 \in 1 .. Len(r)
      BY <2>1
    <3> QED
      BY <1>2, <3>1, ElementOfSeq
  <2>3. e \in Nat /\ 3 <= e + 1
    BY <2>2, ByteIs
  <2> HIDE DEF r, e
  <2>4. SubSeq(r, 3, e) \in Seq(Byte)
    BY <1>2, <2>1, <2>3, Sliced DEF r
  <2> QED
    BY <2>4 DEF r, e
<1> QED
  BY <1>2, <1>3

\* A command starts well typed.
LEMMA TypingInit == ASSUME ModbusAssumption, Init PROVE ModbusTyping
<1>1. <<>> \in Seq(Byte) /\ <<>> \in Seq(Seq(Byte)) /\ <<>> \in Seq([addr : Word, words : Seq(Word)])
  BY EmptySeq
<1>2. Len(job.ops) \in Nat
  BY DEF ModbusAssumption, IsJob, Init
<1>3. TypeOK
  <2>1. 1 \in 1 .. Len(job.ops) + 1
    BY <1>2
  <2>2. Len(values) = i - 1
    BY DEF Init
  <2>3. 0 \in 0 .. MaxFaults
    BY DEF ModbusAssumption
  <2>4. DOMAIN regs = DOMAIN Holding /\ \A a \in DOMAIN regs : regs[a] \in Word
    BY DEF Init, ModbusAssumption
  <2> QED
    BY <1>1, <2>1, <2>2, <2>3, <2>4 DEF Init, TypeOK
<1>4. Parts /\ Requested
  BY DEF Init, Parts, Requested
<1> QED
  BY <1>3, <1>4 DEF ModbusTyping

\* What the device and the line do is well typed.
LEMMA DeviceTyping ==
  ASSUME CRCIsWord, ModbusAssumption, ModbusTyping, Serve \/ Lose \/ ServeDamaged
  PROVE  ModbusTyping'
<1>1. request # <<>> /\ request' = <<>> /\ UNCHANGED <<job, masterVars>>
  BY DEF Serve, Lose, ServeDamaged
<1>2. faults' \in 0 .. MaxFaults
  <2>1. faults \in 0 .. MaxFaults /\ MaxFaults \in Nat
    BY DEF ModbusTyping, TypeOK, ModbusAssumption
  <2> QED
    BY <2>1 DEF Serve, Lose, ServeDamaged, Fault
<1>3. rx' \in Seq(Byte) /\ RegsTyped' /\ log' \in Seq([addr : Word, words : Seq(Word)])
  <2>1. RegsTyped /\ log \in Seq([addr : Word, words : Seq(Word)]) /\ rx \in Seq(Byte)
    BY BuffersTyped DEF ModbusTyping, TypeOK, RegsTyped
  <2>2. PICK k \in 1 .. Len(job.ops) :
          /\ Acceptable(job.ops[k]) /\ IsOp(job.ops[k])
          /\ Payload(request) = PDU(job.ops[k])
          /\ Framed(request, Answer(Payload(request))) \in Seq(Byte)
    BY <1>1, ResponseMade
  <2> DEFINE s == Framed(request, Answer(Payload(request)))
  <2>3. s \in Seq(Byte)
    BY <2>2
  <2>4. CASE Lose
    BY <2>1, <2>4 DEF Lose, RegsTyped
  <2>5. CASE Serve \/ ServeDamaged
    <3>1. Execute(PDU(job.ops[k]))
      BY <2>2, <2>5 DEF Serve, ServeDamaged
    <3>2. RegsTyped' /\ log' \in Seq([addr : Word, words : Seq(Word)])
      BY <2>1, <2>2, <3>1, Executed
    <3>3. \E r \in Seq(Byte) : Respond(r)
      <4>1. CASE Serve
        BY <2>3, <4>1 DEF Serve
      <4>2. CASE ServeDamaged
        <5>1. PICK r \in Damaged(s) : Respond(r)
          BY <4>2 DEF ServeDamaged
        <5>2. r \in Seq(Byte)
          BY <2>3, <5>1, DamagedProps
        <5> QED
          BY <5>1, <5>2
      <4> QED
        BY <2>5, <4>1, <4>2
    <3>4. rx' \in Seq(Byte)
      <4>1. PICK r \in Seq(Byte) : Respond(r)
        BY <3>3
      <4>2. rx \o r \in Seq(Byte)
        BY <2>1, <4>1, Joined
      <4> QED
        BY <2>1, <4>1, <4>2 DEF Respond
    <3> QED
      BY <3>2, <3>4
  <2> QED
    BY <2>4, <2>5
<1>4. {got, rx, request}' \subseteq Seq(Byte)
  BY <1>1, <1>3, BuffersTyped, EmptySeq DEF ModbusTyping, masterVars
<1>5. TypeOK'
  BY <1>1, <1>2, <1>3, <1>4 DEF ModbusTyping, TypeOK, RegsTyped, masterVars
<1>6. Parts'
  BY <1>1 DEF ModbusTyping, Parts, masterVars, Serial, Op
<1>7. Requested'
  BY <1>1 DEF Requested
<1> QED
  BY <1>5, <1>6, <1>7 DEF ModbusTyping

\* When a command fails, its variables keep their types.
LEMMA FailTyping ==
  ASSUME ModbusAssumption, TypeOK, Fail, UNCHANGED <<job, regs, log>>, faults' \in 0 .. MaxFaults,
         {got, rx, request}' \subseteq Seq(Byte)
  PROVE  TypeOK'
<1>1. status' = "error" /\ UNCHANGED <<stage, i>> /\ values' = IF job.cmd = "cat" THEN <<>> ELSE values
  BY DEF Fail
<1>2. values' \in Seq(Seq(Byte))
  BY <1>1, EmptySeq DEF TypeOK
<1>3. Len(values') = i' - 1 \/ (job'.cmd = "cat" /\ status' = "error" /\ values' = <<>>)
  BY <1>1 DEF TypeOK
<1> QED
  BY <1>1, <1>2, <1>3 DEF TypeOK

\* What is sent is well typed.
LEMMA SendTyping ==
  ASSUME CRCIsWord, ModbusAssumption, ModbusTyping, Finish \/ Reject \/ Send \/ SendFails
  PROVE  ModbusTyping'
<1>1. got \in Seq(Byte) /\ rx \in Seq(Byte) /\ request \in Seq(Byte) /\ faults \in 0 .. MaxFaults
  BY BuffersTyped DEF ModbusTyping, TypeOK
<1>2. CASE Finish
  <2>1. UNCHANGED <<job, stage, i, got, rx, values, request, regs, log, faults>> /\ status = "running" /\ status' = "ok"
    BY <1>2 DEF Finish, At, deviceVars
  <2>2. TypeOK'
    BY <2>1 DEF ModbusTyping, TypeOK
  <2>3. Parts' /\ Requested'
    BY <2>1 DEF ModbusTyping, Parts, Requested, Serial, Payload
  <2> QED
    BY <2>2, <2>3 DEF ModbusTyping
<1>3. CASE Reject
  <2>1. UNCHANGED <<job, stage, i, got, rx, request, regs, log, faults>> /\ Fail /\ status' = "error"
    BY <1>3 DEF Reject, Fail, deviceVars
  <2>2. TypeOK'
    BY <1>1, <2>1, FailTyping DEF ModbusTyping
  <2>3. Parts' /\ Requested'
    BY <2>1 DEF ModbusTyping, Parts, Requested, Serial, Payload
  <2> QED
    BY <2>2, <2>3 DEF ModbusTyping
<1>4. ASSUME At("send"), i <= Len(job.ops), Acceptable(Op), request' = ADU(PDU(Op)), UNCHANGED job
      PROVE  request' \in Seq(Byte) /\ Requested'
  <2>1. /\ request' \in Seq(Byte) /\ Len(request') >= 8 /\ Payload(request') = PDU(Op)
    BY <1>4, RequestMade DEF ModbusTyping
  <2>2. i \in 1 .. Len(job.ops)
    BY <1>4, IndexTyped DEF ModbusTyping
  <2>3. Payload(request)' = Payload(request')
    BY <1>4 DEF Payload, Serial
  <2>4. Requested'
    BY <1>4, <2>1, <2>2, <2>3 DEF Requested, Op
  <2> QED
    BY <2>1, <2>4
<1>5. CASE Send
  <2>1. /\ At("send") /\ i <= Len(job.ops) /\ Acceptable(Op) /\ request' = ADU(PDU(Op))
        /\ stage' = "header" /\ got' = <<>>
        /\ UNCHANGED <<job, i, rx, values, status, regs, log, faults>>
    BY <1>5 DEF Send
  <2>2. request' \in Seq(Byte) /\ Requested'
    BY <1>4, <2>1
  <2>3. {got, rx, request}' \subseteq Seq(Byte)
    BY <1>1, <2>1, <2>2, EmptySeq
  <2>4. TypeOK'
    BY <2>1, <2>3 DEF ModbusTyping, TypeOK
  <2>5. Parts'
    BY <2>1 DEF ModbusTyping, Parts, Serial, Op
  <2> QED
    BY <2>2, <2>4, <2>5 DEF ModbusTyping
<1>6. CASE SendFails
  <2>1. /\ At("send") /\ i <= Len(job.ops) /\ Acceptable(Op) /\ request' \in {request, ADU(PDU(Op))}
        /\ Fail /\ status' = "error" /\ UNCHANGED <<job, stage, i, got, rx, regs, log>>
    BY <1>6 DEF SendFails, Fail
  <2>2. request' \in Seq(Byte) /\ Requested'
    <3>1. CASE request' = request
      BY <1>1, <2>1, <3>1 DEF ModbusTyping, Requested, Payload, Serial
    <3>2. CASE request' = ADU(PDU(Op))
      BY <1>4, <2>1, <3>2
    <3> QED
      BY <2>1, <3>1, <3>2
  <2>3. faults' \in 0 .. MaxFaults
    BY <1>1, <1>6 DEF SendFails, Fault, ModbusAssumption
  <2>4. TypeOK'
    BY <1>1, <2>1, <2>2, <2>3, FailTyping DEF ModbusTyping
  <2>5. Parts'
    BY <2>1 DEF ModbusTyping, Parts, Serial, Op
  <2> QED
    BY <2>2, <2>4, <2>5 DEF ModbusTyping
<1> QED
  BY <1>2, <1>3, <1>5, <1>6

\* The parts of a response are well typed.
LEMMA ReceiveTyping ==
  ASSUME CRCIsWord, ModbusAssumption, ModbusTyping, Header \/ ByteCount \/ Body
  PROVE  ModbusTyping'
<1>1. Waiting /\ Full /\ Take
  BY DEF Header, ByteCount, Body, At, Waiting
<1>2. /\ got' \in Seq(Byte) /\ rx' \in Seq(Byte) /\ got' = Sofar
      /\ Len(got') = Len(got) + Need
      /\ \A k \in 1 .. Len(got) : got'[k] = got[k]
  BY <1>1, Taken
<1>3. UNCHANGED <<job, request, regs, log, faults>>
  BY <1>1 DEF Take, deviceVars
<1>4. {got, rx, request}' \subseteq Seq(Byte)
  BY <1>2, <1>3, BuffersTyped DEF ModbusTyping
<1>5. Requested'
  BY <1>3 DEF ModbusTyping, Requested, Payload, Serial
<1>6. status = "running" /\ i <= Len(job.ops) /\ Acceptable(Op) /\ i \in 1 .. Len(job.ops)
  BY <1>1, IndexTyped DEF Waiting, ModbusTyping, Parts
<1>7. faults' \in 0 .. MaxFaults
  BY <1>3 DEF ModbusTyping, TypeOK
<1>8. CASE Fail
  <2>1. TypeOK'
    BY <1>3, <1>4, <1>7, <1>8, FailTyping DEF ModbusTyping
  <2>2. Parts'
    BY <1>3, <1>8 DEF ModbusTyping, Parts, Serial, Op, Fail
  <2> QED
    BY <1>5, <2>1, <2>2 DEF ModbusTyping
<1>9. ASSUME NEW part \in {"count", "data", "exception", "echo", "body"}, Continue(part),
             part = "body" <=> ~Serial,
             part = "count" => Len(got') = 2 /\ got'[1] = Unit /\ got'[2] \in Reads,
             part = "data" => Len(got') = 3 /\ got'[1] = Unit /\ got'[2] \in Reads,
             part = "exception" => Len(got') = 2 /\ got'[2] >= 128,
             part = "echo" => Len(got') = 2 /\ got'[2] \in Writes,
             part = "body" => Len(got') = mbapHeaderLen
      PROVE  ModbusTyping'
  <2>1. stage' = part /\ UNCHANGED <<i, values, status>>
    BY <1>9 DEF Continue
  <2>2. TypeOK'
    BY <1>3, <1>4, <2>1 DEF ModbusTyping, TypeOK
  <2>3. Parts'
    BY <1>3, <1>6, <1>9, <2>1 DEF Parts, Serial, Op
  <2> QED
    BY <1>5, <2>2, <2>3 DEF ModbusTyping
<1>10. CASE Header
  <2>1. stage = "header" /\ got = <<>>
    BY <1>10 DEF Header, At, ModbusTyping, TypeOK
  <2>2. Len(got) = 0
    BY <2>1
  <2>3. CASE Serial
    <3>1. Len(got') = 2
      BY <1>2, <2>1, <2>2, <2>3 DEF Need
    <3>2. \/ Fail
          \/ got'[1] = Unit /\ got'[2] >= 128 /\ Continue("exception")
          \/ got'[1] = Unit /\ got'[2] \in Reads /\ Continue("count")
          \/ got'[1] = Unit /\ got'[2] \in Writes /\ Continue("echo")
      BY <1>2, <1>10, <2>3 DEF Header
    <3> QED
      BY <1>8, <1>9, <2>3, <3>1, <3>2
  <2>4. CASE ~Serial
    <3>1. Len(got') = mbapHeaderLen
      BY <1>2, <2>1, <2>2, <2>4 DEF Need, mbapHeaderLen
    <3>2. Fail \/ Continue("body")
      BY <1>10, <2>4 DEF Header
    <3> QED
      BY <1>8, <1>9, <2>4, <3>1, <3>2
  <2> QED
    BY <2>3, <2>4
<1>11. CASE ByteCount
  <2>1. stage = "count" /\ Continue("data")
    BY <1>11 DEF ByteCount, At
  <2>2. Len(got) = 2 /\ got[1] = Unit /\ got[2] \in Reads /\ Serial
    BY <1>6, <2>1 DEF ModbusTyping, Parts
  <2>3. Len(got') = 3
    BY <1>2, <2>1, <2>2 DEF Need
  <2>4. got'[1] = got[1] /\ got'[2] = got[2]
    BY <1>2, <2>2
  <2> QED
    BY <1>9, <2>1, <2>2, <2>3, <2>4
<1>12. CASE Body
  <2>1. CASE Matches(pduResp)
    <3> DEFINE v == IF Op.fc \in Reads THEN SubSeq(pduResp, 3, 2 + pduResp[2]) ELSE <<>>
    <3>1. values' = Append(values, v) /\ i' = i + 1 /\ stage' = "send" /\ UNCHANGED status
      BY <1>12, <2>1 DEF Body
    <3>2. v \in Seq(Byte)
      BY <1>1, <1>12, <2>1, ReturnTyped, EmptySeq DEF Body
    <3> HIDE DEF v
    <3>3. values \in Seq(Seq(Byte)) /\ Len(values) = i - 1
      BY <1>6 DEF ModbusTyping, TypeOK
    <3>4. values' \in Seq(Seq(Byte)) /\ Len(values') = Len(values) + 1
      BY <3>1, <3>2, <3>3, AppendProperties
    <3>5. i' \in 1 .. Len(job.ops) + 1 /\ Len(values') = i' - 1
      BY <1>6, <3>1, <3>3, <3>4, IndexTyped DEF ModbusTyping
    <3>6. TypeOK'
      BY <1>3, <1>4, <1>6, <3>1, <3>4, <3>5 DEF ModbusTyping, TypeOK
    <3>7. Parts'
      BY <1>3, <3>1 DEF ModbusTyping, Parts, Serial
    <3> QED
      BY <1>5, <3>6, <3>7 DEF ModbusTyping
  <2>2. CASE ~Matches(pduResp)
    BY <1>8, <1>12, <2>2 DEF Body
  <2> QED
    BY <2>1, <2>2
<1> QED
  BY <1>10, <1>11, <1>12

\* Every step keeps the types.
LEMMA TypingStep ==
  ASSUME CRCIsWord, ModbusAssumption, ModbusTyping, [Next]_vars
  PROVE  ModbusTyping'
<1>1. CASE Timeout
  <2>1. UNCHANGED <<job, stage, i, got, rx, request, regs, log, faults>> /\ Fail /\ status' = "error"
    BY <1>1 DEF Timeout, Fail, deviceVars
  <2>2. got \in Seq(Byte) /\ rx \in Seq(Byte) /\ request \in Seq(Byte) /\ faults \in 0 .. MaxFaults
    BY BuffersTyped DEF ModbusTyping, TypeOK
  <2>3. TypeOK'
    BY <2>1, <2>2, FailTyping DEF ModbusTyping
  <2>4. Parts' /\ Requested'
    BY <2>1 DEF ModbusTyping, Parts, Requested, Serial, Payload
  <2> QED
    BY <2>3, <2>4 DEF ModbusTyping
<1>2. CASE UNCHANGED vars
  <2>1. UNCHANGED <<job, stage, i, got, rx, values, status, request, regs, log, faults>>
    BY <1>2 DEF vars, masterVars, deviceVars
  <2>2. TypeOK'
    BY <2>1 DEF ModbusTyping, TypeOK
  <2>3. Parts' /\ Requested'
    BY <2>1 DEF ModbusTyping, Parts, Requested, Serial, Payload, Op
  <2> QED
    BY <2>2, <2>3 DEF ModbusTyping
<1> QED
  BY <1>1, <1>2, DeviceTyping, SendTyping, ReceiveTyping DEF Next, Command

\* Types are kept, no part of an earlier response is taken for the next one, and
\* the loop counts its results.
THEOREM ModbusTypeCorrect == ASSUME CRCIsWord PROVE Spec => []TypeOK
<1>1. Init => ModbusTyping
  BY TypingInit, ModbusAssumption
<1>2. ModbusTyping /\ [Next]_vars => ModbusTyping'
  BY TypingStep, ModbusAssumption
<1>3. ModbusTyping => TypeOK
  BY DEF ModbusTyping
<1> QED
  BY <1>1, <1>2, <1>3, PTL DEF Spec
-----------------------------------------------------------------------------
(* The exchange.                                                           *)

\* While a response is awaited, the argument is good.
LEMMA WaitingOp ==
  ASSUME ModbusAssumption, ModbusTyping, Waiting
  PROVE  /\ i \in 1 .. Len(job.ops) /\ i \in Nat /\ Acceptable(Op) /\ IsOp(Op)
         /\ job.cmd \in {"cat", "set"}
         /\ job.cmd = "cat" => Op.fc \in Reads /\ Op.fc \notin Writes
         /\ job.cmd = "set" => Op.fc \in Writes /\ Op.fc \notin Reads
         /\ Op.fc < 128
<1>1. i <= Len(job.ops) /\ Acceptable(Op)
  BY DEF Waiting, ModbusTyping, Parts
<1>2. i \in 1 .. Len(job.ops) /\ i \in Nat
  BY <1>1, IndexTyped DEF ModbusTyping
<1>3. /\ IsOp(Op) /\ job.cmd \in {"cat", "set"}
      /\ job.cmd = "cat" => Op.fc \in Reads
      /\ job.cmd = "set" => Op.fc \in Writes
  BY <1>1, <1>2, OpProps DEF Op, ModbusTyping, TypeOK
<1> QED
  BY <1>1, <1>2, <1>3 DEF Reads, Writes, fcReadHolding, fcReadInput, fcWriteSingle, fcWriteMultiple

\* The response that the present request gets when nothing disturbs it.
LEMMA ReplyProps ==
  ASSUME CRCIsWord, ModbusAssumption, ModbusTyping, Waiting
  PROVE  /\ Reply \in Seq(Byte)
         /\ ~Serial => Len(Reply) \in Nat /\ Len(Reply) >= 8 /\ Uint16(Reply, 5) = Len(Reply) - 6
         /\ Serial =>
              /\ Reply[1] = Unit
              /\ verifyCRC(Reply)
              /\ SubSeq(Reply, 2, Len(Reply) - 2) = Answer(PDU(Op))
              /\ ~Has(PDU(Op)) => Len(Reply) = 5 /\ Reply[2] = Op.fc + 128
              /\ Has(PDU(Op)) => Reply[2] = Op.fc
              /\ Has(PDU(Op)) /\ Op.fc \in Writes => Len(Reply) = 8
              /\ Has(PDU(Op)) /\ Op.fc \in Reads =>
                   Op.count \in 1 .. 125 /\ Reply[3] = 2 * Op.count /\ Len(Reply) = 5 + 2 * Op.count
<1> DEFINE adu == ADU(PDU(Op))
           a == Answer(PDU(Op))
           m == Len(a)
           l == Len(Reply)
<1>1. i <= Len(job.ops) /\ Acceptable(Op) /\ IsOp(Op)
  BY WaitingOp, IndexTyped DEF ModbusTyping
<1>2. adu \in Seq(Byte) /\ Len(adu) >= 8 /\ adu[IF Serial THEN 1 ELSE 7] = Unit
  BY <1>1, RequestMade DEF ModbusTyping
<1>3. RegsTyped
  BY DEF ModbusTyping, TypeOK, RegsTyped
<1>4. /\ a \in Seq(Byte) /\ m \in 1 .. 252
      /\ ~Has(PDU(Op)) => m = 2 /\ a[1] = Op.fc + 128
      /\ Has(PDU(Op)) => a[1] = Op.fc
      /\ Has(PDU(Op)) /\ Op.fc \in Writes => m = 5
      /\ Has(PDU(Op)) /\ Op.fc \in Reads => m = 2 + 2 * Op.count /\ a[2] = 2 * Op.count
  BY SMTT(60), <1>1, <1>3, AnswerProps
<1>5. Reply = Framed(adu, a)
  BY DEF Reply
<1> HIDE DEF adu, a
<1>6. /\ Reply \in Seq(Byte)
      /\ l = m + (IF Serial THEN 3 ELSE 7)
      /\ Serial =>
           /\ Reply[1] = adu[1] /\ verifyCRC(Reply)
           /\ \A k \in 1 .. m : Reply[1 + k] = a[k]
           /\ SubSeq(Reply, 2, l - 2) = a
      /\ ~Serial => Uint16(Reply, 5) = 1 + m
  BY <1>2, <1>4, <1>5, FramedProps
<1>7. ~Serial => l \in Nat /\ l >= 8 /\ Uint16(Reply, 5) = l - 6
  <2>1. \A n \in 1 .. 252 : n + 7 \in Nat /\ n + 7 >= 8 /\ 1 + n = n + 7 - 6
    OBVIOUS
  <2>2. ~Serial => l = m + 7 /\ Uint16(Reply, 5) = 1 + m
    BY <1>6
  <2> HIDE DEF l, m
  <2>3. m \in 1 .. 252
    BY <1>4
  <2> QED
    BY <2>1, <2>2, <2>3
<1>8. ASSUME Serial PROVE Reply[1 + 1] = a[1] /\ (m >= 2 => Reply[1 + 2] = a[2])
  <2> HIDE DEF m, l
  <2>1. \A n \in 1 .. 252 : 1 \in 1 .. n /\ (n >= 2 => 2 \in 1 .. n)
    OBVIOUS
  <2>2. 1 \in 1 .. m /\ (m >= 2 => 2 \in 1 .. m)
    BY <1>4, <2>1, ZenonT(60)
  <2> QED
    BY <1>6, <1>8, <2>2
<1>9. ASSUME Serial, Has(PDU(Op)), Op.fc \in Reads
      PROVE  Op.count \in 1 .. 125 /\ Reply[3] = 2 * Op.count /\ l = 5 + 2 * Op.count
  <2>1. Op.count \in 1 .. 125
    BY <1>1, <1>9, ReadCount
  <2>2. m = 2 + 2 * Op.count /\ a[2] = 2 * Op.count /\ l = m + 3
    BY <1>4, <1>6, <1>9
  <2> HIDE DEF m, l
  <2> DEFINE c == Op.count
  <2>3. c \in 1 .. 125 /\ m = 2 + 2 * c /\ l = m + 3
    BY <2>1, <2>2
  <2> HIDE DEF c
  <2>4. m >= 2 /\ l = 5 + 2 * c
    BY <2>3
  <2> QED
    BY <1>8, <1>9, <2>1, <2>2, <2>4 DEF c
<1>10. Serial => l = m + 3
  BY <1>6
<1> HIDE DEF l, m
<1> QED
  BY <1>2, <1>4, <1>6, <1>7, <1>8, <1>9, <1>10 DEF l, a

\* The first bytes of a longer sequence.
LEMMA Beginning ==
  ASSUME NEW s \in Seq(Byte), NEW t \in Seq(Byte), NEW n \in 0 .. Len(s)
  PROVE  SubSeq(s \o t, 1, n) = SubSeq(s, 1, n)
<1>1. /\ s \o t \in Seq(Byte) /\ Len(s) \in Nat /\ Len(t) \in Nat
      /\ Len(s \o t) = Len(s) + Len(t)
      /\ \A k \in 1 .. Len(s) : (s \o t)[k] = s[k]
  BY Joined
<1> DEFINE c == s \o t
           u == SubSeq(c, 1, n)
           v == SubSeq(s, 1, n)
<1>2. c \in Seq(Byte) /\ n \in Nat /\ n <= Len(s) /\ n <= Len(c) /\ 1 <= n + 1 /\ \A k \in 1 .. n : c[k] = s[k]
  BY <1>1
<1> HIDE DEF c
<1>3. u \in Seq(Byte) /\ Len(u) = n - 1 + 1 /\ \A k \in 1 .. n - 1 + 1 : u[k] = c[1 + k - 1]
  BY <1>2, Sliced
<1>4. v \in Seq(Byte) /\ Len(v) = n - 1 + 1 /\ \A k \in 1 .. n - 1 + 1 : v[k] = s[1 + k - 1]
  BY <1>2, Sliced
<1> HIDE DEF u, v
<1>5. Len(u) = n /\ Len(v) = n /\ \A k \in 1 .. n : u[k] = v[k]
  BY <1>2, <1>3, <1>4
<1>6. u = v
  BY <1>3, <1>4, <1>5, SeqEqual
<1> QED
  BY <1>6 DEF u, v, c

\* The response that CRCDetects speaks of is the one that the device makes.
LEMMA ReplyIsAnswered ==
  ASSUME CRCIsWord, ModbusAssumption, ModbusTyping, Waiting, Serial, Op.fc \in Reads, regs = Holding
  PROVE  Reply = WithCRC(<<Unit>> \o Answered(Op))
<1>1. i <= Len(job.ops) /\ Acceptable(Op) /\ IsOp(Op)
  BY WaitingOp, IndexTyped DEF ModbusTyping
<1>2. ADU(PDU(Op))[1] = Unit
  BY <1>1, RequestMade DEF ModbusTyping
<1>3. Op.fc # 6
  BY DEF Reads, fcReadHolding, fcReadInput
<1>4. PDU(Op)[1] = Op.fc /\ Uint16(PDU(Op), 2) = Op.addr /\ Uint16(PDU(Op), 4) = Op.count
  BY <1>1, <1>3, PDUProps DEF fcWriteSingle
<1>5. Asked(PDU(Op)) = Named(Op)
  BY <1>1, AddressedProps DEF ModbusTyping, TypeOK, RegsTyped
<1> DEFINE contents == IF Op.fc = fcReadInput THEN Input ELSE Holding
<1>6. Contents(Op.fc) = contents
  BY DEF Contents
<1>7. Has(PDU(Op)) <=> Op.addr .. Op.addr + Op.count - 1 \subseteq DOMAIN contents
  BY <1>3, <1>4, <1>6 DEF Has, Addressed, fcWriteSingle
<1>8. Named(Op) = [n \in 1 .. Op.count |-> contents[Op.addr + n - 1]]
  BY <1>6 DEF Named
<1> HIDE DEF contents
<1>9. Answer(PDU(Op)) = Answered(Op)
  BY <1>4, <1>5, <1>7, <1>8 DEF Answer, Answered, contents
<1> QED
  BY <1>2, <1>9 DEF Reply, Framed

\* The response does not depend on whether the request has been executed.
LEMMA ReplyKept ==
  ASSUME UNCHANGED <<job, i>>, IsOp(Op), Acceptable(Op),
         DOMAIN regs' = DOMAIN regs, Op.fc \in Reads => regs' = regs
  PROVE  /\ Op' = Op /\ Serial' = Serial
         /\ ADU(PDU(Op))' = ADU(PDU(Op))
         /\ Has(PDU(Op))' = Has(PDU(Op))
         /\ Reply' = Reply
         /\ Arrivals' = Arrivals
<1>1. Op' = Op /\ Serial' = Serial
  BY DEF Op, Serial
<1>2. \A p : ADU(p)' = ADU(p)
  BY <1>1 DEF ADU
<1>3. ADU(PDU(Op))' = ADU(PDU(Op))
  BY <1>1 DEF ADU
<1>4. PDU(Op)[1] = Op.fc
  BY PDUProps
<1>5. Has(PDU(Op))' = Has(PDU(Op))
  BY <1>1, <1>4 DEF Has, Contents
<1>6. Answer(PDU(Op))' = Answer(PDU(Op))
  <2>1. CASE Op.fc \in Reads
    BY <1>1, <1>5, <2>1 DEF Answer, Asked, Contents, Has
  <2>2. CASE Op.fc \notin Reads
    BY <1>1, <1>4, <1>5, <2>2 DEF Answer
  <2> QED
    BY <2>1, <2>2
<1>7. Reply' = Reply
  BY <1>1, <1>3, <1>6 DEF Reply, Framed
<1>8. Arrivals' = Arrivals
  BY <1>1, <1>7 DEF Arrivals
<1> QED
  BY <1>1, <1>3, <1>5, <1>7, <1>8

\* When a response is good, it is the whole of what has arrived.
LEMMA GoodBody ==
  ASSUME CRCIsWord, ModbusAssumption, ModbusTyping, Undamaged, InStep,
         job.cmd = "cat" => regs = Holding, Body, Matches(pduResp)
  PROVE  /\ Serial /\ request = <<>> /\ rx' = <<>>
         /\ got \o rx # <<>> /\ Has(PDU(Op))
         /\ Op.fc \in Reads => Sofar = Reply
<1> DEFINE A == got \o rx
<1>1. Waiting /\ Full /\ Take /\ status = "running" /\ stage \in {"data", "exception", "echo", "body"}
  BY DEF Body, Waiting
<1>2. request = <<>> /\ A \in Arrivals /\ (faults = 0 => A = Reply)
  BY <1>1 DEF InStep
<1>3. /\ Need \in Nat /\ Len(rx) \in Nat /\ Len(got) \in Nat /\ Need <= Len(rx)
      /\ got' = Sofar
      /\ got' \in Seq(Byte) /\ rx' \in Seq(Byte)
      /\ Len(got') = Len(got) + Need
      /\ Len(rx') = Len(rx) - Need
      /\ got' \o rx' = A
      /\ \A k \in 1 .. Len(got') : got'[k] = A[k] /\ got'[k] \in Byte
      /\ \A k \in 1 .. Len(got) : got'[k] = got[k]
  BY <1>1, Taken
<1>4. A \in Seq(Byte) /\ Len(A) = Len(got) + Len(rx)
  BY BuffersTyped, Joined DEF ModbusTyping
<1>5. /\ Reply \in Seq(Byte)
      /\ ~Serial => Len(Reply) \in Nat /\ Len(Reply) >= 8 /\ Uint16(Reply, 5) = Len(Reply) - 6
      /\ Serial =>
           /\ ~Has(PDU(Op)) => Len(Reply) = 5 /\ Reply[2] = Op.fc + 128
           /\ Has(PDU(Op)) => Reply[2] = Op.fc
           /\ Has(PDU(Op)) /\ Op.fc \in Writes => Len(Reply) = 8
           /\ Has(PDU(Op)) /\ Op.fc \in Reads => Reply[3] = 2 * Op.count /\ Len(Reply) = 5 + 2 * Op.count
  BY <1>1, ReplyProps
<1>6. /\ job.cmd \in {"cat", "set"} /\ Op.fc < 128 /\ Op.fc \in Int
      /\ job.cmd = "cat" => Op.fc \in Reads /\ Op.fc \notin Writes
      /\ job.cmd = "set" => Op.fc \in Writes /\ Op.fc \notin Reads
  <2>1. /\ job.cmd \in {"cat", "set"} /\ Op.fc < 128
        /\ job.cmd = "cat" => Op.fc \in Reads /\ Op.fc \notin Writes
        /\ job.cmd = "set" => Op.fc \in Writes /\ Op.fc \notin Reads
    BY <1>1, WaitingOp
  <2>2. Op.fc \in Int
    BY <2>1 DEF Reads, Writes, fcReadHolding, fcReadInput, fcWriteSingle, fcWriteMultiple
  <2> QED
    BY <2>1, <2>2
<1> HIDE DEF A
<1>7. Serial
  <2> SUFFICES ASSUME ~Serial PROVE FALSE
    OBVIOUS
  <2>1. stage = "body" /\ Len(got) = 7
    BY <1>1 DEF ModbusTyping, Parts, mbapHeaderLen
  <2>2. A = Reply
    <3>1. A \in {Reply, <<>>}
      BY <1>2 DEF Arrivals
    <3>2. Len(A) > 0
      BY <1>3, <1>4, <2>1
    <3> QED
      BY <3>1, <3>2
  <2>3. got[5] = A[5] /\ got[5 + 1] = A[5 + 1]
    <3>1. 5 \in 1 .. Len(got) /\ 5 + 1 \in 1 .. Len(got) /\ 5 \in 1 .. Len(got') /\ 5 + 1 \in 1 .. Len(got')
      BY <1>3, <2>1
    <3> QED
      BY <1>3, <3>1
  <2>4. Need = Uint16(A, 5)
    BY <2>1, <2>3 DEF Need, Uint16
  <2> DEFINE l == Len(A)
             m == Len(rx)
             n == Need
  <2>5. n = l - 6 /\ l = 7 + m /\ n <= m /\ m \in Nat
    BY <1>3, <1>4, <1>5, <2>1, <2>2, <2>4
  <2> HIDE DEF l, m, n
  <2> QED
    BY <2>5
<1>8. stage \in {"data", "exception", "echo"}
  BY <1>1, <1>7 DEF ModbusTyping, Parts
<1>9. verifyCRC(Sofar) /\ pduResp = SubSeq(Sofar, 2, Len(Sofar) - 2) /\ pduResp[1] = Op.fc /\ Len(pduResp) >= 2
  <2>1. Len(pduResp) >= 2 /\ pduResp[1] = Op.fc
    BY DEF Matches
  <2>2. pduResp # <<>>
    BY <2>1
  <2> QED
    BY <1>7, <2>1, <2>2 DEF pduResp
<1>10. stage \in {"exception", "echo"} => Len(got) = 2
  BY <1>1 DEF ModbusTyping, Parts
<1>11. stage = "data" => Len(got) = 3 /\ got[1] = Unit
  BY <1>1 DEF ModbusTyping, Parts
<1>12. got[2] = Op.fc /\ A[2] = Op.fc
  <2> DEFINE n == Len(Sofar)
             r == SubSeq(Sofar, 2, n - 2)
  <2>1. n \in Nat /\ n >= 4
    <3>1. Need >= 2
      <4>1. CASE stage = "data"
        <5>1. 3 \in 1 .. Len(got)
          BY <1>11, <4>1
        <5>2. got[3] \in Byte
          BY <5>1, BuffersTyped, ElementOfSeq DEF ModbusTyping
        <5> QED
          BY <4>1, <5>2, ByteIs DEF Need
      <4>2. CASE stage # "data"
        BY <1>8, <4>2 DEF Need
      <4> QED
        BY <4>1, <4>2
    <3>2. Len(got) >= 2
      BY <1>8, <1>10, <1>11
    <3>3. n = Len(got) + Need
      BY <1>3
    <3> HIDE DEF n
    <3> QED
      BY <1>3, <3>1, <3>2, <3>3
  <2>2. n - 2 \in Nat /\ n - 2 <= n /\ 2 <= n - 2 + 1 /\ (1 \in 1 .. n - 2 - 2 + 1 \/ n = 4)
    <3> HIDE DEF n
    <3> QED
      BY <2>1
  <2>3. Len(r) >= 2
    BY <1>9
  <2>4. Sofar \in Seq(Byte)
    BY <1>3
  <2>5. Len(r) = (n - 2) - 2 + 1 /\ \A k \in 1 .. (n - 2) - 2 + 1 : r[k] = Sofar[2 + k - 1]
    <3> DEFINE e == n - 2
    <3>1. e \in Nat /\ e <= Len(Sofar) /\ 2 <= e + 1
      <4> DEFINE q == n
      <4>1. q \in Nat /\ q >= 4
        BY <2>1
      <4> HIDE DEF n, q
      <4> QED
        BY <2>1 DEF n
    <3> HIDE DEF e
    <3>2. Len(SubSeq(Sofar, 2, e)) = e - 2 + 1 /\ \A k \in 1 .. e - 2 + 1 : SubSeq(Sofar, 2, e)[k] = Sofar[2 + k - 1]
      BY <2>4, <3>1, Sliced
    <3> QED
      BY <3>2 DEF e
  <2>6. r[1] = Sofar[2]
    <3>1. 1 \in 1 .. (n - 2) - 2 + 1
      <4>1. Len(r) = (n - 2) - 2 + 1
        BY <2>5
      <4> HIDE DEF r, n
      <4> QED
        BY <2>1, <2>3, <4>1
    <3> HIDE DEF r, n
    <3>2. r[1] = Sofar[2 + 1 - 1]
      BY <2>5, <3>1
    <3>3. 2 + 1 - 1 = 2
      OBVIOUS
    <3> QED
      BY <3>2, <3>3
  <2>7. 2 \in 1 .. Len(got) /\ 2 \in 1 .. Len(got')
    <3>1. 2 \in 1 .. Len(got)
      BY <1>8, <1>10, <1>11
    <3> QED
      BY <1>3, <3>1
  <2>8. got'[2] = A[2] /\ got'[2] = got[2]
    BY <1>3, <2>7
  <2> QED
    BY <1>3, <1>9, <2>6, <2>8
<1>13. CASE stage = "exception"
  <2>1. got[2] >= 128
    BY <1>1, <1>13 DEF ModbusTyping, Parts
  <2> QED
    BY <1>6, <1>12, <2>1
<1>14. A # <<>> /\ (A = Reply \/ A \in Damaged(Reply))
  <2>1. Len(A) > 0
    BY <1>3, <1>4, <1>8, <1>10, <1>11
  <2>2. A # <<>>
    BY <2>1
  <2> QED
    BY <1>2, <2>2 DEF Arrivals
<1>15. Len(A) <= Len(Reply) /\ Len(Reply) \in Nat
  BY <1>5, <1>14, DamagedProps
<1>16. Len(rx') = 0 => rx' = <<>>
  BY <1>3
<1>17. CASE stage = "echo"
  <2>1. Op.fc \in Writes
    BY <1>1, <1>12, <1>17 DEF ModbusTyping, Parts
  <2>2. Need = 6 /\ Len(got) = 2
    BY <1>10, <1>17 DEF Need
  <2>3. Has(PDU(Op)) /\ Len(Reply) = 8
    <3>1. Len(Reply) >= 8
      BY <1>3, <1>4, <1>15, <2>2
    <3>2. ~Has(PDU(Op)) => Len(Reply) = 5
      BY <1>5, <1>7
    <3>3. Len(Reply) # 5
      <4> DEFINE l == Len(Reply)
      <4>1. l >= 8
        BY <3>1
      <4> HIDE DEF l
      <4>2. l # 5
        BY <4>1
      <4> QED
        BY <4>2 DEF l
    <3> QED
      BY <1>5, <1>7, <2>1, <3>2, <3>3
  <2>4. Len(rx) = 6
    BY <1>3, <1>4, <1>15, <2>2, <2>3
  <2>5. Len(rx') = 0
    BY <1>3, <2>2, <2>4
  <2>6. Op.fc \notin Reads
    BY <1>6, <2>1
  <2> QED
    BY <1>2, <1>7, <1>14, <1>16, <2>3, <2>5, <2>6 DEF A
<1>18. CASE stage = "data"
  <2> DEFINE c == got[3]
  <2>1. Op.fc \in Reads /\ job.cmd = "cat" /\ regs = Holding
    BY <1>1, <1>6, <1>12, <1>18 DEF ModbusTyping, Parts
  <2>2. Len(got) = 3 /\ Need = c + 2 /\ c \in Byte /\ A[3] = c /\ A[1] = Unit
    <3>1. 3 \in 1 .. Len(got) /\ 3 \in 1 .. Len(got') /\ 1 \in 1 .. Len(got) /\ 1 \in 1 .. Len(got')
      <4>1. Len(got) = 3
        BY <1>11, <1>18
      <4>2. Len(got') = 3 + Need /\ Need \in Nat
        BY <1>3, <4>1
      <4>3. 3 \in 1 .. Len(got')
        BY <4>2
      <4>4. 1 \in 1 .. Len(got')
        BY <4>2
      <4> QED
        BY <4>1, <4>3, <4>4
    <3>2. got[3] = A[3] /\ got[1] = A[1] /\ got[3] \in Byte
      BY <1>3, <3>1
    <3> QED
      BY <1>11, <1>18, <3>2 DEF Need
  <2> HIDE DEF c
  <2>3. c \in Nat /\ Len(got') = 5 + c /\ Len(rx) >= 2 + c
    <3>1. c \in Nat
      BY <2>2, ByteIs
    <3>2. Len(got') = 3 + (c + 2) /\ c + 2 <= Len(rx)
      BY <1>3, <2>2
    <3> QED
      BY <1>3, <3>1, <3>2
  <2>4. CASE A = Reply
    <3>1. Has(PDU(Op))
      BY <1>5, <1>6, <1>7, <1>12, <2>4
    <3>2. c = 2 * Op.count /\ Len(Reply) = 5 + c
      BY <1>5, <1>7, <2>1, <2>2, <2>4, <3>1
    <3>3. Len(rx) = 2 + c
      <4> DEFINE m == Len(rx)
      <4>1. m \in Nat /\ 5 + c = 3 + m
        BY <1>3, <1>4, <2>2, <2>4, <3>2, Zenon
      <4> HIDE DEF m
      <4>2. m = 2 + c
        BY ONLY <2>3, <4>1
      <4> QED
        BY <4>2 DEF m
    <3>4. Len(rx') = 0
      BY <1>3, <2>2, <2>3, <3>3
    <3>5. rx' = <<>>
      BY <1>16, <3>4
    <3>6. got' = A
      BY <1>3, <3>5
    <3> QED
      BY <1>2, <1>3, <1>7, <1>14, <2>4, <3>1, <3>5, <3>6 DEF A
  <2>5. CASE A # Reply
    <3>1. A \in Damaged(Reply) /\ CRCDetects
      BY <1>2, <1>7, <1>14, <2>1, <2>5 DEF Undamaged
    <3>2. Reply = WithCRC(<<Unit>> \o Answered(Op))
      BY <1>1, <1>7, <2>1, ReplyIsAnswered
    <3>3. job \in Jobs /\ job.net = "rtu" /\ i \in 1 .. Len(job.ops) /\ Acceptable(job.ops[i])
      BY <1>1, <1>7, WaitingOp DEF ModbusTyping, TypeOK, Serial, Op
    <3>4. ~Passes(A, Op)
      BY <2>1, <3>1, <3>2, <3>3 DEF CRCDetects, Op
    <3>5. Passes(A, Op)
      <4>1. Len(A) >= 5 + c
        BY SMTT(60), <1>3, <1>4, <2>2, <2>3
      <4>2. SubSeq(A, 1, 5 + c) = Sofar
        <5>1. SubSeq(got' \o rx', 1, Len(got')) = SubSeq(got', 1, Len(got'))
          <6>1. Len(got') \in 0 .. Len(got')
            BY <2>3
          <6> QED
            BY <1>3, <6>1, Beginning
        <5>2. SubSeq(got', 1, Len(got')) = got'
          BY <1>3
        <5> QED
          BY <1>3, <2>3, <5>1, <5>2
      <4>3. SubSeq(A, 1, 3 + c) = SubSeq(Sofar, 1, 3 + c)
        <5>1. 3 + c \in 0 .. Len(got')
          BY <2>3
        <5> QED
          BY <1>3, <5>1, Beginning
      <4>4. Len(Sofar) - 2 = 3 + c
        <5>1. Len(Sofar) = 5 + c
          BY <1>3, <2>3
        <5> QED
          BY <2>3, <5>1
      <4>5. Sofar = WithCRC(SubSeq(Sofar, 1, 3 + c))
        BY <1>9, <4>4 DEF verifyCRC
      <4>6. Len(A) >= 5
        BY <2>3, <4>1
      <4> QED
        BY <1>12, <2>2, <4>1, <4>2, <4>3, <4>5, <4>6 DEF Passes
    <3> QED
      BY <3>4, <3>5
  <2> QED
    BY <2>4, <2>5
<1> QED
  BY <1>8, <1>13, <1>17, <1>18

\* The device's step for a request, disturbed or not: what is executed, and what
\* arrives.
LEMMA Served ==
  ASSUME CRCIsWord, ModbusAssumption, ModbusTyping, Serve \/ ServeDamaged
  PROVE  \E k \in 1 .. Len(job.ops) :
           /\ Acceptable(job.ops[k]) /\ IsOp(job.ops[k])
           /\ Payload(request) = PDU(job.ops[k])
           /\ Execute(PDU(job.ops[k]))
           /\ DOMAIN regs' = DOMAIN regs
           /\ job.cmd = "cat" => regs' = regs /\ log' = log
           /\ job.cmd = "set" =>
                log' = IF Has(PDU(job.ops[k]))
                       THEN Append(log, [addr |-> job.ops[k].addr, words |-> job.ops[k].words])
                       ELSE log
<1>1. request # <<>> /\ Execute(Payload(request))
  BY DEF Serve, ServeDamaged
<1>2. PICK k \in 1 .. Len(job.ops) :
        /\ Acceptable(job.ops[k]) /\ IsOp(job.ops[k])
        /\ job.cmd = "cat" => job.ops[k].fc \in Reads
        /\ job.cmd = "set" => job.ops[k].fc \in Writes
        /\ Payload(request) = PDU(job.ops[k])
  BY <1>1, ResponseMade
<1>3. Execute(PDU(job.ops[k]))
  BY <1>1, <1>2
<1>4. RegsTyped /\ log \in Seq([addr : Word, words : Seq(Word)])
  BY DEF ModbusTyping, TypeOK, RegsTyped
<1> DEFINE op == job.ops[k]
<1>5. /\ DOMAIN regs' = DOMAIN regs
      /\ op.fc \in Reads => regs' = regs /\ log' = log
      /\ op.fc \in Writes =>
           log' = IF Has(PDU(op)) THEN Append(log, [addr |-> op.addr, words |-> op.words]) ELSE log
  BY <1>2, <1>3, <1>4, Executed
<1> QED
  BY <1>2, <1>3, <1>5

\* What arrives when the request of an exchange in step is served.
LEMMA ServedInStep ==
  ASSUME CRCIsWord, ModbusAssumption, ModbusTyping, InStep, status = "running", Serve \/ ServeDamaged
  PROVE  /\ Waiting /\ stage = "header" /\ got = <<>> /\ rx = <<>> /\ request = ADU(PDU(Op))
         /\ Payload(request) = PDU(Op)
         /\ request' = <<>>
         /\ Reply' = Reply /\ Arrivals' = Arrivals /\ Has(PDU(Op))' = Has(PDU(Op))
         /\ got' \o rx' \in Arrivals
         /\ Serve => got' \o rx' = Reply
<1>1. request # <<>> /\ request' = <<>> /\ UNCHANGED <<job, i, got, stage, status>>
  BY DEF Serve, ServeDamaged, masterVars
<1>2. stage = "header" /\ rx = <<>> /\ request = ADU(PDU(Op))
  BY <1>1 DEF InStep
<1>3. Waiting /\ got = <<>>
  BY <1>2 DEF Waiting, ModbusTyping, TypeOK
<1>4. i <= Len(job.ops) /\ Acceptable(Op) /\ IsOp(Op) /\ i \in Nat
  BY <1>3, WaitingOp, IndexTyped DEF ModbusTyping
<1>5. Payload(request) = PDU(Op)
  BY <1>2, <1>4, RequestMade DEF ModbusTyping
<1>6. Execute(PDU(Op))
  BY <1>5 DEF Serve, ServeDamaged
<1>7. DOMAIN regs' = DOMAIN regs /\ (Op.fc \in Reads => regs' = regs)
  <2>1. RegsTyped /\ log \in Seq([addr : Word, words : Seq(Word)])
    BY DEF ModbusTyping, TypeOK, RegsTyped
  <2> QED
    BY <1>4, <1>6, <2>1, Executed
<1>8. Reply' = Reply /\ Arrivals' = Arrivals /\ Has(PDU(Op))' = Has(PDU(Op))
  BY <1>1, <1>4, <1>7, ReplyKept
<1>9. Framed(request, Answer(Payload(request))) = Reply
  BY <1>2, <1>5 DEF Reply
<1>10. Reply \in Seq(Byte)
  BY <1>3, ReplyProps
<1>11. ASSUME NEW r \in Seq(Byte), Respond(r) PROVE got' \o rx' = r
  <2>1. rx' = <<>> \o r
    BY <1>2, <1>11 DEF Respond
  <2>2. rx' = r
    BY <2>1, <1>11
  <2>3. got' = <<>>
    BY <1>1, <1>3
  <2> QED
    BY <1>11, <2>2, <2>3
<1>12. CASE Serve
  <2>1. Respond(Reply)
    BY <1>9, <1>12 DEF Serve
  <2>2. got' \o rx' = Reply
    BY <1>10, <1>11, <2>1
  <2> QED
    BY <1>1, <1>2, <1>3, <1>5, <1>8, <2>2 DEF Arrivals
<1>13. CASE ServeDamaged
  <2>1. Serial
    BY <1>13 DEF ServeDamaged
  <2>2. PICK r \in Damaged(Reply) : Respond(r)
    BY <1>9, <1>13 DEF ServeDamaged
  <2>3. got' \o rx' = r
    BY <1>10, <1>11, <2>2, DamagedProps
  <2>4. ~Serve
    <3>1. faults \in Nat
      BY DEF ModbusTyping, TypeOK
    <3>2. faults' # faults
      BY <1>13, <3>1 DEF ServeDamaged, Fault
    <3> QED
      BY <3>2 DEF Serve
  <2> QED
    BY <1>1, <1>2, <1>3, <1>5, <1>8, <2>1, <2>2, <2>3, <2>4 DEF Arrivals
<1> QED
  BY <1>12, <1>13

\* Steps that leave the exchange where it is, or move it on by a part.
LEMMA SameArrival ==
  ASSUME ModbusAssumption, ModbusTyping, Waiting, UNCHANGED <<job, i, regs>>
  PROVE  /\ ADU(PDU(Op))' = ADU(PDU(Op)) /\ Reply' = Reply /\ Arrivals' = Arrivals
         /\ Has(PDU(Op))' = Has(PDU(Op))
BY WaitingOp, ReplyKept

\* As long as the response that counts is good, the client and the device stay in step.
LEMMA InStepStep ==
  ASSUME CRCIsWord, ModbusAssumption, ModbusTyping, ModbusTyping', ExchangeInv, Accounted, [Next]_vars
  PROVE  ExchangeInv'
<1> SUFFICES ASSUME Undamaged', status' = "running" PROVE InStep'
  BY DEF ExchangeInv, InStep
<1>1. UNCHANGED job /\ (faults' = faults \/ (Fault /\ (SendFails \/ Lose \/ ServeDamaged)))
  BY DEF Next, Command, Finish, Reject, Send, Header, ByteCount, Body, Timeout, Take, SendFails, Serve,
         Lose, ServeDamaged, vars
<1>2. faults \in Nat /\ (faults' = 0 => faults = 0)
  <2>1. faults \in Nat
    BY DEF ModbusTyping, TypeOK
  <2> QED
    BY <1>1, <2>1 DEF Fault
<1>3. Undamaged /\ InStep
  BY <1>1, <1>2 DEF Undamaged, Serial, ExchangeInv
<1>4. status = "running"
  BY DEF Next, Command, Finish, Reject, Send, Header, ByteCount, Body, Timeout, Fail, At, Waiting,
         SendFails, Serve, Lose, ServeDamaged, vars, masterVars
<1>5. CASE Send
  <2>1. /\ At("send") /\ i <= Len(job.ops) /\ Acceptable(Op) /\ request' = ADU(PDU(Op))
        /\ stage' = "header" /\ UNCHANGED <<job, i, rx, regs>>
    BY <1>5 DEF Send
  <2>2. rx = <<>>
    BY <1>3, <2>1 DEF At, InStep
  <2>3. IsOp(Op)
    <3>1. i \in 1 .. Len(job.ops) /\ job \in Jobs
      BY <2>1, IndexTyped DEF ModbusTyping, TypeOK
    <3> QED
      BY <2>1, <3>1, OpProps DEF Op
  <2>4. ADU(PDU(Op))' = ADU(PDU(Op))
    BY <2>1, <2>3, ReplyKept
  <2> QED
    BY <2>1, <2>2, <2>4 DEF InStep
<1>6. CASE Header \/ ByteCount \/ Body
  <2>1. Waiting /\ Full /\ Take
    BY <1>6 DEF Header, ByteCount, Body, At, Waiting
  <2>2. UNCHANGED <<job, request, regs, faults>>
    BY <2>1 DEF Take, deviceVars
  <2>3. got' \o rx' = got \o rx /\ Need \in Nat /\ Need <= Len(rx)
    BY <2>1, Taken
  <2>4. ~(rx = <<>> /\ stage = "header")
    <3> SUFFICES ASSUME rx = <<>>, stage = "header" PROVE FALSE
      OBVIOUS
    <3>1. Need > 0
      BY DEF Need, mbapHeaderLen
    <3>2. Len(rx) = 0
      OBVIOUS
    <3> QED
      BY <2>3, <3>1, <3>2
  <2>5. request = <<>> /\ got \o rx \in Arrivals /\ (faults = 0 => got \o rx = Reply)
    BY <1>3, <2>1, <2>4 DEF InStep, Waiting
  <2>6. CASE ~Fail /\ stage' # "send"
    <3>1. UNCHANGED i
      BY <1>6, <2>6 DEF Header, ByteCount, Body, Continue
    <3>2. Reply' = Reply /\ Arrivals' = Arrivals
      BY <2>1, <2>2, <3>1, SameArrival
    <3> QED
      BY <2>2, <2>3, <2>5, <2>6, <3>2 DEF InStep
  <2>7. CASE ~Fail /\ stage' = "send"
    <3>1. Body
      BY <1>6, <2>7 DEF Header, ByteCount, Continue
    <3>2. Matches(pduResp)
      BY <2>7, <3>1 DEF Body
    <3>3. rx' = <<>> /\ request = <<>>
      BY <1>3, <3>1, <3>2, GoodBody DEF Accounted
    <3> QED
      BY <2>2, <2>7, <3>3 DEF InStep
  <2>8. ~Fail
    BY DEF Fail
  <2> QED
    BY <2>6, <2>7, <2>8
<1>7. CASE Serve \/ ServeDamaged
  <2>1. /\ stage = "header" /\ request' = <<>> /\ Reply' = Reply /\ Arrivals' = Arrivals
        /\ got' \o rx' \in Arrivals /\ (Serve => got' \o rx' = Reply)
    BY <1>3, <1>4, <1>7, ServedInStep
  <2>2. stage' = stage
    BY <1>7 DEF Serve, ServeDamaged, masterVars
  <2>3. ServeDamaged => faults' # 0
    BY <1>2 DEF ServeDamaged, Fault
  <2> QED
    BY <1>7, <2>1, <2>2, <2>3 DEF InStep
<1>8. CASE Lose
  <2>1. request # <<>> /\ request' = <<>> /\ UNCHANGED <<job, stage, i, got, rx, regs>> /\ faults' # 0
    BY <1>2, <1>8 DEF Lose, Fault, masterVars
  <2>2. rx = <<>> /\ stage = "header"
    BY <1>3, <1>4, <2>1 DEF InStep
  <2>3. got = <<>>
    BY <1>4, <2>2 DEF ModbusTyping, TypeOK
  <2>4. got' \o rx' = <<>>
    BY <2>1, <2>2, <2>3
  <2> QED
    BY <2>1, <2>2, <2>4 DEF InStep, Arrivals
<1>9. CASE UNCHANGED vars
  <2>1. UNCHANGED <<job, stage, i, got, rx, status, request, regs, faults>>
    BY <1>9 DEF vars, masterVars, deviceVars
  <2>2. CASE stage = "send"
    BY <1>3, <1>4, <2>1, <2>2 DEF InStep
  <2>3. CASE stage # "send"
    <3>1. Reply' = Reply /\ Arrivals' = Arrivals /\ ADU(PDU(Op))' = ADU(PDU(Op))
      BY <1>4, <2>1, <2>3, SameArrival DEF Waiting
    <3> QED
      BY <1>3, <1>4, <2>1, <2>3, <3>1 DEF InStep
  <2> QED
    BY <2>2, <2>3
<1>10. CASE Finish \/ Reject \/ Timeout \/ SendFails
  BY <1>10 DEF Finish, Reject, Timeout, SendFails, Fail
<1> QED
  BY <1>5, <1>6, <1>7, <1>8, <1>9, <1>10 DEF Next, Command

\* The log of a set grows with its pairs; a cat changes nothing.
LEMMA AccountedStep ==
  ASSUME CRCIsWord, ModbusAssumption, ModbusTyping, ExchangeInv, Accounted, [Next]_vars
  PROVE  Accounted'
<1>1. UNCHANGED job
  BY DEF Next, Command, Finish, Reject, Send, Header, ByteCount, Body, Timeout, Take, SendFails, Serve,
         Lose, ServeDamaged, vars
<1>2. Len(job.ops) \in Nat /\ i \in Nat \ {0} /\ i <= Len(job.ops) + 1
  BY IndexTyped DEF ModbusTyping
<1>3. ASSUME job.cmd = "cat" PROVE Accounted'
  <2>1. log = <<>> /\ regs = Holding
    BY <1>3 DEF Accounted
  <2>2. UNCHANGED <<log, regs>>
    <3>1. CASE Serve \/ ServeDamaged
      BY <1>3, <3>1, Served
    <3>2. CASE ~(Serve \/ ServeDamaged)
      BY <3>2 DEF Next, Command, Finish, Reject, Send, Header, ByteCount, Body, Timeout, Take,
                  SendFails, Lose, vars, deviceVars
    <3> QED
      BY <3>1, <3>2
  <2> QED
    BY <1>1, <1>3, <2>1, <2>2 DEF Accounted
<1>4. ASSUME job.cmd = "set" PROVE Accounted'
  <2>1. InStep
    BY <1>4 DEF ExchangeInv, Undamaged
  <2>2. /\ \A k \in 1 .. Len(log) : log[k] = [addr |-> job.ops[k].addr, words |-> job.ops[k].words]
        /\ Len(log) = i - 1 \/ (Len(log) = i /\ i <= Len(job.ops))
        /\ request # <<>> =>
             Len(log) = i - 1 /\ i <= Len(job.ops) /\ Acceptable(Op) /\ Payload(request) = PDU(Op)
        /\ status = "running" /\ stage = "send" => Len(log) = i - 1
        /\ status = "running" /\ stage # "send" /\ request = <<>> =>
             Len(log) = i \/ got \o rx = <<>> \/ ~Has(PDU(Op))
        /\ status = "ok" => Len(log) = i - 1 /\ i = Len(job.ops) + 1
    BY <1>4 DEF Accounted
  <2>3. CASE Finish
    <3>1. /\ status = "running" /\ stage = "send" /\ i > Len(job.ops) /\ status' = "ok"
          /\ UNCHANGED <<job, stage, i, got, rx, request, regs, log>>
      BY <2>3 DEF Finish, At, deviceVars
    <3>2. i = Len(job.ops) + 1
      BY <1>2, <3>1
    <3>3. request = <<>>
      BY <2>1, <3>1 DEF InStep
    <3> QED
      BY <1>4, <2>2, <3>1, <3>2, <3>3 DEF Accounted
  <2>4. CASE Reject \/ Timeout
    <3>1. status' = "error" /\ UNCHANGED <<job, i, request, regs, log>>
      BY <2>4 DEF Reject, Timeout, Fail, deviceVars
    <3> QED
      BY <1>4, <2>2, <3>1 DEF Accounted, Op, Payload, Serial
  <2>5. CASE Send \/ SendFails
    <3>1. /\ At("send") /\ i <= Len(job.ops) /\ Acceptable(Op)
          /\ request' \in {request, ADU(PDU(Op))} /\ (Send => request' = ADU(PDU(Op)))
          /\ Send => stage' = "header"
          /\ SendFails => status' = "error"
          /\ UNCHANGED <<job, i, rx, regs, log>>
      BY <2>5 DEF Send, SendFails, Fail
    <3>2. Len(log) = i - 1 /\ request = <<>>
      BY <2>1, <2>2, <3>1 DEF At, InStep
    <3>3. Len(ADU(PDU(Op))) >= 8 /\ Payload(ADU(PDU(Op))) = PDU(Op)
      BY <3>1, RequestMade DEF ModbusTyping
    <3>4. ADU(PDU(Op)) # <<>>
      BY <3>3
    <3>5. Payload(request)' = Payload(request') /\ Op' = Op
      BY <3>1 DEF Payload, Serial, Op
    <3>6. status' # "ok"
      BY <2>5, <3>1 DEF Send, At
    <3> QED
      BY <1>4, <2>2, <2>5, <3>1, <3>2, <3>3, <3>4, <3>5, <3>6 DEF Accounted
  <2>6. CASE Header \/ ByteCount \/ Body
    <3>1. Waiting /\ Full /\ Take /\ status = "running" /\ stage # "send"
      BY <2>6 DEF Header, ByteCount, Body, At, Waiting
    <3>2. UNCHANGED <<job, request, regs, log>>
      BY <3>1 DEF Take, deviceVars
    <3>3. got' \o rx' = got \o rx
      BY <3>1, Taken
    <3>4. CASE Fail
      <4>1. status' = "error" /\ UNCHANGED i
        BY <3>4 DEF Fail
      <4> QED
        BY <1>4, <2>2, <3>2, <4>1 DEF Accounted, Op, Payload, Serial
    <3>5. CASE ~Fail /\ stage' # "send"
      <4>1. UNCHANGED <<i, status>>
        BY <2>6, <3>5 DEF Header, ByteCount, Body, Continue
      <4>2. Has(PDU(Op))' = Has(PDU(Op)) /\ Op' = Op /\ Payload(request)' = Payload(request)
        BY <3>1, <3>2, <4>1, SameArrival DEF Op, Payload, Serial
      <4> QED
        BY <1>4, <2>2, <3>1, <3>2, <3>3, <3>5, <4>1, <4>2 DEF Accounted
    <3>6. CASE ~Fail /\ stage' = "send"
      <4>1. Body
        BY <2>6, <3>6 DEF Header, ByteCount, Continue
      <4>2. Matches(pduResp) /\ i' = i + 1 /\ UNCHANGED status
        BY <3>6, <4>1 DEF Body
      <4>3. request = <<>> /\ got \o rx # <<>> /\ Has(PDU(Op))
        BY <1>4, <2>1, <4>1, <4>2, GoodBody DEF Undamaged
      <4>4. Len(log) = i
        BY <2>2, <3>1, <4>3
      <4>5. Len(log') = i' - 1
        BY <1>2, <3>2, <4>2, <4>4
      <4> QED
        BY <1>4, <2>2, <3>1, <3>2, <3>6, <4>2, <4>3, <4>5 DEF Accounted
    <3> QED
      BY <3>4, <3>5, <3>6
  <2>7. CASE Serve \/ ServeDamaged
    <3>1. request # <<>> /\ request' = <<>> /\ UNCHANGED <<job, i, got, stage, status>>
      BY <2>7 DEF Serve, ServeDamaged, masterVars
    <3>2. Len(log) = i - 1 /\ i <= Len(job.ops) /\ Acceptable(Op) /\ Payload(request) = PDU(Op)
      BY <2>2, <3>1
    <3>3. i \in 1 .. Len(job.ops)
      BY <1>2, <3>2
    <3>4. IsOp(Op) /\ Op.fc \in Writes /\ Op.fc \notin Reads
      <4>1. IsOp(Op) /\ Op.fc \in Writes
        BY <1>4, <3>2, <3>3, OpProps DEF Op, ModbusTyping, TypeOK
      <4> QED
        BY <4>1 DEF Reads, Writes, fcReadHolding, fcReadInput, fcWriteSingle, fcWriteMultiple
    <3>5. Execute(PDU(Op))
      BY <2>7, <3>2 DEF Serve, ServeDamaged
    <3>6. log \in Seq([addr : Word, words : Seq(Word)]) /\ RegsTyped
      BY DEF ModbusTyping, TypeOK, RegsTyped
    <3> DEFINE e == [addr |-> Op.addr, words |-> Op.words]
    <3>7. DOMAIN regs' = DOMAIN regs /\ log' = IF Has(PDU(Op)) THEN Append(log, e) ELSE log
      BY <3>2, <3>4, <3>5, <3>6, Executed
    <3>8. Has(PDU(Op))' = Has(PDU(Op))
      BY <3>1, <3>2, <3>4, <3>7, ReplyKept
    <3>9. e = [addr |-> job.ops[i].addr, words |-> job.ops[i].words]
      BY DEF Op
    <3>10. status # "ok"
      BY <1>2, <2>2, <3>2
    <3>11. status = "running" => stage # "send"
      BY <2>1, <3>1 DEF InStep
    <3> HIDE DEF e
    <3>12. CASE Has(PDU(Op))
      <4> DEFINE R == [addr : Word, words : Seq(Word)]
      <4>1. log \in Seq(R) /\ log' = Append(log, e) /\ Len(log) \in Nat
        BY <3>6, <3>7, <3>12
      <4> HIDE DEF R
      <4>2. Len(log') = Len(log) + 1 /\ log'[Len(log) + 1] = e /\ \A k \in 1 .. Len(log) : log'[k] = log[k]
        BY <4>1
      <4>3. Len(log') = i
        BY <1>2, <3>2, <4>2
      <4>4. \A k \in 1 .. Len(log') : log'[k] = [addr |-> job.ops[k].addr, words |-> job.ops[k].words]
        <5> SUFFICES ASSUME NEW k \in 1 .. Len(log')
                     PROVE log'[k] = [addr |-> job.ops[k].addr, words |-> job.ops[k].words]
          OBVIOUS
        <5>1. k \in 1 .. Len(log) \/ k = i
          BY <1>2, <3>2, <4>3
        <5>2. log'[i] = e
          BY <1>2, <3>2, <4>2
        <5> QED
          BY <2>2, <3>9, <4>2, <5>1, <5>2
      <4> QED
        BY <1>4, <3>1, <3>2, <3>10, <3>11, <4>3, <4>4 DEF Accounted
    <3>13. CASE ~Has(PDU(Op))
      BY <1>4, <2>2, <3>1, <3>2, <3>7, <3>8, <3>10, <3>11, <3>13 DEF Accounted
    <3> QED
      BY <3>12, <3>13
  <2>8. CASE Lose
    <3>1. request # <<>> /\ request' = <<>> /\ UNCHANGED <<job, i, got, rx, stage, status, regs, log>>
      BY <2>8 DEF Lose, masterVars
    <3>2. status = "running" => stage = "header" /\ rx = <<>> /\ got = <<>>
      BY <2>1, <3>1 DEF InStep, ModbusTyping, TypeOK
    <3>3. status = "running" => got \o rx = <<>>
      BY <3>2
    <3>4. status # "ok"
      BY <1>2, <2>2, <3>1
    <3> QED
      BY <1>4, <2>2, <3>1, <3>2, <3>3, <3>4 DEF Accounted
  <2>9. CASE UNCHANGED vars
    <3>1. UNCHANGED <<job, stage, i, got, rx, status, request, regs, log>>
      BY <2>9 DEF vars, masterVars, deviceVars
    <3>2. Op' = Op /\ Payload(request)' = Payload(request) /\ Has(PDU(Op))' = Has(PDU(Op))
      BY <3>1 DEF Op, Payload, Serial, Has, Contents
    <3> QED
      BY <1>4, <2>2, <3>1, <3>2 DEF Accounted
  <2> QED
    BY <2>3, <2>4, <2>5, <2>6, <2>7, <2>8, <2>9 DEF Next, Command
<1>5. job.cmd \in {"cat", "set"}
  BY IndexTyped DEF ModbusTyping, IsJob
<1> QED
  BY <1>3, <1>4, <1>5

\* What is true of every state of an exchange.
ModbusInv == ModbusTyping /\ ExchangeInv /\ Accounted

\* It holds at the start.
LEMMA ModbusInvInit == ASSUME ModbusAssumption, Init PROVE ModbusInv
<1>1. ModbusTyping
  BY TypingInit
<1>2. ExchangeInv
  BY DEF Init, ExchangeInv, InStep
<1>3. Accounted
  <2>1. i = 1 /\ Len(log) = 0 /\ request = <<>> /\ log = <<>> /\ regs = Holding /\ stage = "send" /\ status = "running"
    BY DEF Init
  <2> QED
    BY <2>1 DEF Accounted
<1> QED
  BY <1>1, <1>2, <1>3 DEF ModbusInv

\* It is kept by every step.
LEMMA ModbusInvStep ==
  ASSUME CRCIsWord, ModbusAssumption, ModbusInv, [Next]_vars
  PROVE  ModbusInv'
BY TypingStep, InStepStep, AccountedStep DEF ModbusInv

\* However a set ends, the device has executed a prefix of its pairs, each once
\* and as given: all that were reported OK and at most one more.
THEOREM SetIsPrefixHolds == ASSUME CRCIsWord PROVE Spec => []SetIsPrefix
<1>1. Init => ModbusInv
  BY ModbusInvInit, ModbusAssumption
<1>2. ModbusInv /\ [Next]_vars => ModbusInv'
  BY ModbusInvStep, ModbusAssumption
<1>3. ModbusInv => SetIsPrefix
  <2> SUFFICES ASSUME ModbusInv PROVE SetIsPrefix
    OBVIOUS
  <2>1. Len(job.ops) \in Nat /\ i \in Nat \ {0} /\ job.cmd \in {"cat", "set"}
    BY IndexTyped, ModbusAssumption DEF ModbusInv, ModbusTyping, IsJob
  <2>2. CASE job.cmd = "cat"
    <3>1. Len(log) = 0
      BY <2>2 DEF ModbusInv, Accounted
    <3>2. Len(values) \in Nat
      BY DEF ModbusInv, ModbusTyping, TypeOK
    <3> QED
      BY <2>2, <3>1, <3>2 DEF SetIsPrefix
  <2>3. CASE job.cmd = "set"
    <3>1. Len(values) = i - 1
      BY <2>3 DEF ModbusInv, ModbusTyping, TypeOK
    <3>2. /\ \A k \in 1 .. Len(log) : log[k] = [addr |-> job.ops[k].addr, words |-> job.ops[k].words]
          /\ Len(log) = i - 1 \/ Len(log) = i
          /\ status = "ok" => Len(log) = i - 1 /\ i = Len(job.ops) + 1
      BY <2>3 DEF ModbusInv, Accounted
    <3>3. Len(values) <= Len(log) /\ Len(log) <= Len(values) + 1
      BY <2>1, <3>1, <3>2
    <3>4. status = "ok" => Len(log) = Len(job.ops)
      BY <2>1, <3>2
    <3> QED
      BY <2>3, <3>2, <3>3, <3>4 DEF SetIsPrefix
  <2> QED
    BY <2>1, <2>2, <2>3
<1> QED
  BY <1>1, <1>2, <1>3, PTL DEF Spec

\* What a step adds to the values of a cat are the registers of its argument.
LEMMA OwnStep ==
  ASSUME CRCIsWord, CRCDetects, ModbusAssumption, ModbusInv, OwnRegisters, [Next]_vars
  PROVE  OwnRegisters'
<1> SUFFICES ASSUME job.cmd = "cat" PROVE OwnRegisters'
  <2>1. UNCHANGED job
    BY DEF Next, Command, Finish, Reject, Send, Header, ByteCount, Body, Timeout, Take, SendFails, Serve,
           Lose, ServeDamaged, vars
  <2> QED
    BY <2>1 DEF OwnRegisters
<1>1. UNCHANGED job
  BY DEF Next, Command, Finish, Reject, Send, Header, ByteCount, Body, Timeout, Take, SendFails, Serve,
         Lose, ServeDamaged, vars
<1>2. regs = Holding /\ regs' = Holding
  BY <1>1, AccountedStep DEF ModbusInv, Accounted
<1>3. \A op : Named(op)' = Named(op)
  BY <1>2 DEF Named, Contents
<1>4. \A k \in 1 .. Len(values) : values[k] = WordBytes(Named(job.ops[k]))
  BY DEF OwnRegisters, Named
<1>5. SUFFICES \A k \in 1 .. Len(values') : values'[k] = WordBytes(Named(job.ops[k]))
  BY <1>1, <1>2 DEF OwnRegisters, Named, Contents
<1>6. CASE UNCHANGED values
  BY <1>4, <1>6
<1>7. CASE values' = <<>>
  BY <1>7
<1>8. CASE Body /\ Matches(pduResp)
  <2>1. Waiting /\ Full /\ Take /\ status = "running" /\ stage \in {"data", "exception", "echo", "body"}
    BY <1>8 DEF Body, Waiting
  <2>2. Op.fc \in Reads /\ Acceptable(Op) /\ IsOp(Op) /\ i \in Nat
    BY <2>1, WaitingOp DEF ModbusInv
  <2>3. Serial /\ Has(PDU(Op)) /\ Sofar = Reply
    BY <1>2, <1>8, <2>2, GoodBody DEF ModbusInv, ExchangeInv, Undamaged
  <2>4. SubSeq(Reply, 2, Len(Reply) - 2) = Answer(PDU(Op))
    BY <2>1, <2>3, ReplyProps DEF ModbusInv
  <2>5. pduResp = Answer(PDU(Op))
    <3>1. verifyCRC(Sofar)
      BY <2>1, <2>3, ReplyProps DEF ModbusInv
    <3> QED
      BY <2>3, <2>4, <3>1 DEF pduResp
  <2>6. /\ Answer(PDU(Op))[2] = 2 * Op.count
        /\ SubSeq(Answer(PDU(Op)), 3, 2 + 2 * Op.count) = WordBytes(Named(Op))
    BY <2>2, <2>3, AnswerProps DEF ModbusInv, ModbusTyping, TypeOK, RegsTyped
  <2> DEFINE v == SubSeq(pduResp, 3, 2 + pduResp[2])
  <2>7. values' = Append(values, v)
    BY <1>8, <2>2 DEF Body
  <2>8. v = WordBytes(Named(job.ops[i])) /\ v \in Seq(Byte)
    BY <1>8, <2>1, <2>2, <2>5, <2>6, ReturnTyped DEF ModbusInv, Op
  <2> HIDE DEF v
  <2>9. values \in Seq(Seq(Byte)) /\ Len(values) = i - 1
    BY <2>1 DEF ModbusInv, ModbusTyping, TypeOK
  <2>10. /\ Len(values') = Len(values) + 1 /\ values'[Len(values) + 1] = v
         /\ \A k \in 1 .. Len(values) : values'[k] = values[k]
    BY <2>7, <2>8, <2>9, AppendProperties
  <2> SUFFICES ASSUME NEW k \in 1 .. Len(values') PROVE values'[k] = WordBytes(Named(job.ops[k]))
    OBVIOUS
  <2>11. k \in 1 .. Len(values) \/ k = i
    BY <2>2, <2>9, <2>10
  <2>12. values'[i] = v
    BY <2>2, <2>9, <2>10
  <2> QED
    BY <1>4, <2>8, <2>10, <2>11, <2>12
<1> QED
  BY <1>6, <1>7, <1>8 DEF Next, Command, Finish, Reject, Send, Header, ByteCount, Body, Timeout, Fail,
     Continue, SendFails, Serve, Lose, ServeDamaged, vars, masterVars

\* Whatever happens to the responses on the line, a cat collects for every argument
\* exactly the registers it names, when the CRC detects the damage.
THEOREM OwnRegistersHolds == ASSUME CRCIsWord, CRCDetects PROVE Spec => []OwnRegisters
<1>1. Init => ModbusInv /\ OwnRegisters
  <2>1. Init => Len(values) = 0
    BY DEF Init
  <2> QED
    BY <2>1, ModbusInvInit, ModbusAssumption DEF OwnRegisters
<1>2. ModbusInv /\ OwnRegisters /\ [Next]_vars => (ModbusInv /\ OwnRegisters)'
  BY ModbusInvStep, OwnStep, ModbusAssumption
<1> QED
  BY <1>1, <1>2, PTL DEF Spec

\* On a quiet line a wait does not end before the part has come, unless the device
\* refuses.
LEMMA PartComes ==
  ASSUME CRCIsWord, ModbusAssumption, ModbusTyping, Waiting, Serial, got \o rx = Reply, Has(PDU(Op))
  PROVE  /\ Full
         /\ stage \in {"header", "count", "data", "echo"}
         /\ stage = "data" => Len(rx) = Need /\ Op.fc \in Reads
         /\ stage = "echo" => Len(rx) = Need /\ Op.fc \in Writes
<1>1. got \in Seq(Byte) /\ rx \in Seq(Byte) /\ Len(got) \in Nat /\ Len(rx) \in Nat
  BY BuffersTyped DEF ModbusTyping
<1>2. Len(Reply) = Len(got) + Len(rx) /\ \A k \in 1 .. Len(got) : Reply[k] = got[k]
  BY <1>1, Joined
<1>3. /\ Reply[2] = Op.fc
      /\ Op.fc \in Writes => Len(Reply) = 8
      /\ Op.fc \in Reads => Op.count \in 1 .. 125 /\ Reply[3] = 2 * Op.count /\ Len(Reply) = 5 + 2 * Op.count
  BY ReplyProps
<1>4. /\ Op.fc \in Reads \/ Op.fc \in Writes
      /\ Op.fc \in Reads => Op.fc \notin Writes
      /\ Op.fc < 128 /\ Op.fc \in Int
  <2>1. /\ job.cmd \in {"cat", "set"} /\ Op.fc < 128
        /\ job.cmd = "cat" => Op.fc \in Reads /\ Op.fc \notin Writes
        /\ job.cmd = "set" => Op.fc \in Writes /\ Op.fc \notin Reads
    BY WaitingOp
  <2>2. Op.fc \in Int
    BY <2>1 DEF Reads, Writes, fcReadHolding, fcReadInput, fcWriteSingle, fcWriteMultiple
  <2> QED
    BY <2>1, <2>2
<1>5. Len(Reply) >= 7
  <2>1. \A n \in 1 .. 125 : 5 + 2 * n >= 7
    OBVIOUS
  <2> DEFINE l == Len(Reply)
  <2>2. Op.fc \in Writes => l = 8
    BY <1>3
  <2>3. Op.fc \in Reads => Op.count \in 1 .. 125 /\ l = 5 + 2 * Op.count
    BY <1>3
  <2> HIDE DEF l
  <2>4. l >= 7
    <3>1. CASE Op.fc \in Writes
      BY <2>2, <3>1
    <3>2. CASE Op.fc \in Reads
      <4>1. 5 + 2 * Op.count >= 7
        BY <2>1, <2>3, <3>2
      <4> QED
        BY <2>3, <3>2, <4>1
    <3> QED
      BY <1>4, <3>1, <3>2
  <2> QED
    BY <2>4 DEF l
<1>6. status = "running" /\ stage \in {"header", "count", "data", "exception", "echo"}
  BY DEF Waiting, ModbusTyping, TypeOK, Parts
<1>7. CASE stage = "header"
  <2>1. Need = 2 /\ Len(got) = 0
    BY <1>6, <1>7 DEF Need, ModbusTyping, TypeOK
  <2>2. Len(rx) >= 2
    BY <1>1, <1>2, <1>5, <2>1
  <2> QED
    BY <1>7, <2>1, <2>2 DEF Full
<1>8. CASE stage \in {"count", "data", "exception", "echo"}
  <2>1. Len(got) \in {2, 3}
    BY <1>6, <1>8 DEF ModbusTyping, Parts
  <2>2. got[2] = Op.fc
    <3>1. 2 \in 1 .. Len(got)
      BY <2>1
    <3> QED
      BY <1>2, <1>3, <3>1
  <2>3. CASE stage = "count"
    <3>1. Need = 1 /\ Len(got) = 2
      BY <1>6, <2>3 DEF Need, ModbusTyping, Parts
    <3>2. Len(rx) >= 1
      BY <1>1, <1>2, <1>5, <3>1
    <3> QED
      BY <2>3, <3>1, <3>2 DEF Full
  <2>4. stage # "exception"
    <3>1. stage = "exception" => got[2] >= 128
      BY <1>6 DEF ModbusTyping, Parts
    <3> QED
      BY <1>4, <2>2, <3>1
  <2>5. CASE stage = "echo"
    <3>1. Need = 6 /\ Len(got) = 2 /\ Op.fc \in Writes
      BY <1>6, <2>2, <2>5 DEF Need, ModbusTyping, Parts
    <3>2. Len(rx) = 6
      <4>1. Len(Reply) = 8
        BY <1>3, <3>1
      <4> DEFINE m == Len(rx)
      <4>2. Len(Reply) = 2 + m
        BY <1>2, <3>1
      <4>3. m \in Nat
        BY <1>1
      <4> HIDE DEF m
      <4>4. 8 = 2 + m
        BY <4>1, <4>2
      <4>5. m = 6
        BY <4>3, <4>4
      <4> QED
        BY <4>5 DEF m
    <3> QED
      BY <2>5, <3>1, <3>2 DEF Full
  <2>6. CASE stage = "data"
    <3>1. Need = got[3] + 2 /\ Len(got) = 3 /\ Op.fc \in Reads
      BY <1>6, <2>2, <2>6 DEF Need, ModbusTyping, Parts
    <3>2. got[3] = 2 * Op.count
      <4>1. 3 \in 1 .. Len(got)
        BY <3>1
      <4> QED
        BY <1>2, <1>3, <3>1, <4>1
    <3>3. Len(rx) = Need
      <4> DEFINE c == 2 * Op.count
      <4>1. Len(Reply) = 5 + c /\ Need = c + 2 /\ Len(Reply) = 3 + Len(rx)
        BY <1>2, <1>3, <3>1, <3>2
      <4>2. c \in Nat
        <5>1. \A n \in 1 .. 125 : 2 * n \in Nat
          OBVIOUS
        <5>2. Op.count \in 1 .. 125
          BY <1>3, <3>1
        <5> QED
          BY <5>1, <5>2
      <4> HIDE DEF c
      <4> QED
        BY <1>1, <4>1, <4>2
    <3>4. Len(rx) >= Need
      BY <1>1, <3>3
    <3> QED
      BY <2>6, <3>1, <3>3, <3>4 DEF Full
  <2> QED
    BY <1>8, <2>3, <2>4, <2>5, <2>6
<1> QED
  BY <1>6, <1>7, <1>8

\* A command that fails has a reason.
LEMMA CauseStep ==
  ASSUME CRCIsWord, ModbusAssumption, ModbusInv, ErrorHasCause, [Next]_vars
  PROVE  ErrorHasCause'
<1> SUFFICES ASSUME status' = "error", Serial', job'.patient, faults' = 0 PROVE Cause'
  <2>1. faults' \in Nat
    BY ModbusInvStep DEF ModbusInv, ModbusTyping, TypeOK
  <2> QED
    BY <2>1 DEF ErrorHasCause, Cause
<1>1. UNCHANGED job /\ (faults' = faults \/ (Fault /\ (SendFails \/ Lose \/ ServeDamaged)))
  BY DEF Next, Command, Finish, Reject, Send, Header, ByteCount, Body, Timeout, Take, SendFails, Serve,
         Lose, ServeDamaged, vars
<1>2. faults = 0 /\ UNCHANGED faults
  <2>1. faults \in Nat
    BY DEF ModbusInv, ModbusTyping, TypeOK
  <2> QED
    BY <1>1, <2>1 DEF Fault
<1>3. Serial /\ job.patient
  BY <1>1 DEF Serial
<1>4. InStep
  BY <1>2 DEF ModbusInv, ExchangeInv, Undamaged
<1>5. ASSUME UNCHANGED i, DOMAIN regs' = DOMAIN regs, i <= Len(job.ops), Refused PROVE Cause'
  <2>1. i \in 1 .. Len(job.ops)
    BY <1>5, IndexTyped DEF ModbusInv, ModbusTyping
  <2>2. CASE ~Acceptable(Op)
    BY <1>1, <1>5, <2>2 DEF Cause, Refused, Op
  <2>3. CASE Acceptable(Op) /\ ~Has(PDU(Op))
    <3>1. IsOp(Op)
      BY <2>1, <2>3, OpProps DEF ModbusInv, ModbusTyping, TypeOK, Op
    <3>2. PDU(Op)[1] = Op.fc
      BY <2>3, <3>1, PDUProps
    <3>3. DOMAIN Contents(Op.fc)' = DOMAIN Contents(Op.fc) /\ Op' = Op
      BY <1>1, <1>5 DEF Contents, Op
    <3>4. ~Has(PDU(Op))'
      BY <1>5, <2>3, <3>2, <3>3 DEF Has, Contents
    <3> QED
      BY <1>1, <1>5, <3>4 DEF Cause, Refused
  <2> QED
    BY <1>5, <2>2, <2>3 DEF Refused
<1>6. ASSUME status = "error", UNCHANGED i, DOMAIN regs' = DOMAIN regs PROVE Cause'
  <2>1. i <= Len(job.ops) /\ Refused
    BY <1>2, <1>3, <1>6 DEF ErrorHasCause, Cause
  <2> QED
    BY <1>5, <1>6, <2>1
<1>7. CASE Serve
  <2>1. UNCHANGED <<status, i>> /\ DOMAIN regs' = DOMAIN regs
    BY <1>7, Served DEF Serve, masterVars, ModbusInv
  <2> QED
    BY <1>6, <2>1
<1>8. CASE UNCHANGED vars
  BY <1>6, <1>8 DEF vars, masterVars, deviceVars
<1>9. CASE Reject
  BY <1>5, <1>9 DEF Reject, Fail, deviceVars, Refused
<1>10. \/ request = <<>> /\ got \o rx = Reply
       \/ Waiting /\ stage = "header" /\ rx = <<>> /\ request # <<>>
       \/ ~Waiting
  <2>1. Waiting => Len(ADU(PDU(Op))) >= 8
    BY WaitingOp, RequestMade DEF ModbusInv, ModbusTyping
  <2>2. Len(<<>>) = 0
    OBVIOUS
  <2>3. Waiting => ADU(PDU(Op)) # <<>>
    BY <2>1, <2>2
  <2> QED
    BY <1>2, <1>4, <2>3 DEF InStep, Waiting
<1>11. ASSUME Waiting, Fail, UNCHANGED regs, ~Has(PDU(Op)) PROVE Cause'
  <2>1. i <= Len(job.ops)
    BY <1>11, WaitingOp, IndexTyped DEF ModbusInv, ModbusTyping
  <2> QED
    BY <1>5, <1>11, <2>1 DEF Fail, Refused
<1>12. CASE Timeout
  <2>1. Waiting /\ ~Full /\ request = <<>> /\ Fail /\ UNCHANGED regs
    BY <1>3, <1>12 DEF Timeout, deviceVars
  <2>2. got \o rx = Reply
    BY <1>10, <2>1
  <2>3. ~Has(PDU(Op))
    BY <1>3, <2>1, <2>2, PartComes DEF ModbusInv
  <2> QED
    BY <1>11, <2>1, <2>3
<1>13. ASSUME Waiting, Full, Take
       PROVE  got \o rx = Reply
  <2>1. CASE stage = "header" /\ rx = <<>>
    <3>1. Need = 2 /\ Len(rx) = 0
      BY <1>3, <2>1 DEF Need
    <3> QED
      BY <1>13, <3>1 DEF Full
  <2> QED
    BY <1>10, <1>13, <2>1
<1>14. CASE Header
  <2>1. Waiting /\ Full /\ Take /\ stage = "header" /\ status = "running" /\ UNCHANGED regs
    BY <1>14 DEF Header, At, Waiting, Take, deviceVars
  <2>2. Need = 2 /\ got = <<>>
    BY <1>3, <2>1 DEF Need, ModbusInv, ModbusTyping, TypeOK
  <2>3. Len(got') = 2 /\ got' = Sofar /\ \A k \in 1 .. Len(got') : got'[k] = (got \o rx)[k]
    <3>1. Len(got') = Len(got) + Need /\ got' = Sofar /\ \A k \in 1 .. Len(got') : got'[k] = (got \o rx)[k]
      BY <2>1, Taken DEF ModbusInv
    <3>2. Len(got) + Need = 2
      BY <2>2
    <3> QED
      BY <3>1, <3>2
  <2>4. Sofar[1] = Reply[1] /\ Sofar[2] = Reply[2]
    <3>1. 1 \in 1 .. Len(got') /\ 2 \in 1 .. Len(got')
      BY <2>3
    <3>2. got \o rx = Reply
      BY <1>13, <2>1
    <3>3. got'[1] = Reply[1] /\ got'[2] = Reply[2]
      BY <2>3, <3>1, <3>2
    <3> QED
      BY <2>3, <3>3
  <2>5. Reply[1] = Unit /\ (Reply[2] = Op.fc \/ Reply[2] = Op.fc + 128)
    BY <1>3, <2>1, ReplyProps DEF ModbusInv
  <2>6. Op.fc \in Reads \cup Writes
    BY <2>1, WaitingOp DEF ModbusInv
  <2>7. Sofar[1] = Unit /\ (Sofar[2] >= 128 \/ Sofar[2] \in Reads \/ Sofar[2] \in Writes)
    <3>1. Op.fc + 128 >= 128
      BY <2>6 DEF Reads, Writes, fcReadHolding, fcReadInput, fcWriteSingle, fcWriteMultiple
    <3> QED
      BY <2>4, <2>5, <2>6, <3>1
  <2> DEFINE fn == Sofar[2]
  <2>8. \/ Sofar[1] # Unit
        \/ fn < 128 /\ fn \notin Reads \cup Writes
        \/ status' = status
    BY <1>3, <1>14 DEF Header, Continue
  <2>9. fn < 128 => ~(fn >= 128)
    <3>1. fn \in Int
      <4>1. Op.fc \in Int
        BY <2>6 DEF Reads, Writes, fcReadHolding, fcReadInput, fcWriteSingle, fcWriteMultiple
      <4>2. Op.fc + 128 \in Int
        BY <4>1
      <4> QED
        BY <2>4, <2>5, <4>1, <4>2
    <3> QED
      BY <3>1
  <2> QED
    BY <2>1, <2>7, <2>8, <2>9
<1>15. CASE Body
  <2>1. Waiting /\ Full /\ Take /\ UNCHANGED regs /\ status = "running"
    BY <1>15 DEF Body, Waiting, Take, deviceVars
  <2>2. Fail /\ ~Matches(pduResp)
    BY <1>15, <2>1 DEF Body
  <2>3. CASE Has(PDU(Op))
    <3>1. stage \in {"data", "echo"} /\ Len(rx) = Need
      BY <1>3, <1>13, <1>15, <2>1, <2>3, PartComes DEF ModbusInv, Body
    <3>2. /\ got' = Sofar /\ got' \o rx' = Reply /\ rx' \in Seq(Byte) /\ got' \in Seq(Byte)
          /\ Len(rx') = Len(rx) - Need /\ Need \in Nat
      BY <1>13, <2>1, Taken DEF ModbusInv
    <3>3. rx' = <<>>
      BY <3>1, <3>2, EmptySeq
    <3>4. Sofar = Reply
      BY <3>2, <3>3
    <3>5. pduResp = Answer(PDU(Op))
      <4>1. verifyCRC(Reply) /\ SubSeq(Reply, 2, Len(Reply) - 2) = Answer(PDU(Op))
        BY <1>3, <2>1, ReplyProps DEF ModbusInv
      <4> QED
        BY <1>3, <3>4, <4>1 DEF pduResp
    <3>6. IsOp(Op) /\ Acceptable(Op) /\ (Op.fc \in Reads \/ Op.fc \in Writes)
      BY <2>1, WaitingOp DEF ModbusInv
    <3>7. /\ pduResp[1] = Op.fc
          /\ Op.fc \in Writes => Len(pduResp) = 5
          /\ Op.fc \in Reads => Len(pduResp) = 2 + 2 * Op.count /\ pduResp[2] = 2 * Op.count
      BY <2>3, <3>5, <3>6, AnswerProps DEF ModbusInv, ModbusTyping, TypeOK, RegsTyped
    <3>8. Op.fc \in Reads => Len(pduResp) >= 2 /\ Len(pduResp) >= 2 + pduResp[2]
      <4> SUFFICES ASSUME Op.fc \in Reads PROVE Len(pduResp) >= 2 /\ Len(pduResp) >= 2 + pduResp[2]
        OBVIOUS
      <4>1. Op.count \in 1 .. 125
        BY <3>6, ReadCount
      <4>2. \A n \in 1 .. 125 : 2 + 2 * n >= 2 /\ 2 + 2 * n >= 2 + 2 * n
        OBVIOUS
      <4> QED
        BY <3>7, <4>1, <4>2
    <3>9. Op.fc \notin Reads => Len(pduResp) >= 5
      <4>1. Op.fc \notin Reads => Len(pduResp) = 5
        BY <3>6, <3>7
      <4> QED
        BY <4>1
    <3> QED
      BY <2>2, <3>7, <3>8, <3>9 DEF Matches
  <2>4. CASE ~Has(PDU(Op))
    BY <1>11, <2>1, <2>2, <2>4
  <2> QED
    BY <2>3, <2>4
<1>16. CASE Finish \/ Send \/ ByteCount
  <2>1. status' # "error"
    BY <1>16 DEF Finish, Send, ByteCount, At, Continue
  <2> QED
    BY <2>1
<1>17. CASE SendFails \/ Lose \/ ServeDamaged
  <2>1. faults' = faults + 1
    BY <1>17 DEF SendFails, Lose, ServeDamaged, Fault
  <2> QED
    BY <1>2, <2>1
<1> QED
  BY <1>7, <1>8, <1>9, <1>12, <1>14, <1>15, <1>16, <1>17 DEF Next, Command

\* Over a serial line a command that waits long enough fails only when the line was
\* disturbed or the argument it stopped at was refused.
THEOREM ErrorHasCauseHolds == ASSUME CRCIsWord PROVE Spec => []ErrorHasCause
<1>1. Init => ModbusInv /\ ErrorHasCause
  <2>1. Init => status # "error"
    BY DEF Init
  <2> QED
    BY <2>1, ModbusInvInit, ModbusAssumption DEF ErrorHasCause
<1>2. ModbusInv /\ ErrorHasCause /\ [Next]_vars => (ModbusInv /\ ErrorHasCause)'
  BY ModbusInvStep, CauseStep, ModbusAssumption
<1> QED
  BY <1>1, <1>2, PTL DEF Spec

=============================================================================
