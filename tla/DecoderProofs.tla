--------------------------- MODULE DecoderProofs ----------------------------
(***************************************************************************)
(* Proofs about the decoding of what an M-Bus device sends: FrameReader,   *)
(* which picks a frame out of what comes, and RecordParser, which takes    *)
(* the telegram in it apart.                                               *)
(***************************************************************************)
EXTENDS FrameReader, RecordParser, FlattenTheorems

(***************************************************************************)
(* FrameReader, for every number of byte values, every choice of the       *)
(* markers and streams of any length.  The checksum is any operator here:  *)
(* the proofs use only that it is a function of the payload.               *)
(***************************************************************************)

\* What the call has read since the start byte of the current header.
Current == SubSeq(got, mark, Len(got))

\* As long as its length bytes say, after a good header.
HasHeader(f) ==
  /\ Len(f) >= 6
  /\ f[1] = Start /\ f[4] = Start
  /\ f[2] = f[3] /\ Len(f) = f[2] + 6

\* In every state of the scan, what the variables hold is what was read.
Segment ==
  /\ st \notin {"hunt", "stopped", "error"} => mark >= 1
  /\ st = "l1" => Current = <<Start>>
  /\ st = "l2" => Current = <<Start, l1>>
  /\ st = "start2" => Current = <<Start, l1, l2>>
  /\ st = "payload" => Current = <<Start, l1, l1, Start>> \o payload /\ Len(payload) < l1
  /\ st = "cs" => Current = <<Start, l1, l1, Start>> \o payload /\ Len(payload) = l1
  /\ st = "end" => Current = <<Start, l1, l1, Start>> \o payload \o <<cs>> /\ Len(payload) = l1
  /\ st = "ok" => Current = out /\ IsFrame(out)
  /\ st = "error" => mark >= 1 /\ HasHeader(Current) /\ ~IsFrame(Current)

IInv == TypeOK /\ Segment

\* The first start byte that comes is position f of what was read.
FirstStart(f) ==
  /\ f \in 1 .. Len(got)
  /\ got[f] = Start
  /\ \A j \in 1 .. f - 1 : got[j] # Start

\* The bytes after it are no header.
Spoilt(f) == Len(got) >= f + 3 /\ ~(got[f + 1] = got[f + 2] /\ got[f + 3] = Start)

\* Until the first start byte has turned out to be noise, it is the one that the
\* scan is in.
FirstHeader == \A f \in 1 .. Len(got) : FirstStart(f) => Spoilt(f) \/ (mark = f /\ st # "hunt")
-----------------------------------------------------------------------------
\* A byte read is appended to the current segment.
LEMMA CurrentGrows ==
  ASSUME NEW s \in Seq(Byte), NEW b \in Byte, NEW m \in 1 .. Len(s) + 1
  PROVE  SubSeq(Append(s, b), m, Len(Append(s, b))) = Append(SubSeq(s, m, Len(s)), b)
<1> DEFINE lhs == SubSeq(Append(s, b), m, Len(Append(s, b)))
           rhs == Append(SubSeq(s, m, Len(s)), b)
<1>1. lhs \in Seq(Byte) /\ Len(lhs) = Len(s) + 2 - m
  OBVIOUS
<1>2. rhs \in Seq(Byte) /\ Len(rhs) = Len(s) + 2 - m
  OBVIOUS
<1>3. \A i \in 1 .. Len(lhs) : lhs[i] = rhs[i]
  OBVIOUS
<1> QED
  BY <1>1, <1>2, <1>3, SeqEqual

\* The header, byte by byte.
LEMMA AppendToOne ==
  ASSUME NEW x \in Byte, NEW b \in Byte
  PROVE  Append(<<x>>, b) = <<x, b>>
<1> DEFINE lhs == Append(<<x>>, b)
           rhs == <<x, b>>
<1>1. lhs \in Seq(Byte) /\ rhs \in Seq(Byte)
  OBVIOUS
<1>2. Len(lhs) = 2 /\ Len(rhs) = 2
  OBVIOUS
<1>3. lhs[1] = x /\ lhs[2] = b
  OBVIOUS
<1>4. rhs[1] = x /\ rhs[2] = b
  OBVIOUS
<1> HIDE DEF lhs, rhs
<1>5. \A i \in 1 .. Len(lhs) : lhs[i] = rhs[i]
  BY <1>2, <1>3, <1>4
<1>6. lhs = rhs
  BY <1>1, <1>2, <1>5, SeqEqual
<1> QED
  BY <1>6 DEF lhs, rhs

\* The header, its third byte.
LEMMA AppendToTwo ==
  ASSUME NEW x \in Byte, NEW y \in Byte, NEW b \in Byte
  PROVE  Append(<<x, y>>, b) = <<x, y, b>>
<1> DEFINE lhs == Append(<<x, y>>, b)
           rhs == <<x, y, b>>
<1>1. lhs \in Seq(Byte) /\ rhs \in Seq(Byte)
  OBVIOUS
<1>2. Len(lhs) = 3 /\ Len(rhs) = 3
  OBVIOUS
<1>3. lhs[1] = x /\ lhs[2] = y /\ lhs[3] = b
  OBVIOUS
<1>4. rhs[1] = x /\ rhs[2] = y /\ rhs[3] = b
  OBVIOUS
<1> HIDE DEF lhs, rhs
<1>5. \A i \in 1 .. Len(lhs) : lhs[i] = rhs[i]
  BY <1>2, <1>3, <1>4
<1>6. lhs = rhs
  BY <1>1, <1>2, <1>5, SeqEqual
<1> QED
  BY <1>6 DEF lhs, rhs

\* The header, its last byte.
LEMMA AppendToThree ==
  ASSUME NEW x \in Byte, NEW y \in Byte, NEW z \in Byte, NEW b \in Byte
  PROVE  Append(<<x, y, z>>, b) = <<x, y, z, b>>
<1> DEFINE lhs == Append(<<x, y, z>>, b)
           rhs == <<x, y, z, b>>
<1>1. lhs \in Seq(Byte) /\ rhs \in Seq(Byte)
  OBVIOUS
<1>2. Len(lhs) = 4 /\ Len(rhs) = 4
  OBVIOUS
<1>3. lhs[1] = x /\ lhs[2] = y /\ lhs[3] = z /\ lhs[4] = b
  OBVIOUS
<1>4. rhs[1] = x /\ rhs[2] = y /\ rhs[3] = z /\ rhs[4] = b
  OBVIOUS
<1> HIDE DEF lhs, rhs
<1>5. \A i \in 1 .. Len(lhs) : lhs[i] = rhs[i]
  BY <1>2, <1>3, <1>4
<1>6. lhs = rhs
  BY <1>1, <1>2, <1>5, SeqEqual
<1> QED
  BY <1>6 DEF lhs, rhs

\* The byte a sequence ends with is its last segment.
LEMMA LastByte ==
  ASSUME NEW s \in Seq(Byte), Len(s) >= 1
  PROVE  SubSeq(s, Len(s), Len(s)) = <<s[Len(s)]>>
<1> DEFINE lhs == SubSeq(s, Len(s), Len(s))
           rhs == <<s[Len(s)]>>
<1>1. lhs \in Seq(Byte) /\ rhs \in Seq(Byte)
  OBVIOUS
<1>2. Len(lhs) = 1 /\ Len(rhs) = 1 /\ lhs[1] = s[Len(s)] /\ rhs[1] = s[Len(s)]
  OBVIOUS
<1> HIDE DEF lhs, rhs
<1>3. \A i \in 1 .. Len(lhs) : lhs[i] = rhs[i]
  BY <1>2
<1>4. lhs = rhs
  BY <1>1, <1>2, <1>3, SeqEqual
<1> QED
  BY <1>4 DEF lhs, rhs

\* The checksum and the stop byte, one after the other.
LEMMA AppendTail ==
  ASSUME NEW s \in Seq(Byte), NEW c \in Byte, NEW b \in Byte
  PROVE  Append(s \o <<c>>, b) = s \o <<c, b>>
<1> DEFINE lhs == Append(s \o <<c>>, b)
           rhs == s \o <<c, b>>
<1>1. lhs \in Seq(Byte) /\ rhs \in Seq(Byte)
  OBVIOUS
<1>2. Len(lhs) = Len(s) + 2 /\ Len(rhs) = Len(s) + 2
  OBVIOUS
<1>3. \A i \in 1 .. Len(s) + 2 : lhs[i] = rhs[i]
  OBVIOUS
<1> HIDE DEF lhs, rhs
<1>4. lhs = rhs
  BY <1>1, <1>2, <1>3, SeqEqual
<1> QED
  BY <1>4 DEF lhs, rhs

\* A header, a payload as long as it says and two more bytes: the parts can be
\* read off again, and they make a frame when the two bytes fit.
LEMMA PartsMakeFrame ==
  ASSUME NEW p \in Seq(Byte), NEW c \in Byte, NEW b \in Byte, NEW n \in Byte, Len(p) = n
  PROVE  /\ HasHeader(<<Start, n, n, Start>> \o p \o <<c, b>>)
         /\ IsFrame(<<Start, n, n, Start>> \o p \o <<c, b>>) <=> (b = Stop /\ lrc(p) = c)
<1> DEFINE f == <<Start, n, n, Start>> \o p \o <<c, b>>
           body == SubSeq(f, 5, Len(f) - 2)
<1>0. n \in Nat /\ Start \in Byte /\ Stop \in Byte
  BY FrameAssumption DEF Byte
<1>1. f \in Seq(Byte) /\ Len(f) = n + 6
  BY <1>0
<1>2. f[1] = Start /\ f[2] = n /\ f[3] = n /\ f[4] = Start
  BY <1>0
<1>3. f[n + 5] = c /\ f[n + 6] = b
  BY <1>0
<1>4. body = p
  <2>1. body \in Seq(Byte) /\ Len(body) = n
    BY <1>0, <1>1
  <2>2. \A i \in 1 .. n : body[i] = f[i + 4]
    BY <1>0, <1>1
  <2>3. \A i \in 1 .. n : f[i + 4] = p[i]
    BY <1>0
  <2> QED
    BY <2>1, <2>2, <2>3, SeqEqual
<1> HIDE DEF f
<1>5. Len(f) >= 6 /\ Len(f) = f[2] + 6 /\ f[Len(f)] = b /\ f[Len(f) - 1] = c
  BY <1>0, <1>1, <1>2, <1>3
<1>6. HasHeader(f)
  BY <1>2, <1>5 DEF HasHeader
<1>7. lrc(SubSeq(f, 5, Len(f) - 2)) = lrc(p)
  BY <1>4
<1>8. IsFrame(f) <=> (b = Stop /\ lrc(p) = c)
  BY <1>2, <1>5, <1>7 DEF IsFrame
<1> QED
  BY <1>6, <1>8 DEF f

\* Every byte step keeps the types and the segment.
LEMMA StepKeeps == IInv /\ [Next]_vars => IInv'
<1> SUFFICES ASSUME IInv, [Next]_vars PROVE IInv'
  OBVIOUS
<1> USE FrameAssumption
<1>t. TypeOK /\ Segment
  BY DEF IInv
<1>s. Start \in Byte /\ Stop \in Byte /\ Byte \subseteq Nat
  BY DEF Byte
<1>g. ASSUME NEW b \in Byte, Take(b)
      PROVE  /\ got' \in Seq(Byte)
             /\ Len(got') = Len(got) + 1
             /\ mark \in 0 .. Len(got')
             /\ mark >= 1 => SubSeq(got', mark, Len(got')) = Append(Current, b)
  BY <1>t, <1>g, CurrentGrows DEF TypeOK, Take, Current
<1>1. ASSUME NEW b \in Byte, Hunt(b) PROVE IInv'
  <2>1. Take(b)
    BY <1>1 DEF Hunt
  <2>2. TypeOK'
    BY <1>1, <1>t, <1>g, <2>1 DEF Hunt, TypeOK
  <2>3. CASE b = Start
    <3>1. mark' = Len(got') /\ Len(got') >= 1 /\ got'[Len(got')] = Start
      BY <1>1, <1>t, <2>3 DEF Hunt, Take, TypeOK
    <3>2. Current' = <<Start>>
      <4>1. got' \in Seq(Byte)
        BY <2>2 DEF TypeOK
      <4>2. SubSeq(got', Len(got'), Len(got')) = <<got'[Len(got')]>>
        BY <3>1, <4>1, LastByte
      <4> QED
        BY <3>1, <4>2 DEF Current
    <3> QED
      BY <1>1, <2>2, <2>3, <3>1, <3>2 DEF Hunt, IInv, Segment
  <2>4. CASE b # Start
    BY <1>1, <2>2, <2>4 DEF Hunt, IInv, Segment
  <2> QED
    BY <2>3, <2>4
<1>2. ASSUME NEW b \in Byte, FirstLength(b) PROVE IInv'
  <2>1. TypeOK'
    BY <1>2, <1>t, <1>g DEF FirstLength, TypeOK
  <2>2. mark' >= 1 /\ Current' = Append(<<Start>>, b)
    BY <1>2, <1>t, <1>g DEF FirstLength, Segment, Current
  <2>3. Current' = <<Start, b>>
    BY <2>2, <1>s, AppendToOne
  <2> QED
    BY <1>2, <2>1, <2>2, <2>3 DEF FirstLength, IInv, Segment
<1>3. ASSUME NEW b \in Byte, SecondLength(b) PROVE IInv'
  <2>1. TypeOK'
    BY <1>3, <1>t, <1>g DEF SecondLength, TypeOK
  <2>2. mark' >= 1 /\ Current' = Append(<<Start, l1>>, b)
    BY <1>3, <1>t, <1>g DEF SecondLength, Segment, Current
  <2>3. Current' = <<Start, l1, b>>
    BY <2>2, <1>s, <1>t, AppendToTwo DEF TypeOK
  <2> QED
    BY <1>3, <2>1, <2>2, <2>3 DEF SecondLength, IInv, Segment
<1>4. ASSUME NEW b \in Byte, SecondStart(b) PROVE IInv'
  <2>1. TypeOK'
    BY <1>4, <1>t, <1>g, <1>s DEF SecondStart, TypeOK, HeaderFits, AfterHeader, AfterBadHeader
  <2>2. mark' >= 1 /\ Current' = Append(<<Start, l1, l2>>, b)
    BY <1>4, <1>t, <1>g DEF SecondStart, Segment, Current
  <2>3. CASE HeaderFits(b)
    <3>1. Current' = <<Start, l1', l1', Start>> \o payload'
      <4>1. Current' = <<Start, l1, l2, b>>
        BY <2>2, <1>s, <1>t, AppendToThree DEF TypeOK
      <4>2. l1' = l1 /\ l2 = l1 /\ b = Start /\ payload' = <<>>
        BY <2>3, <1>4 DEF HeaderFits, SecondStart
      <4>3. <<Start, l1, l1, Start>> \o <<>> = <<Start, l1, l1, Start>>
        BY <1>s, <1>t, ConcatEmptySeq DEF TypeOK
      <4> QED
        BY <4>1, <4>2, <4>3
    <3>2. st' = AfterHeader /\ Len(payload') = 0 /\ l1' = l1 /\ l1 \in Nat
      BY <2>3, <1>4, <1>t, <1>s DEF SecondStart, TypeOK
    <3> QED
      BY <2>1, <2>2, <3>1, <3>2 DEF AfterHeader, IInv, Segment
  <2>4. CASE ~HeaderFits(b)
    BY <1>4, <2>1, <2>4 DEF SecondStart, AfterBadHeader, IInv, Segment
  <2> QED
    BY <2>3, <2>4
<1>5. ASSUME NEW b \in Byte, Payload(b) PROVE IInv'
  <2>1. Len(payload') = Len(payload) + 1 /\ payload' \in Seq(Byte) /\ l1 \in Nat /\ l1' = l1
    BY <1>5, <1>t, <1>s DEF Payload, TypeOK
  <2>2. TypeOK'
    BY <1>5, <1>t, <1>g, <2>1 DEF Payload, TypeOK, Segment
  <2>3. mark' >= 1 /\ Current' = Append(<<Start, l1, l1, Start>> \o payload, b)
    BY <1>5, <1>t, <1>g DEF Payload, Segment, Current
  <2>4. Append(<<Start, l1, l1, Start>> \o payload, b) = <<Start, l1, l1, Start>> \o Append(payload, b)
    BY SMTT(60), <1>s, <1>t, AppendProperties, ConcatProperties DEF TypeOK
  <2>5. Len(payload) < l1 /\ payload' = Append(payload, b)
    BY <1>5, <1>t DEF Payload, Segment
  <2>6. st' = IF Len(payload') = l1 THEN "cs" ELSE "payload"
    BY <1>5, <2>1 DEF Payload
  <2>7. Current' = <<Start, l1', l1', Start>> \o payload'
    BY <2>1, <2>3, <2>4, <2>5
  <2>8. CASE Len(payload') = l1
    BY <2>1, <2>2, <2>3, <2>6, <2>7, <2>8 DEF IInv, Segment
  <2>9. CASE Len(payload') # l1
    BY <2>1, <2>2, <2>3, <2>5, <2>6, <2>7, <2>9 DEF IInv, Segment
  <2> QED
    BY <2>8, <2>9
<1>6. ASSUME NEW b \in Byte, Checksum(b) PROVE IInv'
  <2>1. TypeOK'
    BY <1>6, <1>t, <1>g DEF Checksum, TypeOK
  <2>2. mark' >= 1 /\ Current' = Append(<<Start, l1, l1, Start>> \o payload, b)
    BY <1>6, <1>t, <1>g DEF Checksum, Segment, Current
  <2>3. Current' = <<Start, l1, l1, Start>> \o payload \o <<b>>
    BY SMTT(60), <2>2, <1>s, <1>t, AppendIsConcat DEF TypeOK
  <2> QED
    BY <1>6, <1>t, <2>1, <2>2, <2>3 DEF Checksum, IInv, Segment
<1>7. ASSUME NEW b \in Byte, End(b) PROVE IInv'
  <2> DEFINE head == <<Start, l1, l1, Start>> \o payload
             whole == head \o <<cs, b>>
  <2>0. Take(b) /\ mark' = mark /\ mark >= 1 /\ Len(payload) = l1
    BY <1>7, <1>t DEF End, Segment
  <2>1. Current' = Append(head \o <<cs>>, b)
    BY <1>7, <2>0, <1>t, <1>g DEF End, Segment, Current
  <2>2. head \in Seq(Byte) /\ Frame \in Seq(Byte)
    BY <1>s, <1>t DEF TypeOK, Frame
  <2>3. HasHeader(whole) /\ (IsFrame(whole) <=> (b = Stop /\ ChecksumFits))
    BY <2>0, <1>t, PartsMakeFrame DEF TypeOK, ChecksumFits
  <2>4. b = Stop => whole = Frame
    BY DEF Frame
  <2> HIDE DEF head
  <2>5. Current' = whole
    BY <2>1, <2>2, <1>t, AppendTail DEF TypeOK
  <2> HIDE DEF whole
  <2>6. CASE b = Stop /\ ChecksumFits
    <3>1. st' = "ok" /\ out' = Frame
      BY <1>7, <2>6 DEF End
    <3>2. TypeOK'
      BY <1>7, <1>t, <1>g, <2>0, <2>2, <3>1 DEF End, TypeOK
    <3> QED
      BY <2>0, <2>3, <2>4, <2>5, <2>6, <3>1, <3>2 DEF IInv, Segment
  <2>7. CASE ~(b = Stop /\ ChecksumFits)
    <3>1. st' = "error" /\ out' = out
      BY <1>7, <2>7 DEF End
    <3>2. TypeOK'
      BY <1>7, <1>t, <1>g, <2>0, <3>1 DEF End, TypeOK
    <3> QED
      BY <2>0, <2>3, <2>5, <2>7, <3>1, <3>2 DEF IInv, Segment
  <2> QED
    BY <2>6, <2>7
<1>8. CASE GiveUp
  BY <1>8, <1>t DEF GiveUp, IInv, TypeOK, Segment
<1>9. CASE UNCHANGED vars
  BY <1>9, <1>t DEF vars, IInv, TypeOK, Segment, Current
<1> QED
  BY <1>1, <1>2, <1>3, <1>4, <1>5, <1>6, <1>7, <1>8, <1>9 DEF Next, ReadStep

\* The initial states satisfy the inductive invariant.
LEMMA InitEstablishes == Init => IInv
BY FrameAssumption DEF Init, IInv, TypeOK, Segment, Byte

\* The variables always have their types: a payload is never longer than the
\* header says.
THEOREM FrameTypeCorrect == Spec => []TypeOK
<1>1. IInv => TypeOK
  BY DEF IInv
<1> QED
  BY <1>1, InitEstablishes, StepKeeps, PTL DEF Spec

\* What readLong returns was on the bus just so, and is a frame.
THEOREM SoundHolds == Spec => []Sound
<1>1. IInv => Sound
  BY DEF IInv, Segment, Sound, Current
<1> QED
  BY <1>1, InitEstablishes, StepKeeps, PTL DEF Spec

\* DecodeFrame accepts the framing of what readLong returns.
THEOREM DecodableHolds == Spec => []Decodable
<1>1. ASSUME IInv, st = "ok" PROVE DecodeFrame(out) \in {"payload too short", "payload"}
  <2>1. IsFrame(out) /\ out \in Seq(Byte)
    BY <1>1 DEF IInv, Segment, TypeOK
  <2>2. Len(out) >= 6 /\ Len(out) \in Nat
    BY <2>1 DEF IsFrame
  <2>3. out[2] \in Nat
    BY <2>1, <2>2, FrameAssumption DEF Byte
  <2>4. ~(4 + out[2] + 2 > Len(out))
    BY <2>1, <2>2, <2>3 DEF IsFrame
  <2> QED
    BY <2>1, <2>2, <2>3, <2>4 DEF IsFrame, DecodeFrame
<1>2. IInv => Decodable
  BY <1>1 DEF Decodable
<1> QED
  BY <1>2, InitEstablishes, StepKeeps, PTL DEF Spec

\* The first bytes of a segment, where it begins.
LEMMA SegmentBytes ==
  ASSUME NEW s \in Seq(Byte), NEW m \in 1 .. Len(s)
  PROVE  /\ Len(SubSeq(s, m, Len(s))) = Len(s) - m + 1
         /\ SubSeq(s, m, Len(s))[1] = s[m]
         /\ Len(s) >= m + 2 => SubSeq(s, m, Len(s))[2] = s[m + 1] /\ SubSeq(s, m, Len(s))[3] = s[m + 2]
         /\ Len(s) >= m + 3 => SubSeq(s, m, Len(s))[4] = s[m + 3]
OBVIOUS

\* An error comes only with a good header.
THEOREM ErrorNeedsHeaderHolds == Spec => []ErrorNeedsHeader
<1>1. ASSUME IInv, st = "error" PROVE ErrorNeedsHeader
  <2> DEFINE f == SubSeq(got, mark, Len(got))
  <2>1. got \in Seq(Byte) /\ mark \in 1 .. Len(got)
    BY <1>1 DEF IInv, TypeOK, Segment
  <2>2. HasHeader(f) /\ ~IsFrame(f)
    BY <1>1 DEF IInv, Segment, Current
  <2>3. Len(f) = Len(got) - mark + 1
    BY <2>1, SegmentBytes
  <2>4. Len(got) >= mark + 5
    <3> HIDE DEF f
    <3> QED
      BY <2>1, <2>2, <2>3 DEF HasHeader
  <2>5. f[1] = got[mark] /\ f[2] = got[mark + 1] /\ f[3] = got[mark + 2] /\ f[4] = got[mark + 3]
    BY <2>1, <2>4, SegmentBytes
  <2> HIDE DEF f
  <2>6. got[mark] = Start /\ got[mark + 1] = got[mark + 2] /\ got[mark + 3] = Start
    BY <2>2, <2>5 DEF HasHeader
  <2>7. got[mark + 1] \in Nat
    BY <2>1, <2>4, FrameAssumption DEF Byte
  <2>8. Len(got) = mark + got[mark + 1] + 5
    <3>1. Len(f) = f[2] + 6
      BY <2>2 DEF HasHeader
    <3>2. Len(got) - mark + 1 = got[mark + 1] + 6
      BY <2>3, <2>5, <3>1, Zenon
    <3> QED
      BY ONLY <2>1, <2>7, <3>2
  <2> QED
    BY <2>1, <2>2, <2>6, <2>8 DEF ErrorNeedsHeader, f
<1>2. IInv => ErrorNeedsHeader
  BY <1>1 DEF ErrorNeedsHeader
<1> QED
  BY <1>2, InitEstablishes, StepKeeps, PTL DEF Spec

\* A segment that is read byte by byte starts with the start byte.
LEMMA MarkIsStart ==
  ASSUME IInv, st \in {"l1", "l2", "start2", "payload", "cs", "end"}
  PROVE  mark \in 1 .. Len(got) /\ got[mark] = Start
<1> DEFINE f == SubSeq(got, mark, Len(got))
<1>1. got \in Seq(Byte) /\ payload \in Seq(Byte) /\ mark \in 1 .. Len(got)
  BY DEF IInv, TypeOK, Segment
<1>2. Start \in Byte /\ l1 \in Byte /\ l2 \in Byte /\ cs \in Byte
  BY FrameAssumption DEF Byte, IInv, TypeOK
<1>3. f[1] = got[mark]
  BY <1>1, SegmentBytes
<1>4. f[1] = Start
  <2>1. CASE st = "l1"
    <3>1. <<Start>>[1] = Start
      OBVIOUS
    <3>2. f = <<Start>>
      BY <2>1 DEF IInv, Segment, Current
    <3> QED
      BY <3>1, <3>2
  <2>2. CASE st = "l2"
    <3>1. <<Start, l1>>[1] = Start
      OBVIOUS
    <3>2. f = <<Start, l1>>
      BY <2>2 DEF IInv, Segment, Current
    <3> QED
      BY <3>1, <3>2
  <2>3. CASE st = "start2"
    <3>1. <<Start, l1, l2>>[1] = Start
      OBVIOUS
    <3>2. f = <<Start, l1, l2>>
      BY <2>3 DEF IInv, Segment, Current
    <3> QED
      BY <3>1, <3>2
  <2>4. CASE st \in {"payload", "cs"}
    <3>1. (<<Start, l1, l1, Start>> \o payload)[1] = Start
      BY <1>1, <1>2
    <3> QED
      BY <2>4, <3>1 DEF IInv, Segment, Current
  <2>5. CASE st = "end"
    <3>1. (<<Start, l1, l1, Start>> \o payload \o <<cs>>)[1] = Start
      BY <1>1, <1>2
    <3> QED
      BY <2>5, <3>1 DEF IInv, Segment, Current
  <2> QED
    BY <2>1, <2>2, <2>3, <2>4, <2>5
<1> QED
  BY <1>1, <1>3, <1>4

\* Every byte step keeps account of the first start byte.
LEMMA FirstHeaderKept == IInv /\ IInv' /\ FirstHeader /\ [Next]_vars => FirstHeader'
<1> SUFFICES ASSUME IInv, IInv', FirstHeader, [Next]_vars,
                    NEW f \in 1 .. Len(got'), FirstStart(f)'
             PROVE  Spoilt(f)' \/ (mark' = f /\ st' # "hunt")
  BY DEF FirstHeader
<1>t. got \in Seq(Byte) /\ got' \in Seq(Byte) /\ mark \in Nat
  BY DEF IInv, TypeOK
<1>1. ASSUME got' = got, mark' = mark, st' = st \/ st' = "stopped"
      PROVE  Spoilt(f)' \/ (mark' = f /\ st' # "hunt")
  BY <1>1 DEF FirstHeader, FirstStart, Spoilt
<1>2. ASSUME NEW b \in Byte, ReadStep(b)
      PROVE  Spoilt(f)' \/ (mark' = f /\ st' # "hunt")
  <2>1. Take(b)
    BY <1>2 DEF ReadStep, Hunt, FirstLength, SecondLength, SecondStart, Payload, Checksum, End
  <2>2. Len(got') = Len(got) + 1 /\ got'[Len(got) + 1] = b
        /\ \A k \in 1 .. Len(got) : got'[k] = got[k]
    BY <1>t, <2>1 DEF Take
  <2>3. CASE f = Len(got) + 1
    <3>1. b = Start /\ \A j \in 1 .. Len(got) : got[j] # Start
      BY <2>2, <2>3, <1>t DEF FirstStart
    <3>2. st \notin {"l1", "l2", "start2", "payload", "cs", "end"}
      BY <3>1, MarkIsStart
    <3>3. Hunt(b)
      BY <1>2, <3>2 DEF ReadStep, Hunt, FirstLength, SecondLength, SecondStart, Payload, Checksum, End
    <3> QED
      BY <2>3, <3>1, <3>3 DEF Hunt
  <2>4. CASE f # Len(got) + 1
    <3>1. f \in 1 .. Len(got) /\ FirstStart(f)
      BY <2>2, <2>4, <1>t DEF FirstStart
    <3>2. CASE Spoilt(f)
      BY <2>2, <3>1, <3>2, <1>t DEF Spoilt
    <3>3. CASE mark = f /\ st # "hunt"
      <4>1. mark' = mark
        BY <1>2, <3>3 DEF ReadStep, Hunt, FirstLength, SecondLength, SecondStart, Payload, Checksum, End
      <4>2. CASE st' # "hunt"
        BY <3>3, <4>1, <4>2
      <4>3. CASE st' = "hunt"
        <5>1. SecondStart(b) /\ ~HeaderFits(b)
          BY <1>2, <3>3, <4>3 DEF ReadStep, Hunt, FirstLength, SecondLength, SecondStart, Payload,
                                  Checksum, End, AfterHeader
        <5>2. SubSeq(got, f, Len(got)) = <<Start, l1, l2>>
          BY <5>1, <3>3 DEF SecondStart, IInv, Segment, Current
        <5>3. Len(got) = f + 2 /\ got[f + 1] = l1 /\ got[f + 2] = l2
          <6>1. Len(SubSeq(got, f, Len(got))) = Len(got) - f + 1
            BY <3>1, <1>t, SegmentBytes
          <6>2. Len(got) = f + 2
            BY <5>2, <6>1, <3>1, <1>t
          <6> DEFINE g == SubSeq(got, f, Len(got))
          <6>3. g[2] = got[f + 1] /\ g[3] = got[f + 2]
            BY <6>2, <3>1, <1>t, SegmentBytes
          <6>4. <<Start, l1, l2>>[2] = l1 /\ <<Start, l1, l2>>[3] = l2
            OBVIOUS
          <6>5. g = <<Start, l1, l2>>
            BY <5>2
          <6> HIDE DEF g
          <6> QED
            BY <6>2, <6>3, <6>4, <6>5
        <5> QED
          BY <5>1, <5>3, <2>2, <3>1, <1>t DEF Spoilt, HeaderFits
      <4> QED
        BY <4>2, <4>3
    <3> QED
      BY <3>1, <3>2, <3>3 DEF FirstHeader
  <2> QED
    BY <2>3, <2>4
<1>3. CASE GiveUp
  BY <1>1, <1>3 DEF GiveUp
<1>4. CASE UNCHANGED vars
  BY <1>1, <1>4 DEF vars
<1> QED
  BY <1>2, <1>3, <1>4 DEF Next

\* What is read before the end of a frame is no frame yet.
LEMMA NotYetFrame ==
  ASSUME IInv, st \in {"l1", "l2", "start2", "payload", "cs", "end"}
  PROVE  ~IsFrame(SubSeq(got, mark, Len(got)))
<1> DEFINE f == SubSeq(got, mark, Len(got))
<1>1. Start \in Byte /\ l1 \in Byte /\ l2 \in Byte /\ cs \in Byte /\ payload \in Seq(Byte)
      /\ Byte \subseteq Nat
  BY FrameAssumption DEF Byte, IInv, TypeOK
<1>2. CASE st \in {"l1", "l2", "start2"}
  <2>1. CASE st = "l1"
    <3>1. f = <<Start>>
      BY <2>1 DEF IInv, Segment, Current
    <3>2. Len(f) = 1
      BY <3>1
    <3> QED
      BY <3>2 DEF IsFrame
  <2>2. CASE st = "l2"
    <3>1. f = <<Start, l1>>
      BY <2>2 DEF IInv, Segment, Current
    <3>2. Len(f) = 2
      BY <3>1
    <3> QED
      BY <3>2 DEF IsFrame
  <2>3. CASE st = "start2"
    <3>1. f = <<Start, l1, l2>>
      BY <2>3 DEF IInv, Segment, Current
    <3>2. Len(f) = 3
      BY <3>1
    <3> QED
      BY <3>2 DEF IsFrame
  <2> QED
    BY <1>2, <2>1, <2>2, <2>3
<1>3. ASSUME NEW t \in Seq(Byte), f = <<Start, l1, l1, Start>> \o payload \o t,
             Len(payload) + Len(t) < l1 + 2
      PROVE  ~IsFrame(f)
  <2>1. Len(f) < l1 + 6 /\ f[2] = l1
    BY <1>1, <1>3
  <2> HIDE DEF f
  <2>2. ~(Len(f) = f[2] + 6)
    BY <1>1, <2>1
  <2> QED
    BY <2>2 DEF IsFrame
<1>4. CASE st \in {"payload", "cs"}
  <2>1. <<Start, l1, l1, Start>> \o payload \o <<>> = <<Start, l1, l1, Start>> \o payload
    BY <1>1, ConcatEmptySeq
  <2>2. f = <<Start, l1, l1, Start>> \o payload /\ Len(payload) <= l1
    BY <1>4 DEF IInv, Segment, TypeOK, Current
  <2>3. Len(payload) + Len(<<>>) < l1 + 2 /\ <<>> \in Seq(Byte)
    BY <1>1, <2>2
  <2> QED
    BY <2>1, <2>2, <2>3, <1>3
<1>5. CASE st = "end"
  <2>1. f = <<Start, l1, l1, Start>> \o payload \o <<cs>> /\ Len(payload) = l1
    BY <1>5 DEF IInv, Segment, Current
  <2>2. Len(payload) + Len(<<cs>>) < l1 + 2 /\ <<cs>> \in Seq(Byte)
    BY <1>1, <2>1
  <2> QED
    BY <2>1, <2>2, <1>3
<1> QED
  BY <1>2, <1>4, <1>5

\* A frame after noise without a start byte is found and returned with its last
\* byte, unless the call is given up.
THEOREM FrameFoundHolds == Spec => []FrameFound
<1>1. Init => FirstHeader
  BY DEF Init, FirstHeader
<1>2. ASSUME IInv, FirstHeader PROVE FrameFound
  <2> SUFFICES ASSUME NEW i \in 1 .. Len(got), \A j \in 1 .. i - 1 : got[j] # Start,
                      IsFrame(SubSeq(got, i, Len(got))), st # "stopped"
               PROVE  st = "ok" /\ out = SubSeq(got, i, Len(got))
    BY DEF FrameFound
  <2> DEFINE f == SubSeq(got, i, Len(got))
  <2>1. got \in Seq(Byte)
    BY <1>2 DEF IInv, TypeOK
  <2>2. Len(f) = Len(got) - i + 1
    BY <2>1, SegmentBytes
  <2>3. Len(f) >= 6 /\ f[1] = Start /\ f[2] = f[3] /\ f[4] = Start
    BY DEF IsFrame
  <2>4. f[1] = got[i] /\ f[2] = got[i + 1] /\ f[3] = got[i + 2] /\ f[4] = got[i + 3]
    <3>1. Len(got) >= i + 3 /\ Len(got) >= i + 2
      <4>1. Len(got) - i + 1 >= 6 /\ Len(got) \in Nat
        BY <2>1, <2>2, <2>3
      <4> QED
        BY ONLY i \in 1 .. Len(got), <4>1
    <3> QED
      BY <2>1, <3>1, SegmentBytes, Zenon
  <2> HIDE DEF f
  <2>5. FirstStart(i) /\ ~Spoilt(i)
    BY <2>1, <2>3, <2>4 DEF FirstStart, Spoilt
  <2>6. mark = i /\ st # "hunt"
    BY <1>2, <2>5 DEF FirstHeader
  <2>7. st \notin {"l1", "l2", "start2", "payload", "cs", "end"}
    BY <1>2, <2>6, NotYetFrame
  <2>8. st \in {"ok", "error"}
    BY <1>2, <2>6, <2>7 DEF IInv, TypeOK
  <2>9. st # "error"
    BY <1>2, <2>6 DEF IInv, Segment, Current
  <2> QED
    BY <1>2, <2>6, <2>8, <2>9 DEF IInv, Segment, Current
<1> QED
  BY <1>1, <1>2, InitEstablishes, StepKeeps, FirstHeaderKept, PTL DEF Spec
-----------------------------------------------------------------------------
(***************************************************************************)
(* RecordParser, for telegrams of any length and with any content: the     *)
(* parser stays inside the data, its numbers stay inside their widths, and *)
(* it moves on.  How a value is decoded does not matter to any of this,    *)
(* and decodeValue is not expanded.                                        *)
(***************************************************************************)

Fields == {"fn", "df", "storage", "sweight", "tariff", "tweight", "vi"}

\* The record under construction, with the width of its numbers.
RecordOK ==
  /\ DOMAIN rec = Fields
  /\ rec.df \in 0 .. 15
  /\ rec.storage \in 0 .. StorageMod - 1
  /\ rec.tariff \in 0 .. TariffMod - 1
  /\ rec.sweight \in Nat
  /\ rec.tweight \in Nat

\* Where the parser is at the start, and that the header is there.
Placed ==
  /\ step = "ci" => pos = 0 /\ Len(data) >= 1
  /\ step = "header" => pos = 1 /\ Len(data) >= 13

IsSeq(s) == \E S : s \in Seq(S)

ParserIInv ==
  /\ ParserTypeOK
  /\ data \in Seq(Octet)
  /\ RecordOK
  /\ Placed
  /\ IsSeq(records)
-----------------------------------------------------------------------------
\* What is known of a sequence without a set that holds its elements.
LEMMA AppendIsSeq ==
  ASSUME NEW s, IsSeq(s), NEW e
  PROVE  /\ IsSeq(Append(s, e))
         /\ DOMAIN Append(s, e) = 1 .. Len(s) + 1
         /\ DOMAIN s = 1 .. Len(s) /\ Len(s) \in Nat
         /\ \A i \in 1 .. Len(s) : Append(s, e)[i] = s[i]
         /\ Append(s, e)[Len(s) + 1] = e
<1>1. PICK S : s \in Seq(S)
  BY DEF IsSeq
<1> DEFINE T == S \cup {e}
<1>2. s \in Seq(T) /\ DOMAIN s = 1 .. Len(s) /\ Len(s) \in Nat
  BY <1>1, SeqMonotonic
<1>3. e \in T
  OBVIOUS
<1> HIDE DEF T
<1>4. /\ Append(s, e) \in Seq(T)
      /\ Len(Append(s, e)) = Len(s) + 1
      /\ \A i \in 1 .. Len(s) : Append(s, e)[i] = s[i]
      /\ Append(s, e)[Len(s) + 1] = e
  BY <1>2, <1>3, AppendProperties
<1>5. DOMAIN Append(s, e) = 1 .. Len(s) + 1
  BY <1>4
<1> QED
  BY <1>2, <1>4, <1>5 DEF IsSeq

\* The table of lengths has an entry for every data field.
LEMMA DataLenIsNat == \A d \in 0 .. 15 : DataLen[d + 1] \in 0 .. 8
BY DEF DataLen

\* And the length of a variable one is a byte of the data.
LEMMA ValueLengthIsNat ==
  ASSUME ParserIInv, ValueFits
  PROVE  ValueLength \in Nat
<1>1. CASE Variable
  <2>1. pos + 1 \in 1 .. Len(data)
    BY <1>1 DEF ValueFits, Left, ParserIInv, ParserTypeOK
  <2>2. data[pos + 1] \in Octet
    BY <2>1 DEF ParserIInv
  <2> QED
    BY <1>1, <2>2 DEF ValueLength, Here, Octet
<1>2. CASE ~Variable
  <2>1. rec.df \in 0 .. 15
    BY DEF ParserIInv, RecordOK
  <2>2. DataLen[rec.df + 1] \in Nat
    <3>1. DataLen[rec.df + 1] \in 0 .. 8
      BY <2>1, DataLenIsNat
    <3>2. 0 .. 8 \subseteq Nat
      OBVIOUS
    <3> QED
      BY <3>1, <3>2
  <2> QED
    BY <1>2, <2>2 DEF ValueLength
<1> QED
  BY <1>1, <1>2

\* What is added to a storage number or a tariff stays within the width.
LEMMA AddBounds ==
  ASSUME NEW r, r.storage \in Nat, r.tariff \in Nat, r.sweight \in Nat, r.tweight \in Nat,
         NEW b \in Octet
  PROVE  /\ AddStorage(r, b) \in 0 .. StorageMod - 1
         /\ AddTariff(r, b) \in 0 .. TariffMod - 1
<1>1. \A x \in Nat, n \in Nat \ {0} : x % n \in 0 .. n - 1
  OBVIOUS
<1>2. \A x \in Nat, y \in Nat : x * y \in Nat
  OBVIOUS
<1>3. (b \div 2) % 16 \in Nat /\ (b \div 32) % 4 \in Nat
  BY DEF Octet
<1>4. /\ ((b \div 2) % 16) * r.sweight \in Nat
      /\ ((b \div 32) % 4) * r.tweight \in Nat
  BY <1>2, <1>3
<1>5. /\ r.storage + ((b \div 2) % 16) * r.sweight \in Nat
      /\ r.tariff + ((b \div 32) % 4) * r.tweight \in Nat
  BY <1>4
<1> QED
  BY <1>1, <1>5, ParserAssumption DEF AddStorage, AddTariff
-----------------------------------------------------------------------------
\* parseRecords starts within its data.
LEMMA InitParserIInv == ParserInit => ParserIInv
<1> SUFFICES ASSUME ParserInit PROVE ParserIInv
  OBVIOUS
<1> USE DEF ParserInit, ParserStart
<1>1. data \in Seq(Octet) /\ Len(data) >= 1
  <2>1. telegram.bytes \in Seq(Octet)
    BY ParserAssumption DEF Octet
  <2>2. PICK cut \in 1 .. Len(telegram.bytes) : data = SubSeq(telegram.bytes, 1, cut)
    OBVIOUS
  <2> QED
    BY <2>1, <2>2
<1>2. RecordOK
  BY ParserAssumption DEF RecordOK, EmptyRecord, Fields
<1>3. IsSeq(records)
  BY DEF IsSeq
<1> QED
  BY <1>1, <1>2, <1>3 DEF ParserIInv, ParserTypeOK, RecordOK, Placed, Octet

\* Every step keeps it.
LEMMA NextParserIInv == ParserIInv /\ [ParserNext]_parserVars => ParserIInv'
<1> SUFFICES ASSUME ParserIInv, [ParserNext]_parserVars PROVE ParserIInv'
  OBVIOUS
<1> USE DEF ParserIInv
<1>0. \A p \in 0 .. Len(data) - 1 : data[p + 1] \in Octet
  OBVIOUS
<1>1. CASE ControlInformation
  BY <1>1 DEF ControlInformation, ParserTypeOK, RecordOK, Placed, HeaderLength
<1>2. CASE Header
  BY <1>2 DEF Header, ParserTypeOK, RecordOK, Placed, HeaderLength
<1>3. CASE Filler
  BY <1>3 DEF Filler, ParserTypeOK, RecordOK, Placed, Left
<1>4. CASE EndMark
  BY <1>4 DEF EndMark, ParserTypeOK, RecordOK, Placed
<1>5. CASE Dif
  <2>1. Here \in Octet /\ pos' \in 0 .. Len(data)
    BY <1>0, <1>5 DEF Dif, Here, Left, ParserTypeOK
  <2>2. /\ DOMAIN rec' = Fields
        /\ rec'.df = Here % 16
        /\ rec'.storage = (Here \div 64) % 2
        /\ rec'.tariff = 0 /\ rec'.sweight = 2 /\ rec'.tweight = 1
    BY <1>5 DEF Dif, EmptyRecord, Fields
  <2>3. Here % 16 \in 0 .. 15 /\ (Here \div 64) % 2 \in 0 .. StorageMod - 1
    BY <2>1, ParserAssumption DEF Octet
  <2>4. RecordOK'
    BY <2>2, <2>3, ParserAssumption DEF RecordOK
  <2> QED
    BY <1>5, <2>1, <2>4 DEF Dif, ParserTypeOK, RecordOK, Placed
<1>6. CASE Dife
  <2>1. Here \in Octet /\ pos' \in 0 .. Len(data)
    BY <1>0, <1>6 DEF Dife, Here, Left, ParserTypeOK
  <2>2. /\ AddStorage(rec, Here) \in 0 .. StorageMod - 1
        /\ AddTariff(rec, Here) \in 0 .. TariffMod - 1
    BY <2>1, AddBounds DEF RecordOK
  <2>3. (16 * rec.sweight) % StorageMod \in Nat /\ (4 * rec.tweight) % TariffMod \in Nat
    <3>1. \A x \in Nat, n \in Nat \ {0} : x % n \in Nat
      OBVIOUS
    <3>2. 16 * rec.sweight \in Nat /\ 4 * rec.tweight \in Nat
      BY DEF RecordOK
    <3> QED
      BY <3>1, <3>2, ParserAssumption
  <2>4. RecordOK'
    BY <1>6, <2>2, <2>3 DEF Dife, RecordOK, Fields
  <2> QED
    BY <1>6, <2>1, <2>4 DEF Dife, ParserTypeOK, RecordOK, Placed
<1>7. CASE Vif
  <2>1. Here \in Octet /\ pos' \in 0 .. Len(data)
    BY <1>0, <1>7 DEF Vif, Here, Left, ParserTypeOK
  <2>2. RecordOK'
    BY <1>7 DEF Vif, RecordOK, Fields
  <2>3. step' \in {"fd", "fb", "vife"}
    BY <1>7 DEF Vif
  <2> QED
    BY <1>7, <2>1, <2>2, <2>3 DEF Vif, ParserTypeOK, RecordOK, Placed
<1>8. CASE SecondVif
  <2>1. Here \in Octet /\ pos' \in 0 .. Len(data)
    BY <1>0, <1>8 DEF SecondVif, Here, Left, ParserTypeOK
  <2>2. RecordOK'
    BY <1>8 DEF SecondVif, RecordOK, Fields
  <2> QED
    BY <1>8, <2>1, <2>2 DEF SecondVif, ParserTypeOK, RecordOK, Placed
<1>9. CASE Vife
  <2>1. Here \in Octet /\ pos' \in 0 .. Len(data)
    BY <1>0, <1>9 DEF Vife, Here, Left, ParserTypeOK
  <2> QED
    BY <1>9, <2>1 DEF Vife, ParserTypeOK, RecordOK, Placed
<1>10. CASE Value
  <2>1. pos' \in 0 .. Len(data)
    <3>1. ValueLength \in Nat
      BY <1>10, ValueLengthIsNat DEF Value
    <3> QED
      BY <1>10, <3>1 DEF Value, ValueFits, ValueStart, ParserTypeOK
  <2> DEFINE new == Shown(SubSeq(data, ValueStart + 1, pos'))
  <2>2. new.storage = rec.storage /\ new.tariff = rec.tariff
    BY DEF Shown
  <2>3. records' = Append(records, new) /\ step' = "record" /\ UNCHANGED <<data, cur, rec>>
    BY <1>10 DEF Value
  <2> HIDE DEF new
  <2>4. IsSeq(records')
    BY <2>3, AppendIsSeq
  <2>5. \A i \in DOMAIN records' : /\ records'[i].storage \in 0 .. StorageMod - 1
                                   /\ records'[i].tariff \in 0 .. TariffMod - 1
    BY <2>2, <2>3, AppendIsSeq DEF ParserTypeOK
  <2> QED
    BY <2>1, <2>3, <2>4, <2>5 DEF ParserTypeOK, RecordOK, Placed
<1>11. CASE Truncated
  BY <1>11 DEF Truncated, ParserTypeOK, RecordOK, Placed
<1>12. CASE UNCHANGED parserVars
  BY <1>12 DEF parserVars, ParserTypeOK, RecordOK, Placed
<1> QED
  BY <1>1, <1>2, <1>3, <1>4, <1>5, <1>6, <1>7, <1>8, <1>9, <1>10, <1>11, <1>12 DEF ParserNext

\* The inductive invariant of the parser.
LEMMA ParserInvariant == ParserSpec => []ParserIInv
BY InitParserIInv, NextParserIInv, PTL DEF ParserSpec

\* Whatever the device sends, parseRecords never looks beyond its data, and a
\* storage number or tariff never exceeds its type.
THEOREM ParserTypeCorrect == ParserSpec => []ParserTypeOK
<1>1. ParserIInv => ParserTypeOK
  BY DEF ParserIInv
<1> QED
  BY <1>1, ParserInvariant, PTL

\* Whatever the device sends, every step of parseRecords consumes a byte, ends
\* it, or begins the next record: it cannot go round without moving on.
THEOREM ParserMovesOn == ParserSpec => StepsForward
<1> DEFINE Forward == \/ pos' > pos
                      \/ step' = "done"
                      \/ pos' = pos /\ step = "vife" /\ step' = "record"
<1>1. ParserIInv /\ [ParserNext]_parserVars => [Forward]_parserVars
  <2> SUFFICES ASSUME ParserIInv, ParserNext PROVE Forward
    OBVIOUS
  <2>1. pos \in Nat
    BY DEF ParserIInv, ParserTypeOK
  <2>2. CASE Value
    <3>1. ValueLength \in Nat
      BY <2>2, ValueLengthIsNat DEF Value
    <3>2. step = "vife" /\ step' = "record" /\ pos' = ValueStart + ValueLength
      BY <2>2 DEF Value, AtValue
    <3>3. pos' >= pos
      BY <2>1, <3>1, <3>2 DEF ValueStart
    <3> QED
      BY <2>1, <3>1, <3>2, <3>3 DEF ValueStart
  <2>3. CASE EndMark \/ Truncated
    BY <2>3 DEF EndMark, Truncated
  <2>4. CASE \/ ControlInformation \/ Header \/ Filler \/ Dif \/ Dife \/ Vif
             \/ SecondVif \/ Vife
    BY <2>1, <2>4 DEF ControlInformation, Header, Filler, Dif, Dife, Vif, SecondVif, Vife,
       HeaderLength
  <2> QED
    BY <2>2, <2>3, <2>4 DEF ParserNext
<1> QED
  BY <1>1, ParserInvariant, PTL DEF ParserSpec, StepsForward
-----------------------------------------------------------------------------
(***************************************************************************)
(* RecordParser, for telegrams as a meter sends them (TelegramSent), of    *)
(* any length and with any records, that end anywhere: what is returned is *)
(* what was meant.                                                         *)
(***************************************************************************)

(* Numbers in digits.                                                      *)

\* from[i] is the number of the digits from the i-th on.
Counts(from, digit, base, n) ==
  /\ from \in [1 .. n + 1 -> Nat]
  /\ from[n + 1] = 0
  /\ \A i \in 1 .. n : from[i] = digit[i] + base * from[i + 1]

\* There is such a function, for any number of digits.
LEMMA CountsExists ==
  ASSUME NEW base \in Nat, NEW n \in Nat, NEW digit, \A i \in 1 .. n : digit[i] \in Nat
  PROVE  \E from : Counts(from, digit, base, n)
<1> DEFINE Partly(from, m) == /\ from \in [1 .. n + 1 -> Nat]
                              /\ from[n + 1] = 0
                              /\ \A i \in 1 .. n : i > n - m => from[i] = digit[i] + base * from[i + 1]
           T == {m \in Nat : \E from : Partly(from, m)}
<1>1. 0 \in T
  <2> DEFINE from == [i \in 1 .. n + 1 |-> 0]
  <2>1. Partly(from, 0)
    OBVIOUS
  <2> QED
    BY <2>1
<1>2. ASSUME NEW m \in Nat, m < n, m \in T PROVE m + 1 \in T
  <2>1. PICK from : Partly(from, m)
    BY <1>2
  <2> DEFINE k == n - m
             new == [from EXCEPT ![k] = digit[k] + base * from[k + 1]]
  <2>2. k \in 1 .. n /\ k + 1 \in 1 .. n + 1
    BY <1>2
  <2>3. digit[k] + base * from[k + 1] \in Nat
    <3>1. \A x \in Nat, y \in Nat, z \in Nat : x + y * z \in Nat
      OBVIOUS
    <3>2. digit[k] \in Nat /\ from[k + 1] \in Nat
      BY <2>1, <2>2
    <3> QED
      BY <3>1, <3>2
  <2>4. new \in [1 .. n + 1 -> Nat]
    BY <2>1, <2>3
  <2>5. new[n + 1] = 0
    BY <2>1, <2>2
  <2>6. ASSUME NEW i \in 1 .. n, i > n - (m + 1) PROVE new[i] = digit[i] + base * new[i + 1]
    <3>1. i >= k
      BY <1>2, <2>6
    <3>2. i + 1 # k /\ i + 1 \in 1 .. n + 1
      BY <3>1, <2>2
    <3>3. new[i + 1] = from[i + 1]
      BY <2>1, <3>2
    <3>4. CASE i = k
      BY <2>1, <2>2, <3>3, <3>4
    <3>5. CASE i # k
      <4>1. i > n - m
        BY <3>1, <3>5
      <4> QED
        BY <2>1, <3>3, <3>5, <4>1
    <3> QED
      BY <3>4, <3>5
  <2> HIDE DEF new
  <2>7. Partly(new, m + 1)
    BY <2>4, <2>5, <2>6
  <2> QED
    BY <2>7
<1>3. n \in T
  <2> HIDE DEF T
  <2> QED
    BY <1>1, <1>2, UpToInduction
<1>4. PICK from : Partly(from, n)
  BY <1>3
<1>5. \A i \in 1 .. n : i > n - n
  OBVIOUS
<1> QED
  BY <1>4, <1>5 DEF Counts

\* x is the number of these digits.
IsNumber(x, digit, base, n) == \E from : Counts(from, digit, base, n) /\ x = from[1]

\* So is Number.
LEMMA NumberCounts ==
  ASSUME NEW base \in Nat, NEW n \in Nat, NEW digit, \A i \in 1 .. n : digit[i] \in Nat
  PROVE  IsNumber(Number(digit, base, n), digit, base, n)
<1> DEFINE F == CHOOSE f : f = [i \in 1 .. n + 1 |->
                                 IF i = n + 1 THEN 0 ELSE digit[i] + base * f[i + 1]]
<1>1. Number(digit, base, n) = F[1]
  BY DEF Number
<1>2. PICK from : Counts(from, digit, base, n)
  BY CountsExists
<1>3. from = [i \in 1 .. n + 1 |-> IF i = n + 1 THEN 0 ELSE digit[i] + base * from[i + 1]]
  <2>1. from = [i \in 1 .. n + 1 |-> from[i]]
    BY <1>2 DEF Counts
  <2>2. \A i \in 1 .. n + 1 : from[i] = IF i = n + 1 THEN 0 ELSE digit[i] + base * from[i + 1]
    BY <1>2 DEF Counts
  <2> QED
    BY <2>1, <2>2
<1>4. F = [i \in 1 .. n + 1 |-> IF i = n + 1 THEN 0 ELSE digit[i] + base * F[i + 1]]
  BY <1>3, Zenon
<1> HIDE DEF F
<1>5. /\ F = [i \in 1 .. n + 1 |-> F[i]]
      /\ \A i \in 1 .. n + 1 : F[i] = IF i = n + 1 THEN 0 ELSE digit[i] + base * F[i + 1]
  BY <1>4
<1>6. F[n + 1] = 0 /\ \A i \in 1 .. n : F[i] = digit[i] + base * F[i + 1]
  <2>1. n + 1 \in 1 .. n + 1 /\ \A i \in 1 .. n : i \in 1 .. n + 1 /\ i # n + 1
    OBVIOUS
  <2> QED
    BY <1>5, <2>1, Zenon
<1>7. \A i \in 1 .. n + 1 : F[i] \in Nat
  <2> DEFINE T == {m \in Nat : m <= n => F[n + 1 - m] \in Nat}
  <2>1. 0 \in T
    BY <1>6
  <2>2. ASSUME NEW m \in Nat, m < n, m \in T PROVE m + 1 \in T
    <3>1. PICK i : i = n - m
      OBVIOUS
    <3>2. i \in 1 .. n /\ i = n + 1 - (m + 1) /\ i + 1 = n + 1 - m
      BY <2>2, <3>1
    <3>3. F[i + 1] \in Nat /\ digit[i] \in Nat
      BY <2>2, <3>2
    <3>4. \A x \in Nat, y \in Nat, z \in Nat : x + y * z \in Nat
      OBVIOUS
    <3>5. F[i] \in Nat
      BY <1>6, <3>2, <3>3, <3>4
    <3> QED
      BY <3>2, <3>5
  <2> HIDE DEF T
  <2>3. \A m \in 0 .. n : m \in T
    BY <2>1, <2>2, UpToInduction
  <2>4. ASSUME NEW i \in 1 .. n + 1 PROVE F[i] \in Nat
    <3>1. n + 1 - i \in 0 .. n /\ n + 1 - (n + 1 - i) = i
      OBVIOUS
    <3> QED
      BY <2>3, <3>1 DEF T
  <2> QED
    BY <2>4
<1>8. Counts(F, digit, base, n)
  BY <1>5, <1>6, <1>7 DEF Counts
<1> QED
  BY <1>1, <1>8 DEF IsNumber
-----------------------------------------------------------------------------
(* Values.                                                                 *)

\* from[i] is what the digits from the i-th on make, digits being any integers.
Makes(from, digit, base, n) ==
  /\ from[n + 1] = 0
  /\ \A i \in 1 .. n : from[i] = digit[i] + base * from[i + 1]

\* Number is what all of them make.
LEMMA NumberIs ==
  ASSUME NEW base, NEW n \in Nat, NEW digit, NEW from, Makes(from, digit, base, n)
  PROVE  Number(digit, base, n) = from[1]
<1> USE DEF Makes
<1> DEFINE F == CHOOSE f : f = [i \in 1 .. n + 1 |->
                                 IF i = n + 1 THEN 0 ELSE digit[i] + base * f[i + 1]]
           g == [i \in 1 .. n + 1 |-> from[i]]
<1>1. Number(digit, base, n) = F[1]
  BY DEF Number
<1>0. /\ n + 1 \in 1 .. n + 1 /\ 1 \in 1 .. n + 1
      /\ \A i \in 1 .. n : i \in 1 .. n + 1 /\ i + 1 \in 1 .. n + 1 /\ i # n + 1
      /\ \A i \in 1 .. n + 1 : i # n + 1 => i \in 1 .. n
  OBVIOUS
<1>2. g = [i \in 1 .. n + 1 |-> IF i = n + 1 THEN 0 ELSE digit[i] + base * g[i + 1]]
  <2>1. \A i \in 1 .. n + 1 : g[i] = IF i = n + 1 THEN 0 ELSE digit[i] + base * g[i + 1]
    BY <1>0
  <2> QED
    BY <2>1, Zenon
<1> HIDE DEF g
<1>3. F = [i \in 1 .. n + 1 |-> IF i = n + 1 THEN 0 ELSE digit[i] + base * F[i + 1]]
  BY <1>2, Zenon
<1> HIDE DEF F
<1>4. F[n + 1] = 0 /\ \A i \in 1 .. n : F[i] = digit[i] + base * F[i + 1]
  BY <1>0, <1>3, Zenon
<1> DEFINE T == {m \in Nat : m <= n => F[n + 1 - m] = from[n + 1 - m]}
<1>5. 0 \in T
  BY <1>4
<1>6. ASSUME NEW m \in Nat, m < n, m \in T PROVE m + 1 \in T
  <2>1. PICK i : i = n - m
    OBVIOUS
  <2>2. i \in 1 .. n /\ i = n + 1 - (m + 1) /\ i + 1 = n + 1 - m
    BY <1>6, <2>1
  <2>3. F[i + 1] = from[i + 1]
    BY <1>6, <2>2
  <2>4. F[i] = digit[i] + base * F[i + 1] /\ from[i] = digit[i] + base * from[i + 1]
    BY <1>4, <2>2
  <2>5. F[i] = from[i]
    BY <2>3, <2>4
  <2> QED
    BY <2>2, <2>5
<1>7. n \in T
  <2>1. \A m \in 0 .. n : m \in T
    <3> HIDE DEF T
    <3> QED
      BY <1>5, <1>6, UpToInduction
  <2> QED
    BY <2>1
<1>8. n + 1 - n = 1
  OBVIOUS
<1> QED
  BY <1>1, <1>7, <1>8

\* f is the function by which Rest is defined.
Rests(f, x, base, n) ==
  /\ f \in [1 .. n -> Int]
  /\ f[1] = x
  /\ \A i \in 1 .. n - 1 : f[i + 1] = f[i] \div base

\* There is such a function.
LEMMA RestsExist ==
  ASSUME NEW base \in Nat \ {0}, NEW n \in Nat \ {0}, NEW x \in Int
  PROVE  \E f : Rests(f, x, base, n)
<1> DEFINE Partly(f, m) == /\ f \in [1 .. n -> Int]
                           /\ f[1] = x
                           /\ \A i \in 1 .. n - 1 : i <= m => f[i + 1] = f[i] \div base
           T == {m \in Nat : \E f : Partly(f, m)}
<1>1. 0 \in T
  <2> DEFINE f == [i \in 1 .. n |-> x]
  <2>1. Partly(f, 0)
    OBVIOUS
  <2> QED
    BY <2>1
<1>2. ASSUME NEW m \in Nat, m < n - 1, m \in T PROVE m + 1 \in T
  <2>1. PICK f : Partly(f, m)
    BY <1>2
  <2> DEFINE k == m + 2
             new == [f EXCEPT ![k] = f[m + 1] \div base]
  <2>2. k \in 1 .. n /\ m + 1 \in 1 .. n /\ k # 1
    BY <1>2
  <2>3. f[m + 1] \div base \in Int
    <3>1. \A y \in Int : y \div base \in Int
      OBVIOUS
    <3>2. f[m + 1] \in Int
      BY <2>1, <2>2
    <3> QED
      BY <3>1, <3>2
  <2>4. new \in [1 .. n -> Int] /\ new[1] = x
    BY <2>1, <2>2, <2>3
  <2>5. ASSUME NEW i \in 1 .. n - 1, i <= m + 1 PROVE new[i + 1] = new[i] \div base
    <3>1. i # k /\ i \in 1 .. n /\ i + 1 \in 1 .. n
      BY <2>5
    <3>2. new[i] = f[i]
      BY <2>1, <3>1
    <3>3. CASE i = m + 1
      <4>1. i + 1 = k
        BY <3>3
      <4>2. new[k] = f[m + 1] \div base
        BY <2>1, <2>2
      <4> QED
        BY <3>2, <3>3, <4>1, <4>2
    <3>4. CASE i # m + 1
      <4>1. i <= m /\ i + 1 # k
        BY <2>5, <3>4
      <4>2. new[i + 1] = f[i + 1]
        BY <2>1, <3>1, <4>1
      <4>3. f[i + 1] = f[i] \div base
        BY <2>1, <4>1
      <4> QED
        BY <3>2, <4>2, <4>3
    <3> QED
      BY <3>3, <3>4
  <2>6. Partly(new, m + 1)
    <3> HIDE DEF new
    <3> QED
      BY <2>4, <2>5
  <2>7. m + 1 \in Nat /\ \E g : Partly(g, m + 1)
    <3> HIDE DEF Partly
    <3> QED
      BY <2>6
  <2> QED
    BY <2>7, Zenon
<1>3. n - 1 \in T
  <2>1. n - 1 \in Nat
    OBVIOUS
  <2>2. \A m \in 0 .. n - 1 : m \in T
    <3> HIDE DEF T
    <3> QED
      BY <1>1, <1>2, <2>1, UpToInduction
  <2> QED
    BY <2>1, <2>2
<1>4. PICK f : Partly(f, n - 1)
  BY <1>3
<1>5. \A i \in 1 .. n - 1 : i <= n - 1
  OBVIOUS
<1> QED
  BY <1>4, <1>5 DEF Rests

\* And Rest is one.
LEMMA RestIs ==
  ASSUME NEW base \in Nat \ {0}, NEW n \in Nat \ {0}, NEW x \in Int
  PROVE  Rests(Rest(x, base, n), x, base, n)
<1> DEFINE F == CHOOSE f : f = [i \in 1 .. n |-> IF i = 1 THEN x ELSE f[i - 1] \div base]
<1>1. Rest(x, base, n) = F
  BY DEF Rest
<1>2. PICK g : Rests(g, x, base, n)
  BY RestsExist
<1>3. g = [i \in 1 .. n |-> IF i = 1 THEN x ELSE g[i - 1] \div base]
  <2>1. g = [i \in 1 .. n |-> g[i]]
    BY <1>2 DEF Rests
  <2>2. ASSUME NEW i \in 1 .. n PROVE g[i] = IF i = 1 THEN x ELSE g[i - 1] \div base
    <3>1. CASE i = 1
      BY <1>2, <3>1 DEF Rests
    <3>2. CASE i # 1
      <4>1. i - 1 \in 1 .. n - 1 /\ (i - 1) + 1 = i
        BY <3>2
      <4> QED
        BY <1>2, <3>2, <4>1 DEF Rests
    <3> QED
      BY <3>1, <3>2
  <2> QED
    BY <2>1, <2>2
<1>4. F = [i \in 1 .. n |-> IF i = 1 THEN x ELSE F[i - 1] \div base]
  BY <1>3, Zenon
<1> HIDE DEF F
<1>5. /\ F = [i \in 1 .. n |-> F[i]]
      /\ \A i \in 1 .. n : F[i] = IF i = 1 THEN x ELSE F[i - 1] \div base
  BY <1>4
<1> DEFINE T == {m \in Nat : m <= n - 1 => F[m + 1] = g[m + 1]}
<1>6. 0 \in T
  <2>1. F[1] = x
    <3>1. 1 \in 1 .. n
      OBVIOUS
    <3> QED
      BY <1>5, <3>1, Zenon
  <2> QED
    BY <1>2, <2>1 DEF Rests
<1>7. ASSUME NEW m \in Nat, m < n - 1, m \in T PROVE m + 1 \in T
  <2>1. PICK i, j : i = m + 1 /\ j = (m + 1) + 1
    OBVIOUS
  <2>2. i \in 1 .. n - 1 /\ j \in 1 .. n /\ j # 1 /\ j - 1 = i /\ j = i + 1
    BY <1>7, <2>1
  <2>3. F[i] = g[i]
    BY <1>7, <2>1
  <2>4. F[j] = IF j = 1 THEN x ELSE F[j - 1] \div base
    BY <1>5, <2>2
  <2>5. g[j] = g[i] \div base
    BY <1>2, <2>2 DEF Rests
  <2>6. F[j] = g[j]
    BY <2>2, <2>3, <2>4, <2>5
  <2> QED
    BY <2>1, <2>6
<1>8. \A i \in 1 .. n : F[i] = g[i]
  <2>1. n - 1 \in Nat
    OBVIOUS
  <2>2. \A m \in 0 .. n - 1 : m \in T
    <3> HIDE DEF T
    <3> QED
      BY <1>6, <1>7, <2>1, UpToInduction
  <2>3. ASSUME NEW i \in 1 .. n PROVE F[i] = g[i]
    <3>1. i - 1 \in 0 .. n - 1 /\ (i - 1) + 1 = i
      OBVIOUS
    <3> QED
      BY <2>2, <3>1
  <2> QED
    BY <2>3
<1>9. g = [i \in 1 .. n |-> g[i]]
  BY <1>2 DEF Rests
<1>10. F = g
  BY <1>5, <1>8, <1>9
<1> QED
  BY <1>1, <1>2, <1>10

\* An integer comes back from its bytes.
LEMMA IntegerIsRead ==
  ASSUME NEW b \in Seq(Octet), Len(b) # 0, NEW x \in Int, IntegerSent(b, x)
  PROVE  decodeSigned(b) = x
<1> DEFINE n == Len(b)
           r == Rest(x, 256, n)
           digit == [i \in 1 .. n |-> IF i = n /\ b[n] >= 128 THEN b[n] - 256 ELSE b[i]]
           from == [i \in 1 .. n + 1 |-> IF i = n + 1 THEN 0 ELSE r[i]]
<1>1. n \in Nat \ {0} /\ r[n] \in -128 .. 127 /\ \A i \in 1 .. n : b[i] = r[i] % 256
  BY DEF IntegerSent
<1>2. decodeSigned(b) = Number(digit, 256, n)
  BY DEF decodeSigned
<1>3. Rests(r, x, 256, n)
  BY <1>1, RestIs
<1> HIDE DEF n, r
<1>4. from[n + 1] = 0 /\ from[1] = x
  BY <1>1, <1>3 DEF Rests
<1>5. ASSUME NEW i \in 1 .. n PROVE from[i] = digit[i] + 256 * from[i + 1]
  <2>0. i \in 1 .. n + 1 /\ i + 1 \in 1 .. n + 1 /\ i # n + 1
    BY <1>1
  <2>1. PICK y \in Int : y = r[i]
    BY <1>3 DEF Rests
  <2>2. b[i] = y % 256 /\ from[i] = y
    BY <1>1, <2>0, <2>1
  <2>3. CASE i = n
    <3>1. digit[i] = (IF b[i] >= 128 THEN b[i] - 256 ELSE b[i]) /\ from[i + 1] = 0
      BY <2>0, <2>3
    <3>2. y \in -128 .. 127
      BY <1>1, <2>1, <2>3
    <3> HIDE DEF digit, from
    <3> QED
      BY <2>2, <3>1, <3>2
  <2>4. CASE i # n
    <3>1. i \in 1 .. n - 1 /\ i + 1 # n + 1
      BY <1>1, <2>4
    <3>2. from[i + 1] = y \div 256 /\ digit[i] = b[i]
      BY <1>3, <2>0, <2>1, <2>4, <3>1 DEF Rests
    <3> HIDE DEF digit, from
    <3> QED
      BY <2>2, <3>2
  <2> QED
    BY <2>3, <2>4
<1> HIDE DEF digit, from
<1>6. Number(digit, 256, n) = from[1]
  <2>1. n \in Nat /\ Makes(from, digit, 256, n)
    BY <1>1, <1>4, <1>5 DEF Makes
  <2> QED
    BY <2>1, NumberIs
<1> QED
  BY <1>2, <1>4, <1>6

\* And a number from its decimal digits.
LEMMA DigitsAreRead ==
  ASSUME NEW b \in Seq(Octet), Len(b) # 0, NEW x \in Int, DigitsSent(b, x)
  PROVE  decodeBCD(b) = x
<1> DEFINE n == Len(b)
           r == Rest(x, 100, n)
           digit == [i \in 1 .. n |-> 10 * (b[i] \div 16) + (b[i] % 16)]
           from == [i \in 1 .. n + 1 |-> IF i = n + 1 THEN 0 ELSE r[i]]
<1>1. /\ n \in Nat \ {0} /\ r[n] \in 0 .. 99
      /\ \A i \in 1 .. n : b[i] = 16 * ((r[i] % 100) \div 10) + (r[i] % 10)
  BY DEF DigitsSent
<1>2. decodeBCD(b) = Number(digit, 100, n)
  BY DEF decodeBCD
<1>3. Rests(r, x, 100, n)
  BY <1>1, RestIs
<1> HIDE DEF n, r
<1>4. from[n + 1] = 0 /\ from[1] = x
  BY <1>1, <1>3 DEF Rests
<1>d. \A t, u \in 0 .. 9 : 10 * ((16 * t + u) \div 16) + ((16 * t + u) % 16) = 10 * t + u
  OBVIOUS
<1>5. ASSUME NEW i \in 1 .. n PROVE from[i] = digit[i] + 100 * from[i + 1]
  <2>0. i \in 1 .. n + 1 /\ i + 1 \in 1 .. n + 1 /\ i # n + 1
    BY <1>1
  <2>1. PICK y \in Int : y = r[i]
    BY <1>3 DEF Rests
  <2>2. b[i] = 16 * ((y % 100) \div 10) + (y % 10) /\ from[i] = y
    BY <1>1, <2>0, <2>1
  <2>3. (y % 100) \div 10 \in 0 .. 9 /\ y % 10 \in 0 .. 9 /\ 10 * ((y % 100) \div 10) + (y % 10) = y % 100
    OBVIOUS
  <2>4. digit[i] = 10 * (b[i] \div 16) + (b[i] % 16)
    OBVIOUS
  <2>5. digit[i] = y % 100
    <3> HIDE DEF digit
    <3> QED
      BY <1>d, <2>2, <2>3, <2>4
  <2>6. CASE i = n
    <3>1. from[i + 1] = 0 /\ y \in 0 .. 99
      BY <1>1, <2>0, <2>1, <2>6
    <3> HIDE DEF digit, from
    <3> QED
      BY <2>2, <2>5, <3>1
  <2>7. CASE i # n
    <3>1. i \in 1 .. n - 1 /\ i + 1 # n + 1
      BY <1>1, <2>7
    <3>2. from[i + 1] = y \div 100
      BY <1>3, <2>0, <2>1, <3>1 DEF Rests
    <3> HIDE DEF digit, from
    <3> QED
      BY <2>2, <2>5, <3>2
  <2> QED
    BY <2>6, <2>7
<1> HIDE DEF digit, from
<1>6. Number(digit, 100, n) = from[1]
  <2>1. n \in Nat /\ Makes(from, digit, 100, n)
    BY <1>1, <1>4, <1>5 DEF Makes
  <2> QED
    BY <2>1, NumberIs
<1> QED
  BY <1>2, <1>4, <1>6

\* So does a date ...
LEMMA DateIsRead ==
  ASSUME NEW b, b[1] \in Octet, b[2] \in Octet, NEW y, NEW m, NEW d, DateSent(b, y, m, d)
  PROVE  decodeTypeGDate(b) = <<y, m, d>>
<1> DEFINE w == b[1] + 256 * b[2]
<1>1. y \in 0 .. 99 /\ m \in 1 .. 12 /\ d \in 1 .. 31 /\ w = d + 32 * m + 512 * y
  BY DEF DateSent
<1>2. decodeTypeGDate(b) = <<w \div 512, (w \div 32) % 16, w % 32>>
  BY DEF decodeTypeGDate
<1> HIDE DEF w
<1>3. w \div 512 = y /\ w \div 32 = m + 16 * y /\ w % 32 = d
  BY <1>1
<1>4. (m + 16 * y) % 16 = m
  BY <1>1
<1> QED
  BY <1>2, <1>3, <1>4

\* ... and a time, if its year has six bits.
LEMMA TimeIsRead ==
  ASSUME NEW b, b[1] \in Octet, b[2] \in Octet, b[3] \in Octet, b[4] \in Octet,
         NEW y, NEW m, NEW d, NEW h, NEW min, TimeSent(b, y, m, d, h, min), y < 64
  PROVE  decodeTypeFDatetime(b) = <<y, m, d, h, min>>
<1>1. /\ y \in 0 .. 63 /\ m \in 1 .. 12 /\ d \in 1 .. 31 /\ h \in 0 .. 23 /\ min \in 0 .. 59
      /\ b[1] % 64 = min /\ b[2] % 32 = h
      /\ b[3] = d + 32 * (y % 8) /\ b[4] = m + 16 * (y \div 8)
  BY DEF TimeSent
<1>2. PICK lo, hi \in 0 .. 7 : lo = y % 8 /\ hi = y \div 8 /\ y = lo + 8 * hi
  BY <1>1
<1>3. b[3] \div 32 = lo /\ b[3] % 32 = d /\ b[4] % 16 = m /\ b[4] \div 16 = hi /\ hi % 8 = hi
  BY <1>1, <1>2
<1> QED
  BY <1>1, <1>2, <1>3 DEF decodeTypeFDatetime

\* And a text.
LEMMA TextIsRead ==
  ASSUME NEW b \in Seq(Octet), NEW s \in Seq(Int), TextSent(b, s)
  PROVE  decodeString(b) = s
<1> DEFINE n == Len(b)
           r == Reverse(b)
           c == CHOOSE k \in 0 .. Len(r) : /\ k # 0 => r[k] # 0
                                           /\ \A i \in k + 1 .. Len(r) : r[i] = 0
<1>1. /\ Len(s) \in 0 .. n /\ n \in Nat
      /\ \A i \in 1 .. Len(s) : s[i] \in 1 .. 127 /\ s[i] = b[n + 1 - i]
      /\ \A i \in 1 .. n - Len(s) : b[i] = 0
  BY DEF TextSent
<1>2. r \in Seq(Octet) /\ Len(r) = n /\ \A i \in 1 .. n : r[i] = b[n + 1 - i]
  <2>1. r = [i \in 1 .. n |-> b[(n - i) + 1]]
    BY DEF Reverse
  <2>2. \A i \in 1 .. n : (n - i) + 1 = n + 1 - i /\ n + 1 - i \in 1 .. n
    BY <1>1
  <2> HIDE DEF r, n
  <2>3. \A i \in 1 .. n : b[(n - i) + 1] \in Octet
    BY <2>2 DEF n
  <2> QED
    BY <1>1, <2>1, <2>2, <2>3
<1>3. decodeString(b) = SubSeq(r, 1, c)
  BY DEF decodeString
<1> HIDE DEF n, r
<1>4. ASSUME NEW i \in Len(s) + 1 .. n PROVE r[i] = 0
  <2>1. n + 1 - i \in 1 .. n - Len(s) /\ i \in 1 .. n
    BY <1>1
  <2> QED
    BY <1>1, <1>2, <2>1
<1>5. ASSUME NEW i \in 1 .. Len(s) PROVE r[i] = s[i] /\ r[i] # 0
  <2>1. i \in 1 .. n
    BY <1>1
  <2>2. s[i] \in 1 .. 127 /\ s[i] = b[n + 1 - i]
    BY <1>1
  <2>3. r[i] = b[n + 1 - i]
    BY <1>2, <2>1
  <2>4. r[i] = s[i]
    BY <2>2, <2>3
  <2>5. \A c0 \in 1 .. 127 : c0 # 0
    OBVIOUS
  <2> QED
    BY <2>2, <2>4, <2>5
<1>6. c = Len(s)
  <2> DEFINE Is(k) == (k # 0 => r[k] # 0) /\ \A i \in k + 1 .. n : r[i] = 0
  <2>1. Len(s) \in 0 .. n /\ Is(Len(s))
    BY <1>1, <1>4, <1>5
  <2>2. ASSUME NEW k \in 0 .. n, Is(k) PROVE k = Len(s)
    <3>1. CASE k < Len(s)
      <4>1. Len(s) \in k + 1 .. n /\ Len(s) \in 1 .. Len(s)
        BY <1>1, <3>1
      <4> QED
        BY <1>5, <2>2, <4>1
    <3>2. CASE k > Len(s)
      <4>1. k \in Len(s) + 1 .. n /\ k # 0
        BY <1>1, <3>2
      <4> QED
        BY <1>4, <2>2, <4>1
    <3> QED
      BY <1>1, <3>1, <3>2
  <2>3. c = CHOOSE k \in 0 .. n : Is(k)
    BY <1>2
  <2> HIDE DEF c, Is
  <2>4. \E k \in 0 .. n : Is(k)
    BY <2>1
  <2>5. c \in 0 .. n /\ Is(c)
    BY <2>3, <2>4
  <2> QED
    BY <2>2, <2>5
<1> HIDE DEF c
<1>7. SubSeq(r, 1, Len(s)) = s
  <2>1. PICK f : f = SubSeq(r, 1, Len(s))
    OBVIOUS
  <2>2. Len(s) \in 0 .. Len(r)
    BY <1>1, <1>2
  <2>3. f \in Seq(Octet) /\ Len(f) = Len(s) /\ \A i \in 1 .. Len(s) : f[i] = r[i]
    BY <1>2, <2>1, <2>2, SubSeqProperties
  <2>4. \A i \in 1 .. Len(s) : f[i] = s[i]
    BY <1>5, <2>3
  <2>5. f = [i \in 1 .. Len(s) |-> f[i]] /\ s = [i \in 1 .. Len(s) |-> s[i]]
    BY <2>3
  <2> QED
    BY <2>1, <2>4, <2>5
<1> QED
  BY <1>3, <1>6, <1>7

\* Some lengths of values.
LEMMA LengthOf ==
  ASSUME NEW d \in 0 .. 15, NEW n \in Nat, n = DataLen[d + 1]
  PROVE  /\ d \in {1, 2, 3, 4, 6, 7} => n \in SignedLength /\ n # 0
         /\ d \in {9, 10, 11, 12, 14} => n # 0
         /\ d = 2 => n = 2
         /\ d \in {4, 5} => n = 4
BY DEF DataLen, SignedLength

\* What a meter has encoded is decoded, if it is no date after 2063.
LEMMA ValueIsRead ==
  ASSUME NEW b \in Seq(Octet), NEW df \in 0 .. 15, NEW vi,
         NEW val \in [k : STRING, v : Seq(Int)],
         df # 13 => Len(b) = DataLen[df + 1],
         ValueSent(b, df, vi, val),
         val.k = "datetime" => val.v[1] < 64
  PROVE  decodeValue(b, df, vi) = val
<1>0. /\ val = Val(val.k, val.v) /\ val.v \in Seq(Int)
      /\ \A k \in 1 .. Len(b) : b[k] \in Octet
      /\ Len(b) \in Nat /\ (b = <<>> <=> Len(b) = 0)
  BY DEF Val
<1>n. PICK n \in Nat : n = Len(b)
  BY <1>0
<1>e. Len(b) # 0 => b # <<>>
  OBVIOUS
<1>l. df # 13 => /\ df \in {1, 2, 3, 4, 6, 7} => Len(b) \in SignedLength /\ Len(b) # 0
                 /\ df \in {9, 10, 11, 12, 14} => Len(b) # 0
                 /\ df = 2 => Len(b) = 2
                 /\ df \in {4, 5} => Len(b) = 4
  BY <1>0, LengthOf
<1>1. CASE b = <<>> /\ val = Val("none", <<>>)
  BY <1>1 DEF decodeValue
<1>2. CASE vi.type = "string" /\ val.k = "text" /\ TextSent(b, val.v)
  <2>1. b # <<>>
    <3>1. n \in 1 .. 191
      BY <1>2, <1>n DEF TextSent
    <3>2. n # 0
      BY <3>1
    <3> QED
      BY <1>e, <1>n, <3>2, Zenon
  <2>2. decodeString(b) = val.v
    BY <1>0, <1>2, TextIsRead
  <2> QED
    BY <1>0, <1>2, <2>1, <2>2 DEF decodeValue
<1>3. CASE /\ df = 2 /\ vi.type = "date" /\ val.k = "date" /\ Len(val.v) = 3
           /\ DateSent(b, val.v[1], val.v[2], val.v[3])
  <2>1. Len(b) = 2 /\ b # <<>>
    BY <1>3, <1>e, <1>l
  <2>2. decodeTypeGDate(b) = <<val.v[1], val.v[2], val.v[3]>>
    BY <1>0, <1>3, <2>1, DateIsRead
  <2>3. val = Val("date", <<val.v[1], val.v[2], val.v[3]>>)
    <3>1. \A w \in Seq(Int) : Len(w) = 3 => w = <<w[1], w[2], w[3]>>
      OBVIOUS
    <3>2. val.v = <<val.v[1], val.v[2], val.v[3]>>
      BY <1>0, <1>3, <3>1
    <3> QED
      BY <1>0, <1>3, <3>2
  <2>4. decodeValue(b, df, vi) = Val("date", decodeTypeGDate(b))
    BY <1>3, <2>1 DEF decodeValue
  <2> QED
    BY <2>2, <2>3, <2>4
<1>4. CASE /\ df = 4 /\ vi.type = "datetime" /\ val.k = "datetime" /\ Len(val.v) = 5
           /\ TimeSent(b, val.v[1], val.v[2], val.v[3], val.v[4], val.v[5])
  <2>1. Len(b) = 4 /\ b # <<>>
    BY <1>4, <1>e, <1>l
  <2>2. decodeTypeFDatetime(b) = <<val.v[1], val.v[2], val.v[3], val.v[4], val.v[5]>>
    BY <1>0, <1>4, <2>1, TimeIsRead
  <2>3. val = Val("datetime", <<val.v[1], val.v[2], val.v[3], val.v[4], val.v[5]>>)
    <3>1. \A w \in Seq(Int) : Len(w) = 5 => w = <<w[1], w[2], w[3], w[4], w[5]>>
      OBVIOUS
    <3>2. val.v = <<val.v[1], val.v[2], val.v[3], val.v[4], val.v[5]>>
      BY <1>0, <1>4, <3>1
    <3> QED
      BY <1>0, <1>4, <3>2
  <2>4. decodeValue(b, df, vi) = Val("datetime", decodeTypeFDatetime(b))
    BY <1>4, <2>1 DEF decodeValue
  <2> QED
    BY <2>2, <2>3, <2>4
<1>5. CASE /\ df \in {1, 2, 3, 4, 6, 7} /\ vi.type = "normal"
           /\ val = Val("number", <<val.v[1], vi.m, vi.e>>) /\ IntegerSent(b, val.v[1])
  <2>1. Len(b) \in SignedLength /\ Len(b) # 0 /\ b # <<>>
    BY <1>5, <1>e, <1>l
  <2>2. val.v[1] \in Int
    <3>1. Len(val.v) = 3
      BY <1>5 DEF Val
    <3> QED
      BY <1>0, <3>1
  <2>3. decodeSigned(b) = val.v[1]
    BY <1>5, <2>1, <2>2, IntegerIsRead
  <2> QED
    BY <1>5, <2>1, <2>3 DEF decodeValue
<1>6. CASE /\ df \in {9, 10, 11, 12, 14} /\ vi.type = "normal"
           /\ val = Val("number", <<val.v[1], vi.m, vi.e>>) /\ DigitsSent(b, val.v[1])
  <2>1. Len(b) # 0 /\ b # <<>>
    BY <1>6, <1>e, <1>l
  <2>2. val.v[1] \in Int
    <3>1. Len(val.v) = 3
      BY <1>6 DEF Val
    <3> QED
      BY <1>0, <3>1
  <2>3. decodeBCD(b) = val.v[1]
    BY <1>6, <2>1, <2>2, DigitsAreRead
  <2> QED
    BY <1>6, <2>1, <2>3 DEF decodeValue
<1>7. CASE /\ df = 5 /\ vi.type = "normal"
           /\ val = IF Finite(b) THEN Val("float", b \o <<vi.m, vi.e>>) ELSE Failed(b)
  <2>1. n = 4
    BY <1>7, <1>l, <1>n
  <2>2. n # 0
    BY <2>1
  <2>3. b # <<>>
    BY <1>e, <1>n, <2>2, Zenon
  <2> QED
    BY <1>7, <2>3 DEF decodeValue
<1> QED
  BY <1>1, <1>2, <1>3, <1>4, <1>5, <1>6, <1>7 DEF ValueSent
-----------------------------------------------------------------------------
(* Remainders.                                                             *)

\* A product that is smaller than one of its factors.
LEMMA SmallProduct ==
  ASSUME NEW M \in Nat \ {0}, NEW z \in Int, z * M < M, -M < z * M
  PROVE  z = 0
<1>1. CASE z >= 1
  <2>1. z * M >= M
    BY <1>1
  <2> QED
    BY <2>1
<1>2. CASE z <= -1
  <2>1. z * M <= -M
    BY <1>2
  <2> QED
    BY <2>1
<1> QED
  BY <1>1, <1>2

\* Division by M, without % and \div.
LEMMA DivMod ==
  ASSUME NEW M \in Nat \ {0}, NEW x \in Nat
  PROVE  \E q \in Nat : x = q * M + (x % M) /\ x % M \in 0 .. M - 1
<1>1. x = M * (x \div M) + (x % M) /\ x % M \in 0 .. M - 1 /\ x \div M \in Nat
  OBVIOUS
<1>2. PICK q \in Nat : q = x \div M
  BY <1>1
<1>3. M * q = q * M
  OBVIOUS
<1> QED
  BY <1>1, <1>2, <1>3

\* There is one remainder only.
LEMMA ModUnique ==
  ASSUME NEW M \in Nat \ {0}, NEW x \in Nat, NEW q \in Int, NEW r \in 0 .. M - 1, x = q * M + r
  PROVE  x % M = r
<1>1. PICK p \in Nat : x = p * M + (x % M) /\ x % M \in 0 .. M - 1
  BY DivMod
<1>2. PICK s \in 0 .. M - 1 : s = x % M
  BY <1>1
<1>3. PICK a, b \in Int : a = p * M /\ b = q * M
  OBVIOUS
<1>4. (p - q) * M = a - b
  BY <1>3
<1>5. a - b = r - s
  BY <1>1, <1>2, <1>3
<1>6. r - s < M /\ -M < r - s
  OBVIOUS
<1>7. p - q = 0
  <2>1. p - q \in Int /\ (p - q) * M < M /\ -M < (p - q) * M
    BY <1>4, <1>5, <1>6
  <2> QED
    BY <2>1, SmallProduct
<1> QED
  BY <1>1, <1>2, <1>3, <1>5, <1>7

\* The digit d of weight w is added to a, and the weight goes on to the number r
\* of the digits that follow.
SameRemainder(M, a, w, d, base, r) ==
  (((a + d * w) % M) + ((base * w) % M) * r) % M = (a + w * (d + base * r)) % M

\* What has been reduced along the way is what is reduced at the end.
LEMMA ModKeeps ==
  ASSUME NEW M \in Nat \ {0}, NEW a \in Nat, NEW w \in Nat, NEW d \in Nat, NEW base \in Nat,
         NEW r \in Nat
  PROVE  SameRemainder(M, a, w, d, base, r)
<1>1. PICK x, y \in Nat : x = a + d * w /\ y = base * w
  <2>1. a + d * w \in Nat /\ base * w \in Nat
    <3>1. \A i \in Nat, j \in Nat : i * j \in Nat
      OBVIOUS
    <3> QED
      BY <3>1
  <2> QED
    BY <2>1
<1>2. PICK p \in Nat : x = p * M + (x % M) /\ x % M \in 0 .. M - 1
  BY DivMod
<1>3. PICK q \in Nat : y = q * M + (y % M) /\ y % M \in 0 .. M - 1
  BY DivMod
<1>4. PICK s, t \in 0 .. M - 1 : s = x % M /\ t = y % M
  BY <1>2, <1>3
<1>5. PICK z \in Nat : z = s + t * r
  <2>1. \A i \in Nat, j \in Nat, k \in Nat : i + j * k \in Nat
    OBVIOUS
  <2> QED
    BY <2>1
<1>6. a + w * (d + base * r) = x + y * r
  <2>1. w * (d + base * r) = w * d + w * (base * r)
    OBVIOUS
  <2>2. w * (base * r) = (base * w) * r /\ w * d = d * w
    OBVIOUS
  <2> QED
    BY <1>1, <2>1, <2>2
<1>7. x + y * r = (p + q * r) * M + z
  <2>1. y * r = (q * M + t) * r
    BY <1>3, <1>4
  <2>2. (q * M + t) * r = (q * M) * r + t * r
    OBVIOUS
  <2>3. (q * M) * r = (q * r) * M
    OBVIOUS
  <2>4. (p + q * r) * M = p * M + (q * r) * M
    OBVIOUS
  <2> QED
    BY <1>2, <1>4, <1>5, <2>1, <2>2, <2>3, <2>4
<1>8. PICK u \in Nat : z = u * M + (z % M) /\ z % M \in 0 .. M - 1
  BY DivMod
<1>9. PICK k \in Nat : k = p + q * r
  <2>1. \A i \in Nat, j \in Nat, l \in Nat : i + j * l \in Nat
    OBVIOUS
  <2> QED
    BY <2>1
<1>10. x + y * r = (k + u) * M + (z % M)
  <2>1. (k + u) * M = k * M + u * M
    OBVIOUS
  <2>2. PICK e, f \in Nat : e = k * M /\ f = u * M
    <3>1. \A i \in Nat, j \in Nat : i * j \in Nat
      OBVIOUS
    <3> QED
      BY <3>1
  <2> QED
    BY <1>7, <1>8, <1>9, <2>1, <2>2
<1>11. (x + y * r) % M = z % M
  <2>1. PICK n \in Nat : n = x + y * r
    <3>1. \A i \in Nat, j \in Nat, l \in Nat : i + j * l \in Nat
      OBVIOUS
    <3> QED
      BY <3>1
  <2>2. k + u \in Int
    OBVIOUS
  <2>3. n % M = z % M
    BY <1>8, <1>10, <2>1, <2>2, ModUnique
  <2> QED
    BY <2>1, <2>3
<1> QED
  BY <1>1, <1>4, <1>5, <1>6, <1>11 DEF SameRemainder
-----------------------------------------------------------------------------
(* Where the items are in the telegram, and what they show.                *)

Count == Len(telegram.items)
BytesOf(k) == telegram.items[k].bytes
Parts == [k \in DOMAIN telegram.items |-> BytesOf(k)]
Offsets == CHOOSE ofs : FlatParts(Parts, FlattenSeq(Parts), ofs)
StartOf(k) == 1 + HeaderLength + Offsets[k]

\* The telegram is as the meter has sent it, and its beginning has come.
Sending ==
  /\ TelegramSent(telegram)
  /\ telegram.bytes \in Seq(Octet)
  /\ \E cut \in 1 .. Len(telegram.bytes) : data = SubSeq(telegram.bytes, 1, cut)

\* The items one behind the other.
Items ==
  /\ Count \in Nat
  /\ \A k \in 1 .. Count + 1 : StartOf(k) \in Nat
  /\ StartOf(1) = 13
  /\ \A k \in 1 .. Count :
       /\ BytesOf(k) \in Seq(Octet) /\ Len(BytesOf(k)) \in Nat \ {0}
       /\ StartOf(k + 1) = StartOf(k) + Len(BytesOf(k))
       /\ \A j \in 1 .. Len(BytesOf(k)) :
            StartOf(k) + j <= Len(data) => data[StartOf(k) + j] = BytesOf(k)[j]
  /\ \A k \in 1 .. Count + 1 : \A m \in k + 1 .. Count + 1 : StartOf(k) < StartOf(m)
  /\ Len(data) \in Nat /\ Len(data) <= StartOf(Count + 1)

\* What SubSeq takes from the front.
LEMMA FrontAt ==
  ASSUME NEW S, NEW s \in Seq(S), NEW n \in 0 .. Len(s), NEW f, f = SubSeq(s, 1, n)
  PROVE  f \in Seq(S) /\ Len(f) = n /\ \A i \in 1 .. n : f[i] = s[i]
BY SubSeqProperties

\* Front and Last undo Append.
LEMMA FrontOfAppend ==
  ASSUME NEW S, NEW s \in Seq(S), NEW x, NEW a, a = Append(s, x)
  PROVE  a # <<>> /\ Front(a) = s /\ Last(a) = x
<1> DEFINE T == S \cup {x}
<1>1. s \in Seq(T) /\ x \in T /\ Len(s) \in Nat
  BY SeqMonotonic
<1> HIDE DEF T
<1>2. /\ a \in Seq(T) /\ Len(a) = Len(s) + 1
      /\ \A i \in 1 .. Len(s) : a[i] = s[i]
      /\ a[Len(s) + 1] = x
  BY <1>1, AppendProperties
<1>3. a # <<>>
  BY <1>1, <1>2
<1>4. Last(a) = x
  BY <1>2 DEF Last
<1>5. Front(a) = s
  <2>1. Len(a) - 1 = Len(s) /\ Len(s) \in 0 .. Len(a)
    BY <1>1, <1>2
  <2>2. PICK f : f = SubSeq(a, 1, Len(s))
    OBVIOUS
  <2>3. f \in Seq(T) /\ Len(f) = Len(s) /\ \A i \in 1 .. Len(s) : f[i] = a[i]
    BY <1>2, <2>1, <2>2, FrontAt
  <2>4. f = s
    BY <1>1, <1>2, <2>3
  <2> QED
    BY <2>1, <2>2, <2>4 DEF Front
<1> QED
  BY <1>3, <1>4, <1>5

\* No item is empty.
LEMMA ItemNotEmpty ==
  ASSUME NEW it, ItemSent(it) \/ MarkSent(it), it.bytes \in Seq(Octet)
  PROVE  Len(it.bytes) \in Nat \ {0}
<1> DEFINE b == it.bytes
<1>1. CASE ItemSent(it)
  <2>1. b = <<47>> \/ \E e \in 1 .. Len(b) : TRUE
    BY <1>1 DEF ItemSent
  <2>2. Len(b) \in Nat
    OBVIOUS
  <2> HIDE DEF b
  <2>3. Len(b) \in Nat \ {0}
    <3>1. CASE b = <<47>>
      BY <3>1
    <3>2. CASE \E e \in 1 .. Len(b) : TRUE
      BY ONLY <2>2, <3>2
    <3> QED
      BY <2>1, <3>1, <3>2
  <2> QED
    BY <2>3 DEF b
<1>2. CASE MarkSent(it)
  <2>1. b \in Seq(Octet) /\ b # <<>>
    BY <1>2 DEF MarkSent
  <2> HIDE DEF b
  <2>2. Len(b) \in Nat \ {0}
    BY <2>1, EmptySeq
  <2> QED
    BY <2>2 DEF b
<1> QED
  BY <1>1, <1>2

\* So the items are one behind the other in what comes.
LEMMA ItemsHold == Sending => Items
<1> SUFFICES ASSUME Sending PROVE Items
  OBVIOUS
<1> DEFINE n == Len(telegram.items)
           tail == FlattenSeq(Parts)
           head == SubSeq(telegram.bytes, 1, 13)
<1>1. /\ telegram.items \in Seq([bytes : Seq(Octet), shows : Seq(ShownRecord)])
      /\ Len(telegram.bytes) > 12
      /\ telegram.bytes = head \o tail
      /\ \A k \in DOMAIN telegram.items :
           ItemSent(telegram.items[k]) \/ MarkSent(telegram.items[k])
  BY DEF Sending, TelegramSent, HeaderLength, Parts, BytesOf
<1>2. n \in Nat /\ DOMAIN telegram.items = 1 .. n
  BY <1>1
<1>3. ASSUME NEW k \in 1 .. n
      PROVE  BytesOf(k) \in Seq(Octet) /\ Len(BytesOf(k)) \in Nat \ {0}
  <2>1. telegram.items[k] \in [bytes : Seq(Octet), shows : Seq(ShownRecord)]
    <3> DEFINE I == [bytes : Seq(Octet), shows : Seq(ShownRecord)]
    <3>1. telegram.items \in Seq(I)
      BY <1>1
    <3> HIDE DEF I
    <3>2. telegram.items[k] \in I
      BY <3>1
    <3> QED
      BY <3>2 DEF I
  <2> QED
    BY <1>1, <1>2, <2>1, ItemNotEmpty DEF BytesOf
<1>4. Parts \in Seq(Seq(Octet)) /\ Len(Parts) = n /\ \A k \in 1 .. n : Parts[k] = BytesOf(k)
  <2> DEFINE SX == Seq(Octet)
  <2>1. \A k \in 1 .. n : BytesOf(k) \in SX
    BY <1>3
  <2>2. Parts = [k \in 1 .. n |-> BytesOf(k)]
    BY <1>2 DEF Parts
  <2> HIDE DEF SX, n
  <2>3. Parts \in Seq(SX) /\ Len(Parts) = n /\ \A k \in 1 .. n : Parts[k] = BytesOf(k)
    BY <1>2, <2>1, <2>2
  <2> QED
    BY <2>3 DEF SX
<1>5. tail \in Seq(Octet) /\ FlatParts(Parts, tail, Offsets)
  BY <1>4, FlattenParts DEF Offsets
<1>6. InOrder(Parts, tail, Offsets)
  BY <1>4, <1>5, FlatOrder
<1> HIDE DEF tail, n
<1>7. /\ Offsets \in [1 .. n + 1 -> Nat]
      /\ Offsets[1] = 0
      /\ \A k \in 1 .. n : Offsets[k + 1] = Offsets[k] + Len(BytesOf(k))
      /\ Len(tail) = Offsets[n + 1]
      /\ \A k \in 1 .. n : \A j \in 1 .. Len(BytesOf(k)) : tail[Offsets[k] + j] = BytesOf(k)[j]
  BY <1>4, <1>5 DEF FlatParts
<1>8. \A k \in 1 .. n : \A m \in k + 1 .. n + 1 : Offsets[k] + Len(BytesOf(k)) <= Offsets[m]
  BY <1>4, <1>6 DEF InOrder
<1>9. head \in Seq(Octet) /\ Len(head) = 13
  <2>1. telegram.bytes \in Seq(Octet) /\ 13 \in 0 .. Len(telegram.bytes)
    BY <1>1 DEF Sending
  <2> QED
    BY ONLY <2>1, FrontAt
<1> HIDE DEF head
<1>10. /\ Len(telegram.bytes) = 13 + Len(tail)
       /\ \A i \in 1 .. Len(tail) : telegram.bytes[13 + i] = tail[i]
       /\ Len(tail) \in Nat
  <2>1. PICK whole : whole = telegram.bytes
    OBVIOUS
  <2>2. whole = head \o tail
    BY <1>1, <2>1
  <2>3. head \in Seq(Octet) /\ tail \in Seq(Octet)
    BY <1>5, <1>9
  <2>4. /\ Len(whole) = Len(head) + Len(tail)
        /\ \A i \in 1 .. Len(tail) : whole[Len(head) + i] = tail[i]
        /\ Len(tail) \in Nat
    BY ONLY <2>2, <2>3, ConcatAt
  <2> QED
    BY <1>9, <2>1, <2>4
<1>11. PICK cut \in 1 .. Len(telegram.bytes) : data = SubSeq(telegram.bytes, 1, cut)
  BY DEF Sending
<1>12. Len(data) = cut /\ \A i \in 1 .. cut : data[i] = telegram.bytes[i]
  <2>1. telegram.bytes \in Seq(Octet) /\ cut \in 0 .. Len(telegram.bytes)
    BY <1>11 DEF Sending
  <2> QED
    BY ONLY <1>11, <2>1, FrontAt
<1>13. Count = n
  BY DEF Count, n
<1>14. \A k \in 1 .. n + 1 : StartOf(k) = 13 + Offsets[k] /\ Offsets[k] \in Nat
  BY <1>7 DEF StartOf, HeaderLength
<1>15. ASSUME NEW k \in 1 .. n + 1, NEW m \in k + 1 .. n + 1 PROVE StartOf(k) < StartOf(m)
  <2>1. k \in 1 .. n /\ m \in 1 .. n + 1
    BY <1>2
  <2>2. Offsets[k] + Len(BytesOf(k)) <= Offsets[m]
    BY <1>8, <2>1
  <2> QED
    BY <1>3, <1>14, <2>1, <2>2
<1>16. ASSUME NEW k \in 1 .. n, NEW j \in 1 .. Len(BytesOf(k)), StartOf(k) + j <= Len(data)
       PROVE  data[StartOf(k) + j] = BytesOf(k)[j]
  <2>1. k \in 1 .. n + 1
    BY <1>2
  <2>2. PICK i : i = Offsets[k] + j
    OBVIOUS
  <2>3. i \in Nat /\ i >= 1 /\ 13 + i = StartOf(k) + j /\ 13 + i <= cut
    BY <1>3, <1>12, <1>14, <1>16, <2>1, <2>2
  <2>4. i \in 1 .. Len(tail) /\ 13 + i \in 1 .. cut
    BY <1>10, <1>11, <2>3
  <2>5. data[13 + i] = tail[i]
    BY <1>10, <1>12, <2>4
  <2> QED
    BY <1>7, <2>2, <2>3, <2>5
<1>17. StartOf(n + 1) = Len(telegram.bytes)
  BY <1>2, <1>7, <1>10, <1>14
<1>18. \A k \in 1 .. n : StartOf(k + 1) = StartOf(k) + Len(BytesOf(k))
  <2> SUFFICES ASSUME NEW k \in 1 .. n PROVE StartOf(k + 1) = StartOf(k) + Len(BytesOf(k))
    OBVIOUS
  <2>1. k \in 1 .. n + 1 /\ k + 1 \in 1 .. n + 1
    BY <1>2
  <2> QED
    BY <1>3, <1>7, <1>14, <2>1
<1>19. StartOf(1) = 13
  BY <1>2, <1>7, <1>14
<1>20. Len(data) \in Nat /\ Len(data) <= StartOf(n + 1)
  BY <1>2, <1>7, <1>10, <1>11, <1>12, <1>14, <1>17
<1>21. \A k \in 1 .. n + 1 : StartOf(k) \in Nat
  BY <1>14
<1> QED
  BY <1>2, <1>3, <1>13, <1>15, <1>16, <1>18, <1>19, <1>20, <1>21 DEF Items

\* What the first n items show.
ShownTo(n) == FlattenSeq([i \in 1 .. n |-> telegram.items[i].shows])

\* What an item is made of.
LEMMA ItemTypes ==
  ASSUME Sending, NEW k \in 1 .. Count
  PROVE  /\ telegram.items[k].shows \in Seq(ShownRecord)
         /\ telegram.items[k].bytes \in Seq(Octet)
         /\ ItemSent(telegram.items[k]) \/ (k = Count /\ MarkSent(telegram.items[k]))
<1> DEFINE I == [bytes : Seq(Octet), shows : Seq(ShownRecord)]
<1>1. telegram.items \in Seq(I) /\ TelegramSent(telegram)
  BY DEF Sending, TelegramSent
<1> HIDE DEF I
<1>2. telegram.items[k] \in I /\ k \in DOMAIN telegram.items
  BY <1>1 DEF Count
<1>3. ItemSent(telegram.items[k]) \/ (k = Count /\ MarkSent(telegram.items[k]))
  BY <1>1, <1>2 DEF TelegramSent, Count
<1> QED
  BY <1>2, <1>3 DEF I

\* One item more.
LEMMA ShownNext ==
  ASSUME Sending, Count \in Nat
  PROVE  /\ ShownTo(0) = <<>>
         /\ \A n \in 0 .. Count : ShownTo(n) \in Seq(ShownRecord)
         /\ \A n \in 1 .. Count : ShownTo(n) = ShownTo(n - 1) \o telegram.items[n].shows
<1> DEFINE Of(n) == [i \in 1 .. n |-> telegram.items[i].shows]
           SX == Seq(ShownRecord)
<1>1. \A k \in 1 .. Count : telegram.items[k].shows \in SX
  BY ItemTypes
<1> HIDE DEF SX
<1>2. \A n \in 0 .. Count : Of(n) \in Seq(SX) /\ Len(Of(n)) = n
  BY <1>1
<1>3. ShownTo(0) = <<>>
  <2>1. PICK o : o = Of(0)
    OBVIOUS
  <2>2. o = <<>>
    BY <2>1
  <2>3. Len(o) = 0
    BY <2>2
  <2>4. FlattenSeq(o) = o
    BY <2>3, FlattenIs
  <2> QED
    BY <2>1, <2>2, <2>4 DEF ShownTo
<1>4. ASSUME NEW n \in 0 .. Count PROVE ShownTo(n) \in Seq(ShownRecord)
  <2>1. PICK o : o = Of(n)
    OBVIOUS
  <2>2. o \in Seq(Seq(ShownRecord))
    BY <1>2, <2>1 DEF SX
  <2>3. FlattenSeq(o) \in Seq(ShownRecord)
    BY <2>2, FlattenParts
  <2> QED
    BY <2>1, <2>3 DEF ShownTo
<1>5. ASSUME NEW n \in 1 .. Count PROVE ShownTo(n) = ShownTo(n - 1) \o telegram.items[n].shows
  <2>1. PICK front, whole, m, part :
          front = Of(n - 1) /\ whole = Of(n) /\ m = n - 1 /\ part = telegram.items[n].shows
    OBVIOUS
  <2>2. m \in 0 .. Count /\ m \in Nat /\ m + 1 = n
    BY <2>1
  <2>3. front \in Seq(SX) /\ Len(front) = m /\ Len(whole) = m + 1
    BY SMTT(60), <1>2, <2>1, <2>2
  <2>4. (\A i \in 1 .. m : whole[i] = front[i]) /\ whole[m + 1] = part
    BY <2>1, <2>2
  <2>5. OneMore(front, part, whole)
    BY <2>3, <2>4 DEF OneMore
  <2>6. part \in Seq(ShownRecord) /\ front \in Seq(Seq(ShownRecord))
    BY <1>1, <2>1, <2>3 DEF SX
  <2>7. FlattenSeq(whole) = FlattenSeq(front) \o part
    BY <2>5, <2>6, FlattenNext
  <2> QED
    BY <2>1, <2>7 DEF ShownTo
<1> QED
  BY <1>3, <1>4, <1>5

\* Meant counts the items that have come in full.
LEMMA MeantIs ==
  ASSUME Items, NEW n \in 0 .. Count, StartOf(n + 1) <= Len(data),
         n # Count => StartOf(n + 2) > Len(data)
  PROVE  Meant = ShownTo(n)
<1> DEFINE all == telegram.items
           c == Len(all)
           Till == CHOOSE f : f = [i \in 0 .. c |-> IF i = 0 THEN 1 + HeaderLength
                                                   ELSE f[i - 1] + Len(all[i].bytes)]
           whole == {i \in 0 .. c : Till[i] <= Len(data)}
           last == CHOOSE i \in whole : \A j \in whole : j <= i
<1>1. Meant = FlattenSeq([i \in 1 .. last |-> all[i].shows])
  BY DEF Meant
<1>2. c = Count /\ c \in Nat
  BY DEF Count, Items
<1>3. /\ StartOf(1) = 13
      /\ \A k \in 1 .. c : StartOf(k + 1) = StartOf(k) + Len(all[k].bytes)
  BY <1>2 DEF Items, BytesOf
<1>4. \E f : f = [i \in 0 .. c |-> IF i = 0 THEN 1 + HeaderLength
                                   ELSE f[i - 1] + Len(all[i].bytes)]
  <2> DEFINE f == [i \in 0 .. c |-> StartOf(i + 1)]
  <2>1. ASSUME NEW i \in 0 .. c
        PROVE  f[i] = IF i = 0 THEN 1 + HeaderLength ELSE f[i - 1] + Len(all[i].bytes)
    <3>1. CASE i = 0
      BY <1>3, <3>1 DEF HeaderLength
    <3>2. CASE i # 0
      <4>1. i \in 1 .. c /\ i - 1 \in 0 .. c /\ i - 1 + 1 = i
        BY <1>2, <3>2
      <4>2. f[i - 1] = StartOf(i) /\ f[i] = StartOf(i + 1)
        BY <4>1
      <4> QED
        BY <1>3, <3>2, <4>1, <4>2
    <3> QED
      BY <3>1, <3>2
  <2>2. f = [i \in 0 .. c |-> f[i]]
    OBVIOUS
  <2> HIDE DEF f, c
  <2>3. f = [i \in 0 .. c |-> IF i = 0 THEN 1 + HeaderLength ELSE f[i - 1] + Len(all[i].bytes)]
    BY <2>1, <2>2
  <2> QED
    BY <2>3
<1>5. Till = [i \in 0 .. c |-> IF i = 0 THEN 1 + HeaderLength
                              ELSE Till[i - 1] + Len(all[i].bytes)]
  BY <1>4, Zenon
<1> HIDE DEF c, Till
<1>6. \A i \in 0 .. c : Till[i] = IF i = 0 THEN 1 + HeaderLength
                                 ELSE Till[i - 1] + Len(all[i].bytes)
  BY <1>5
<1>7. \A i \in 0 .. c : Till[i] = StartOf(i + 1)
  <2> DEFINE T == {i \in Nat : i <= c => Till[i] = StartOf(i + 1)}
  <2>1. 0 \in T
    BY <1>2, <1>3, <1>6 DEF HeaderLength
  <2>2. ASSUME NEW i \in Nat, i < c, i \in T PROVE i + 1 \in T
    <3>1. PICK j : j = i + 1
      OBVIOUS
    <3>2. j \in 0 .. c /\ j \in 1 .. c /\ j # 0 /\ j - 1 = i
      BY <1>2, <2>2, <3>1
    <3>3. Till[j] = Till[j - 1] + Len(all[j].bytes)
      BY <1>6, <3>2, Zenon
    <3>4. Till[i] = StartOf(j)
      <4>1. i <= c => Till[i] = StartOf(i + 1)
        BY <2>2
      <4>2. i <= c
        BY <1>2, <2>2
      <4> QED
        BY <3>1, <4>1, <4>2
    <3>5. Till[j] = StartOf(j + 1)
      BY <1>3, <3>2, <3>3, <3>4
    <3> QED
      BY <3>1, <3>5
  <2> HIDE DEF T
  <2>3. \A i \in 0 .. c : i \in T
    BY <1>2, <2>1, <2>2, UpToInduction
  <2> QED
    BY <2>3 DEF T
<1>8. n \in whole
  BY <1>2, <1>7
<1>9. ASSUME NEW j \in whole PROVE j <= n
  <2>1. j \in 0 .. c /\ StartOf(j + 1) <= Len(data)
    BY <1>7
  <2>2. SUFFICES ASSUME j > n PROVE FALSE
    BY <1>2, <2>1
  <2>3. n # Count /\ StartOf(n + 2) > Len(data) /\ n + 2 \in 1 .. Count + 1
    BY <1>2, <2>1, <2>2
  <2>4. CASE j = n + 1
    BY <2>1, <2>3, <2>4, <1>2 DEF Items
  <2>5. CASE j # n + 1
    <3>1. j + 1 \in n + 2 + 1 .. Count + 1 /\ j + 1 \in 1 .. Count + 1
      BY <1>2, <2>1, <2>2, <2>5
    <3>2. StartOf(n + 2) < StartOf(j + 1) /\ StartOf(n + 2) \in Nat /\ StartOf(j + 1) \in Nat
      BY <2>3, <3>1 DEF Items
    <3> QED
      BY <2>1, <2>3, <3>2 DEF Items
  <2> QED
    BY <2>4, <2>5
<1>10. last \in whole /\ n <= last
  <2> HIDE DEF whole
  <2>1. \E i \in whole : \A j \in whole : j <= i
    BY <1>8, <1>9
  <2> QED
    BY <1>8, <2>1
<1>11. last = n
  <2>1. last <= n
    BY <1>9, <1>10
  <2>2. last \in 0 .. c
    BY <1>10
  <2> QED
    BY <1>2, <1>10, <2>1, <2>2
<1> HIDE DEF last
<1> QED
  BY <1>1, <1>11 DEF ShownTo
-----------------------------------------------------------------------------
(* Where the parser is in the telegram.                                    *)

Shows(k) == telegram.items[k].shows[1]

\* The item k is a record.
Shape(k, v, e, s) ==
  /\ e \in 1 .. Len(BytesOf(k)) /\ s \in 1 .. Len(BytesOf(k))
  /\ Len(telegram.items[k].shows) = 1
  /\ RecordSent(BytesOf(k), Shows(k), v, e, s)

StorageDigits(b, v) == [i \in 1 .. v - 2 |-> (b[i + 1] \div 2) % 16]
TariffDigits(b, v) == [i \in 1 .. v - 2 |-> (b[i + 1] \div 32) % 4]

\* It has taken i bytes, up to a DIFE: what is still to come makes the numbers
\* what they are meant to be.
InDifes(k, v, i) ==
  /\ i \in 1 .. v - 1
  /\ cur = BytesOf(k)[i]
  /\ \E from : /\ Counts(from, StorageDigits(BytesOf(k), v), 16, v - 2)
               /\ (rec.storage + rec.sweight * from[i]) % StorageMod = Shows(k).storage
  /\ \E from : /\ Counts(from, TariffDigits(BytesOf(k), v), 4, v - 2)
               /\ (rec.tariff + rec.tweight * from[i]) % TariffMod = Shows(k).tariff

NumbersRead(k) == rec.storage = Shows(k).storage /\ rec.tariff = Shows(k).tariff

\* It has taken the VIF, and no more, that leads to another table.
AtSecondVif(k, v, i) ==
  /\ NumbersRead(k)
  /\ i = v
  /\ BytesOf(k)[v] = IF step = "fd" THEN 253 ELSE 251

\* It knows what the VIF means.
InVifes(k, v, e, i) ==
  /\ NumbersRead(k)
  /\ i \in v .. e
  /\ cur = BytesOf(k)[i]
  /\ rec.vi = VibMeans(BytesOf(k), v)

Inside(k, v, e, s, i) ==
  /\ Shape(k, v, e, s)
  /\ pos = StartOf(k) + i
  /\ records = ShownTo(k - 1)
  /\ rec.fn = Shows(k).fn
  /\ rec.df = BytesOf(k)[1] % 16
  /\ step = "dife" => InDifes(k, v, i)
  /\ step \in {"fd", "fb"} => AtSecondVif(k, v, i)
  /\ step = "vife" => InVifes(k, v, e, i)

InsideSome ==
  \E k \in 1 .. Count : \E v, e, s, i \in Nat : Inside(k, v, e, s, i)

Between == \E k \in 1 .. Count + 1 : pos = StartOf(k) /\ records = ShownTo(k - 1)

\* A record without data has been taken although its VIFEs are cut off.
CutShort ==
  /\ pos = Len(data)
  /\ \E k \in 1 .. Count : \E x :
       /\ StartOf(k) <= pos /\ pos < StartOf(k + 1)
       /\ records = Append(ShownTo(k - 1), x)
       /\ x.value.k = "none"

RecordsIInv ==
  /\ ParserIInv
  /\ Sending
  /\ Before2064(telegram)
  /\ step \in {"ci", "header"} => records = <<>>
  /\ step \notin {"ci", "error", "unsupported"} => Len(data) >= 13
  /\ step = "error" => Len(data) < 13
  /\ step = "record" => Between \/ CutShort
  /\ step \in {"dife", "fd", "fb", "vife"} => InsideSome
  /\ RecordsComplete

\* What there is where the parser is.
LEMMA HereIs ==
  ASSUME Items, NEW k \in 1 .. Count, NEW i \in Nat, i < Len(BytesOf(k)), pos = StartOf(k) + i, Left
  PROVE  Here = BytesOf(k)[i + 1]
<1>1. k \in 1 .. Count + 1 /\ Count \in Nat
  BY DEF Items
<1>2. PICK j : j = i + 1
  OBVIOUS
<1>3. StartOf(k) \in Nat /\ Len(BytesOf(k)) \in Nat /\ Len(data) \in Nat
  BY <1>1 DEF Items
<1>4. j \in 1 .. Len(BytesOf(k)) /\ StartOf(k) + j <= Len(data) /\ pos + 1 = StartOf(k) + j
  BY <1>2, <1>3 DEF Left
<1>5. data[StartOf(k) + j] = BytesOf(k)[j]
  BY <1>4 DEF Items
<1> QED
  BY <1>2, <1>4, <1>5 DEF Here

\* What is meant when the data ends in the item k.
LEMMA MeantInside ==
  ASSUME Items, NEW k \in 1 .. Count, StartOf(k) <= Len(data), Len(data) < StartOf(k + 1)
  PROVE  Meant = ShownTo(k - 1)
<1>1. Count \in Nat /\ k + 1 \in 1 .. Count + 1 /\ Len(data) \in Nat
  BY DEF Items
<1>2. PICK n : n = k - 1
  OBVIOUS
<1>3. n \in 0 .. Count /\ n + 1 = k /\ n + 2 = k + 1
  BY <1>1, <1>2
<1>4. StartOf(n + 1) <= Len(data) /\ StartOf(n + 2) > Len(data)
  BY <1>1, <1>3 DEF Items
<1>5. Meant = ShownTo(n)
  BY <1>3, <1>4, MeantIs
<1> QED
  BY <1>2, <1>5

\* The bytes of a record: DIF and DIFEs, VIF and VIFEs, and the value.
Shaped(b, v, e, s) ==
  /\ v \in 2 .. e /\ e \in 2 .. Len(b) /\ s \in e .. e + 1
  /\ s <= Len(b) /\ Len(b) \in Nat
  /\ \A i \in 1 .. v - 1 : More(b[i]) <=> i < v - 1
  /\ \A i \in v .. e : More(b[i]) <=> i < e
  /\ \A i \in 1 .. Len(b) : b[i] \in Octet
  /\ (b[v] = 253 \/ b[v] = 251) => v < e

\* A record has this shape.
LEMMA ShapeBytes ==
  ASSUME Items, NEW k \in 1 .. Count, NEW v, NEW e, NEW s, Shape(k, v, e, s)
  PROVE  Shaped(BytesOf(k), v, e, s)
<1> DEFINE b == BytesOf(k)
<1>1. b \in Seq(Octet) /\ Len(b) \in Nat
  BY DEF Items
<1>2. /\ e \in 1 .. Len(b) /\ s \in 1 .. Len(b) /\ v \in 2 .. e
      /\ \A i \in 1 .. v - 1 : More(b[i]) <=> i < v - 1
      /\ \A i \in v .. e : More(b[i]) <=> i < e
      /\ s = e \/ s = e + 1
  BY DEF Shape, RecordSent, Chain
<1> HIDE DEF b
<1>3. v \in 2 .. e /\ e \in 2 .. Len(b) /\ s \in e .. e + 1 /\ s <= Len(b)
  BY <1>1, <1>2
<1>4. \A i \in 1 .. Len(b) : b[i] \in Octet
  BY <1>1
<1>5. b[v] = 253 \/ b[v] = 251 => v < e
  <2>1. v \in v .. e
    BY <1>3
  <2> QED
    BY <1>2, <2>1 DEF More
<1> QED
  BY <1>1, <1>2, <1>3, <1>4, <1>5 DEF b, Shaped
-----------------------------------------------------------------------------
(* The steps that begin a record, or skip what is none.                    *)

\* Which item is next, and what it is.
LEMMA NextItem ==
  ASSUME Sending, Items, NEW k \in 1 .. Count + 1, pos = StartOf(k), Left
  PROVE  /\ k \in 1 .. Count
         /\ Here = BytesOf(k)[1]
         /\ Here = 47 => telegram.items[k].bytes = <<47>> /\ telegram.items[k].shows = <<>>
         /\ Here \in {15, 31} => k = Count /\ telegram.items[k].shows = <<>>
         /\ Here \notin {15, 31, 47} =>
              \E v, e, s \in Nat : Shape(k, v, e, s)
<1>1. Count \in Nat /\ Len(data) \in Nat /\ Len(data) <= StartOf(Count + 1)
  BY DEF Items
<1>2. k \in 1 .. Count
  <2> SUFFICES ASSUME k = Count + 1 PROVE FALSE
    BY <1>1
  <2>1. StartOf(k) \in Nat
    BY DEF Items
  <2> QED
    BY <1>1, <2>1 DEF Left
<1>3. Len(BytesOf(k)) \in Nat \ {0} /\ StartOf(k) \in Nat /\ k \in 1 .. Count + 1
  BY <1>2 DEF Items
<1>4. Here = BytesOf(k)[1]
  <2>1. 0 \in Nat /\ 0 < Len(BytesOf(k)) /\ pos = StartOf(k) + 0 /\ 0 + 1 = 1
    BY <1>3
  <2>2. Here = BytesOf(k)[0 + 1]
    BY <1>2, <2>1, HereIs
  <2> QED
    BY <2>1, <2>2
<1>5. ItemSent(telegram.items[k]) \/ (k = Count /\ MarkSent(telegram.items[k]))
  BY <1>2, ItemTypes
<1> DEFINE b == telegram.items[k].bytes
           sh == telegram.items[k].shows
<1>6. b = BytesOf(k)
  BY DEF BytesOf
<1>7. \/ b = <<47>> /\ sh = <<>>
      \/ Len(sh) = 1 /\ \E e, s \in 1 .. Len(b) : \E v \in 2 .. e : RecordSent(b, sh[1], v, e, s)
      \/ k = Count /\ b[1] \in {15, 31} /\ sh = <<>>
  BY <1>5 DEF ItemSent, MarkSent
<1>8. CASE b = <<47>> /\ sh = <<>>
  <2>1. b[1] = 47
    BY <1>8
  <2> QED
    BY <1>2, <1>4, <1>6, <1>8, <2>1
<1>9. CASE Len(sh) = 1 /\ \E e, s \in 1 .. Len(b) : \E v \in 2 .. e : RecordSent(b, sh[1], v, e, s)
  <2>1. PICK e, s \in 1 .. Len(b) : \E v \in 2 .. e : RecordSent(b, sh[1], v, e, s)
    BY <1>9
  <2>2. PICK v \in 2 .. e : RecordSent(b, sh[1], v, e, s)
    BY <2>1
  <2>3. b[1] \notin {15, 31, 47}
    BY <2>2 DEF RecordSent
  <2>4. Shape(k, v, e, s)
    BY <1>9, <2>1, <2>2 DEF Shape, BytesOf, Shows
  <2>5. e \in Nat /\ s \in Nat /\ v \in Nat
    BY <1>3, <1>6, <2>1, <2>2
  <2> QED
    BY <1>2, <1>4, <1>6, <2>3, <2>4, <2>5
<1>10. CASE k = Count /\ b[1] \in {15, 31} /\ sh = <<>>
  <2>1. Here \in {15, 31}
    BY <1>4, <1>6, <1>10
  <2> HIDE DEF b
  <2> QED
    BY <1>2, <1>4, <1>10, <2>1
<1> QED
  BY <1>7, <1>8, <1>9, <1>10

\* A filler stands for nothing.
LEMMA FillerKeeps ==
  ASSUME Sending, Items, Between, Filler
  PROVE  Between'
<1>1. PICK k \in 1 .. Count + 1 : pos = StartOf(k) /\ records = ShownTo(k - 1)
  BY DEF Between
<1>2. /\ k \in 1 .. Count
      /\ telegram.items[k].bytes = <<47>> /\ telegram.items[k].shows = <<>>
  BY <1>1, NextItem DEF Filler
<1>3. Count \in Nat /\ StartOf(k) \in Nat /\ StartOf(k + 1) = StartOf(k) + Len(BytesOf(k))
  BY <1>1, <1>2 DEF Items
<1>4. StartOf(k + 1) = pos'
  BY <1>1, <1>2, <1>3 DEF BytesOf, Filler
<1>5. ShownTo(k) = ShownTo(k - 1)
  <2>1. /\ ShownTo(k) = ShownTo(k - 1) \o telegram.items[k].shows
        /\ \A n \in 0 .. Count : ShownTo(n) \in Seq(ShownRecord)
    BY <1>2, <1>3, ShownNext
  <2>2. k - 1 \in 0 .. Count
    BY <1>2, <1>3
  <2>3. ShownTo(k - 1) \o <<>> = ShownTo(k - 1)
    BY <2>1, <2>2, ConcatEmptySeq
  <2> QED
    BY <1>2, <2>1, <2>3
<1>6. PICK m : m = k + 1
  OBVIOUS
<1>7. m \in 1 .. Count + 1 /\ m - 1 = k
  BY <1>2, <1>3, <1>6
<1>8. pos' = StartOf(m) /\ records' = ShownTo(m - 1)
  BY <1>1, <1>4, <1>5, <1>6, <1>7 DEF Filler
<1>9. telegram' = telegram
  BY DEF Filler
<1> QED
  BY <1>7, <1>8, <1>9 DEF Between, Count, StartOf, Offsets, Parts, BytesOf, ShownTo

\* At the end, what is meant has been shown.
LEMMA EndMarkShows ==
  ASSUME Sending, Items, Between \/ CutShort, EndMark, pos \in 0 .. Len(data)
  PROVE  \/ records = Meant
         \/ /\ records # <<>>
            /\ Front(records) = Meant
            /\ Last(records).value.k = "none"
<1>0. Count \in Nat /\ Len(data) \in Nat /\ Len(data) <= StartOf(Count + 1)
  BY DEF Items
<1>1. CASE Between
  <2>1. PICK k \in 1 .. Count + 1 : pos = StartOf(k) /\ records = ShownTo(k - 1)
    BY <1>1 DEF Between
  <2>2. CASE Left
    <3>1. k = Count /\ k \in 1 .. Count /\ telegram.items[k].shows = <<>>
      BY <2>1, <2>2, NextItem DEF EndMark
    <3>2. /\ ShownTo(k) = ShownTo(k - 1) \o telegram.items[k].shows
          /\ \A n \in 0 .. Count : ShownTo(n) \in Seq(ShownRecord)
      BY <1>0, <3>1, ShownNext
    <3>3. k - 1 \in 0 .. Count
      BY <1>0, <3>1
    <3>4. ShownTo(k - 1) \o <<>> = ShownTo(k - 1)
      BY <3>2, <3>3, ConcatEmptySeq
    <3>5. ShownTo(k) = records
      BY <2>1, <3>1, <3>2, <3>4
    <3>6. CASE StartOf(k + 1) <= Len(data)
      <4>1. k \in 0 .. Count /\ (k # Count => StartOf(k + 2) > Len(data))
        BY <1>0, <3>1
      <4>2. Meant = ShownTo(k)
        BY <3>6, <4>1, MeantIs
      <4> QED
        BY <3>5, <4>2
    <3>7. CASE ~(StartOf(k + 1) <= Len(data))
      <4>1. StartOf(k) <= Len(data) /\ Len(data) < StartOf(k + 1)
        <5>1. StartOf(k + 1) \in Nat
          BY <1>0, <3>1 DEF Items
        <5> QED
          BY <1>0, <2>1, <3>7, <5>1
      <4>2. Meant = ShownTo(k - 1)
        BY <3>1, <4>1, MeantInside
      <4> QED
        BY <2>1, <4>2
    <3> QED
      BY <3>6, <3>7
  <2>3. CASE ~Left
    <3>1. pos = Len(data)
      BY <1>0, <2>3 DEF Left
    <3>2. CASE k = Count + 1
      <4>1. PICK n : n = k - 1
        OBVIOUS
      <4>2. n \in 0 .. Count /\ n = Count /\ n + 1 = k /\ StartOf(n + 1) <= Len(data)
        <5>1. n \in 0 .. Count /\ n = Count /\ n + 1 = k
          BY <1>0, <3>2, <4>1
        <5>2. StartOf(k) <= Len(data)
          BY <1>0, <2>1, <3>1
        <5> QED
          BY <5>1, <5>2
      <4>3. Meant = ShownTo(n)
        BY <4>2, MeantIs
      <4> QED
        BY <2>1, <4>1, <4>3
    <3>3. CASE k \in 1 .. Count
      <4>1. StartOf(k) <= Len(data) /\ Len(data) < StartOf(k + 1)
        <5>1. k \in 1 .. Count + 1 /\ k + 1 \in 1 .. Count + 1 /\ k + 1 \in k + 1 .. Count + 1
          BY <1>0, <3>3
        <5>2. StartOf(k) < StartOf(k + 1) /\ StartOf(k) \in Nat
          BY <5>1 DEF Items
        <5> QED
          BY <2>1, <3>1, <5>2
      <4>2. Meant = ShownTo(k - 1)
        BY <3>3, <4>1, MeantInside
      <4> QED
        BY <2>1, <4>2
    <3> QED
      BY <1>0, <3>2, <3>3
  <2> QED
    BY <2>2, <2>3
<1>2. CASE CutShort
  <2>1. PICK k \in 1 .. Count : \E x :
          /\ StartOf(k) <= pos /\ pos < StartOf(k + 1)
          /\ records = Append(ShownTo(k - 1), x)
          /\ x.value.k = "none"
    BY <1>2 DEF CutShort
  <2>2. PICK x : /\ StartOf(k) <= pos /\ pos < StartOf(k + 1)
                 /\ records = Append(ShownTo(k - 1), x)
                 /\ x.value.k = "none"
    BY <2>1
  <2>3. pos = Len(data)
    BY <1>2 DEF CutShort
  <2>4. Meant = ShownTo(k - 1)
    BY <2>2, <2>3, MeantInside
  <2>5. ShownTo(k - 1) \in Seq(ShownRecord)
    <3>1. k - 1 \in 0 .. Count
      BY <1>0
    <3> QED
      BY <1>0, <3>1, ShownNext
  <2>6. records # <<>> /\ Front(records) = ShownTo(k - 1) /\ Last(records) = x
    BY <2>2, <2>5, FrontOfAppend
  <2> QED
    BY <2>2, <2>4, <2>6
<1> QED
  BY <1>1, <1>2
-----------------------------------------------------------------------------
(* The steps inside a record.                                              *)

\* The telegram does not change.
LEMMA TelegramKept ==
  ASSUME telegram' = telegram, data' = data
  PROVE  /\ Count' = Count /\ Items' = Items /\ Sending' = Sending /\ Meant' = Meant
         /\ \A k : /\ StartOf(k)' = StartOf(k) /\ BytesOf(k)' = BytesOf(k)
                   /\ ShownTo(k)' = ShownTo(k) /\ Shows(k)' = Shows(k)
         /\ \A k, v, e, s : Shape(k, v, e, s)' = Shape(k, v, e, s)
BY DEF Count, Items, Sending, Meant, StartOf, Offsets, Parts, BytesOf, ShownTo, Shows, Shape

\* The digits of the numbers are digits.
LEMMA DigitsCount ==
  ASSUME NEW b, NEW v \in Nat, v >= 2, \A i \in 1 .. v - 1 : b[i] \in Octet
  PROVE  /\ v - 2 \in Nat
         /\ \A i \in 1 .. v - 2 : /\ StorageDigits(b, v)[i] = (b[i + 1] \div 2) % 16
                                  /\ StorageDigits(b, v)[i] \in Nat
                                  /\ TariffDigits(b, v)[i] = (b[i + 1] \div 32) % 4
                                  /\ TariffDigits(b, v)[i] \in Nat
<1> SUFFICES ASSUME NEW i \in 1 .. v - 2
             PROVE  /\ StorageDigits(b, v)[i] = (b[i + 1] \div 2) % 16
                    /\ StorageDigits(b, v)[i] \in Nat
                    /\ TariffDigits(b, v)[i] = (b[i + 1] \div 32) % 4
                    /\ TariffDigits(b, v)[i] \in Nat
  OBVIOUS
<1>1. PICK o \in 0 .. 255 : o = b[i + 1]
  <2>1. i + 1 \in 1 .. v - 1
    OBVIOUS
  <2> QED
    BY <2>1 DEF Octet
<1>2. (o \div 2) % 16 \in Nat /\ (o \div 32) % 4 \in Nat
  OBVIOUS
<1> QED
  BY <1>1, <1>2 DEF StorageDigits, TariffDigits

\* The DIF begins a record, and nothing of its numbers is lost.
LEMMA DifBegins ==
  ASSUME ParserIInv, Sending, Items, Between, Dif
  PROVE  InsideSome'
<1>1. PICK k \in 1 .. Count + 1 : pos = StartOf(k) /\ records = ShownTo(k - 1)
  BY DEF Between
<1>2. k \in 1 .. Count /\ Here = BytesOf(k)[1]
  BY <1>1, NextItem DEF Dif
<1>3. PICK v, e, s \in Nat : Shape(k, v, e, s)
  BY <1>1, NextItem DEF Dif
<1> DEFINE b == BytesOf(k)
<1>4. /\ v \in 2 .. e /\ e \in 2 .. Len(b) /\ Len(b) \in Nat
      /\ \A i \in 1 .. Len(b) : b[i] \in Octet
  BY <1>2, <1>3, ShapeBytes DEF Shaped
<1>5. RecordSent(b, Shows(k), v, e, s)
  BY <1>3 DEF Shape
<1>6. PICK n \in Nat : n = v - 2
  BY <1>4
<1>7. /\ \A i \in 1 .. n : /\ StorageDigits(b, v)[i] = (b[i + 1] \div 2) % 16
                           /\ StorageDigits(b, v)[i] \in Nat
                           /\ TariffDigits(b, v)[i] = (b[i + 1] \div 32) % 4
                           /\ TariffDigits(b, v)[i] \in Nat
  <2>1. \A i \in 1 .. v - 1 : b[i] \in Octet
    BY <1>4
  <2>2. v >= 2
    BY <1>4
  <2> HIDE DEF b
  <2> QED
    BY <1>6, <2>1, <2>2, DigitsCount
<1> HIDE DEF b
<1>8. PICK sf : /\ Counts(sf, StorageDigits(b, v), 16, n)
                /\ Number(StorageDigits(b, v), 16, n) = sf[1]
  <2>1. PICK d : d = StorageDigits(b, v)
    OBVIOUS
  <2>2. \A i \in 1 .. n : d[i] \in Nat
    BY <1>7, <2>1
  <2>3. 16 \in Nat /\ n \in Nat
    OBVIOUS
  <2>4. IsNumber(Number(d, 16, n), d, 16, n)
    BY <2>2, <2>3, NumberCounts
  <2> QED
    BY <2>1, <2>4 DEF IsNumber
<1>9. PICK tf : /\ Counts(tf, TariffDigits(b, v), 4, n)
                /\ Number(TariffDigits(b, v), 4, n) = tf[1]
  <2>1. PICK d : d = TariffDigits(b, v)
    OBVIOUS
  <2>2. \A i \in 1 .. n : d[i] \in Nat
    BY <1>7, <2>1
  <2>3. 4 \in Nat /\ n \in Nat
    OBVIOUS
  <2>4. IsNumber(Number(d, 4, n), d, 4, n)
    BY <2>2, <2>3, NumberCounts
  <2> QED
    BY <2>1, <2>4 DEF IsNumber
<1>10. sf[1] \in Nat /\ tf[1] \in Nat
  <2>1. 1 \in 1 .. n + 1
    OBVIOUS
  <2> QED
    BY <1>8, <1>9, <2>1 DEF Counts
<1>11. /\ rec'.fn = (Here \div 16) % 4 /\ rec'.df = Here % 16
       /\ rec'.storage = (Here \div 64) % 2 /\ rec'.tariff = 0
       /\ rec'.sweight = 2 /\ rec'.tweight = 1
       /\ cur' = Here /\ pos' = pos + 1 /\ step' = "dife"
       /\ records' = records /\ telegram' = telegram /\ data' = data
  BY DEF Dif, EmptyRecord
<1>12. /\ Shows(k).fn = (b[1] \div 16) % 4
       /\ Shows(k).storage = (((b[1] \div 64) % 2) + 2 * sf[1]) % StorageMod
       /\ Shows(k).tariff = tf[1] % TariffMod
  BY <1>5, <1>6, <1>8, <1>9 DEF RecordSent, StorageDigits, TariffDigits
<1>13. (rec'.storage + rec'.sweight * sf[1]) % StorageMod = Shows(k).storage
  BY <1>2, <1>11, <1>12 DEF b
<1>14. (rec'.tariff + rec'.tweight * tf[1]) % TariffMod = Shows(k).tariff
  <2>1. 0 + 1 * tf[1] = tf[1]
    BY <1>10
  <2> QED
    BY <1>11, <1>12, <2>1
<1>15. 1 \in 1 .. v - 1
  BY <1>4
<1>16. InDifes(k, v, 1)'
  <2>1. cur' = BytesOf(k)'[1] /\ BytesOf(k)' = b /\ Shows(k)' = Shows(k)
    BY <1>2, <1>11, TelegramKept DEF b
  <2> QED
    BY <1>6, <1>8, <1>9, <1>13, <1>14, <1>15, <2>1 DEF InDifes
<1>17. Inside(k, v, e, s, 1)'
  <2>1. /\ Shape(k, v, e, s)' /\ BytesOf(k)' = b /\ Shows(k)' = Shows(k)
        /\ pos' = StartOf(k)' + 1 /\ ShownTo(k - 1)' = ShownTo(k - 1)
    BY <1>1, <1>3, <1>11, TelegramKept DEF b
  <2>2. rec'.fn = Shows(k)'.fn /\ rec'.df = BytesOf(k)'[1] % 16
    BY <1>2, <1>11, <1>12, <2>1 DEF b
  <2> QED
    BY <1>1, <1>11, <1>16, <2>1, <2>2 DEF Inside
<1>18. Count' = Count
  BY <1>11, TelegramKept
<1>19. k \in 1 .. Count' /\ v \in Nat /\ e \in Nat /\ s \in Nat /\ 1 \in Nat
  BY <1>2, <1>18
<1> QED
  BY <1>17, <1>19 DEF InsideSome

\* What is known inside a record, whatever the step.
LEMMA InsideHere ==
  ASSUME Items, NEW k \in 1 .. Count, NEW v \in Nat, NEW e \in Nat, NEW s \in Nat, NEW i \in Nat,
         Inside(k, v, e, s, i)
  PROVE  /\ Shaped(BytesOf(k), v, e, s)
         /\ i < Len(BytesOf(k)) /\ Left => Here = BytesOf(k)[i + 1]
<1>1. Shape(k, v, e, s) /\ pos = StartOf(k) + i
  BY DEF Inside
<1>2. i < Len(BytesOf(k)) /\ Left => Here = BytesOf(k)[i + 1]
  BY <1>1, HereIs
<1> QED
  BY <1>1, <1>2, ShapeBytes

\* A DIFE adds its digits.
LEMMA DifeKeeps ==
  ASSUME ParserIInv, Items, NEW k \in 1 .. Count,
         NEW v \in Nat, NEW e \in Nat, NEW s \in Nat, NEW i \in Nat,
         Inside(k, v, e, s, i), Dife
  PROVE  Inside(k, v, e, s, i + 1)'
<1> DEFINE b == BytesOf(k)
<1>1. /\ v \in 2 .. e /\ e \in 2 .. Len(b) /\ Len(b) \in Nat
      /\ \A j \in 1 .. v - 1 : More(b[j]) <=> j < v - 1
      /\ \A j \in 1 .. Len(b) : b[j] \in Octet
      /\ i < Len(b) /\ Left => Here = b[i + 1]
  BY InsideHere DEF Shaped
<1> HIDE DEF b
<1>2. InDifes(k, v, i) /\ pos = StartOf(k) + i /\ records = ShownTo(k - 1)
      /\ Shape(k, v, e, s) /\ rec.fn = Shows(k).fn /\ rec.df = b[1] % 16
  BY DEF Inside, Dife, b
<1>3. i \in 1 .. v - 1 /\ cur = b[i]
  BY <1>2 DEF InDifes, b
<1>4. i < v - 1
  BY <1>1, <1>3 DEF Dife
<1>5. PICK m \in Nat : m = i + 1
  OBVIOUS
<1>6. m \in 1 .. v - 1 /\ Here = b[m] /\ Here \in Octet
  BY <1>1, <1>3, <1>4, <1>5 DEF Dife
<1>7. PICK n \in Nat : n = v - 2
  BY <1>1
<1>8. i \in 1 .. n /\ m \in 1 .. n + 1 /\ i \in 1 .. v - 2
  BY <1>3, <1>4, <1>5, <1>7
<1>9. /\ DOMAIN rec = Fields /\ StorageMod \in Nat \ {0} /\ TariffMod \in Nat \ {0}
      /\ rec.storage \in Nat /\ rec.sweight \in Nat /\ rec.tariff \in Nat /\ rec.tweight \in Nat
  BY ParserAssumption DEF ParserIInv, RecordOK
<1>10. /\ rec' = [rec EXCEPT !.storage = AddStorage(rec, Here),
                             !.sweight = (16 * @) % StorageMod,
                             !.tariff = AddTariff(rec, Here),
                             !.tweight = (4 * @) % TariffMod]
       /\ cur' = Here /\ pos' = pos + 1 /\ step' = step /\ step = "dife"
       /\ records' = records /\ telegram' = telegram /\ data' = data
  BY DEF Dife
<1>11. /\ rec'.storage = AddStorage(rec, Here) /\ rec'.sweight = (16 * rec.sweight) % StorageMod
       /\ rec'.tariff = AddTariff(rec, Here) /\ rec'.tweight = (4 * rec.tweight) % TariffMod
       /\ rec'.fn = rec.fn /\ rec'.df = rec.df
  BY <1>9, <1>10 DEF Fields
<1>12. /\ StorageDigits(b, v)[i] = (Here \div 2) % 16
       /\ TariffDigits(b, v)[i] = (Here \div 32) % 4
  BY <1>5, <1>6, <1>8 DEF StorageDigits, TariffDigits
<1>13. PICK ds \in Nat : ds = (Here \div 2) % 16
  BY <1>6 DEF Octet
<1>14. PICK dt \in Nat : dt = (Here \div 32) % 4
  BY <1>6 DEF Octet
<1>15. PICK sf : /\ Counts(sf, StorageDigits(b, v), 16, n)
                 /\ (rec.storage + rec.sweight * sf[i]) % StorageMod = Shows(k).storage
  BY <1>2, <1>7 DEF InDifes, b
<1>16. PICK tf : /\ Counts(tf, TariffDigits(b, v), 4, n)
                 /\ (rec.tariff + rec.tweight * tf[i]) % TariffMod = Shows(k).tariff
  BY <1>2, <1>7 DEF InDifes, b
<1>17. PICK rs \in Nat : rs = sf[m] /\ sf[i] = ds + 16 * rs
  BY SMTT(60), <1>5, <1>8, <1>12, <1>13, <1>15 DEF Counts
<1>18. PICK rt \in Nat : rt = tf[m] /\ tf[i] = dt + 4 * rt
  BY SMTT(60), <1>5, <1>8, <1>12, <1>14, <1>16 DEF Counts
<1>19. (rec'.storage + rec'.sweight * sf[m]) % StorageMod = Shows(k).storage
  <2>1. PICK a, w \in Nat : a = rec.storage /\ w = rec.sweight
    BY <1>9
  <2>2. SameRemainder(StorageMod, a, w, ds, 16, rs)
    BY <1>9, ModKeeps
  <2>3. rec'.storage = (a + ds * w) % StorageMod /\ rec'.sweight = (16 * w) % StorageMod
    BY <1>11, <1>13, <2>1 DEF AddStorage
  <2> QED
    BY <1>15, <1>17, <2>1, <2>2, <2>3 DEF SameRemainder
<1>20. (rec'.tariff + rec'.tweight * tf[m]) % TariffMod = Shows(k).tariff
  <2>1. PICK a, w \in Nat : a = rec.tariff /\ w = rec.tweight
    BY <1>9
  <2>2. SameRemainder(TariffMod, a, w, dt, 4, rt)
    BY <1>9, ModKeeps
  <2>3. rec'.tariff = (a + dt * w) % TariffMod /\ rec'.tweight = (4 * w) % TariffMod
    BY <1>11, <1>14, <2>1 DEF AddTariff
  <2> QED
    BY <1>16, <1>18, <2>1, <2>2, <2>3 DEF SameRemainder
<1>21. BytesOf(k)' = b /\ Shows(k)' = Shows(k) /\ Shape(k, v, e, s)'
       /\ StartOf(k)' = StartOf(k) /\ ShownTo(k - 1)' = ShownTo(k - 1)
  BY <1>2, <1>10, TelegramKept DEF b
<1>22. InDifes(k, v, m)'
  BY <1>6, <1>7, <1>10, <1>15, <1>16, <1>19, <1>20, <1>21 DEF InDifes
<1>23. pos' = StartOf(k)' + m
  <2>1. StartOf(k) \in Nat
    <3>1. k \in 1 .. Count + 1
      BY DEF Items
    <3> QED
      BY <3>1 DEF Items
  <2> QED
    BY <1>2, <1>5, <1>10, <1>21, <2>1
<1>24. Inside(k, v, e, s, m)'
  BY <1>2, <1>10, <1>11, <1>21, <1>22, <1>23 DEF Inside
<1> QED
  BY <1>5, <1>24

\* At the end of the DIFEs the numbers are what they are meant to be.
LEMMA NumbersAreRead ==
  ASSUME ParserIInv, NEW k, NEW v \in Nat, InDifes(k, v, v - 1), v >= 2
  PROVE  NumbersRead(k)
<1>1. PICK n \in Nat : n = v - 2
  OBVIOUS
<1>2. n + 1 = v - 1
  BY <1>1
<1>3. /\ rec.storage \in 0 .. StorageMod - 1 /\ rec.tariff \in 0 .. TariffMod - 1
      /\ rec.sweight \in Nat /\ rec.tweight \in Nat
      /\ StorageMod \in Nat \ {0} /\ TariffMod \in Nat \ {0}
  BY ParserAssumption DEF ParserIInv, RecordOK
<1>4. PICK sf : /\ Counts(sf, StorageDigits(BytesOf(k), v), 16, n)
                /\ (rec.storage + rec.sweight * sf[n + 1]) % StorageMod = Shows(k).storage
  BY <1>1, <1>2 DEF InDifes
<1>5. PICK tf : /\ Counts(tf, TariffDigits(BytesOf(k), v), 4, n)
                /\ (rec.tariff + rec.tweight * tf[n + 1]) % TariffMod = Shows(k).tariff
  BY <1>1, <1>2 DEF InDifes
<1>6. sf[n + 1] = 0 /\ tf[n + 1] = 0
  BY <1>4, <1>5 DEF Counts
<1>7. \A M \in Nat \ {0} : \A x \in 0 .. M - 1 : \A w \in Nat : (x + w * 0) % M = x
  <2> SUFFICES ASSUME NEW M \in Nat \ {0}, NEW x \in 0 .. M - 1, NEW w \in Nat
               PROVE  (x + w * 0) % M = x
    OBVIOUS
  <2>1. x + w * 0 = x /\ x = 0 * M + x /\ x \in Nat
    OBVIOUS
  <2> QED
    BY <2>1, ModUnique
<1> QED
  BY SMTT(60), <1>3, <1>4, <1>5, <1>6, <1>7 DEF NumbersRead

\* The VIF says which table is next, or what it means.
LEMMA VifKeeps ==
  ASSUME ParserIInv, Items, NEW k \in 1 .. Count,
         NEW v \in Nat, NEW e \in Nat, NEW s \in Nat, NEW i \in Nat,
         Inside(k, v, e, s, i), Vif
  PROVE  Inside(k, v, e, s, i + 1)'
<1> DEFINE b == BytesOf(k)
<1>1. /\ v \in 2 .. e /\ e \in 2 .. Len(b) /\ Len(b) \in Nat
      /\ \A j \in 1 .. v - 1 : More(b[j]) <=> j < v - 1
      /\ i < Len(b) /\ Left => Here = b[i + 1]
  BY InsideHere DEF Shaped
<1> HIDE DEF b
<1>2. /\ InDifes(k, v, i) /\ pos = StartOf(k) + i /\ records = ShownTo(k - 1)
      /\ Shape(k, v, e, s) /\ rec.fn = Shows(k).fn /\ rec.df = b[1] % 16
  BY DEF Inside, Vif, b
<1>3. i \in 1 .. v - 1 /\ cur = b[i]
  BY <1>2 DEF InDifes, b
<1>4. i = v - 1
  BY <1>1, <1>3 DEF Vif
<1>5. i + 1 = v /\ Here = b[v]
  BY <1>1, <1>4 DEF Vif
<1>6. NumbersRead(k)
  BY <1>1, <1>2, <1>4, NumbersAreRead
<1>7. DOMAIN rec = Fields
  BY DEF ParserIInv, RecordOK
<1>8. /\ rec' = [rec EXCEPT !.vi = decodeVIF(Here)]
      /\ cur' = Here /\ pos' = pos + 1 /\ records' = records
      /\ telegram' = telegram /\ data' = data
      /\ step' = CASE Here = 253 -> "fd" [] Here = 251 -> "fb" [] OTHER -> "vife"
  BY DEF Vif
<1>9. /\ rec'.vi = decodeVIF(b[v]) /\ rec'.fn = rec.fn /\ rec'.df = rec.df
      /\ rec'.storage = rec.storage /\ rec'.tariff = rec.tariff
  BY <1>5, <1>7, <1>8 DEF Fields
<1>10. /\ BytesOf(k)' = b /\ Shows(k)' = Shows(k) /\ Shape(k, v, e, s)'
       /\ StartOf(k)' = StartOf(k) /\ ShownTo(k - 1)' = ShownTo(k - 1)
  BY <1>2, <1>8, TelegramKept DEF b
<1>11. NumbersRead(k)'
  BY <1>6, <1>9, <1>10 DEF NumbersRead
<1>12. step' \in {"fd", "fb"} => AtSecondVif(k, v, v)'
  BY <1>5, <1>8, <1>10, <1>11 DEF AtSecondVif
<1>13. step' = "vife" => InVifes(k, v, e, v)'
  <2>1. v \in v .. e
    BY <1>1
  <2>2. ASSUME step' = "vife" PROVE rec'.vi = VibMeans(b, v)
    <3>1. b[v] # 253 /\ b[v] # 251
      BY <1>5, <1>8, <2>2
    <3> QED
      BY <1>9, <3>1 DEF VibMeans
  <2> QED
    BY <1>5, <1>8, <1>10, <1>11, <2>1, <2>2 DEF InVifes
<1>14. step' # "dife"
  BY <1>8
<1>15. pos' = StartOf(k)' + v
  <2>1. StartOf(k) \in Nat
    <3>1. k \in 1 .. Count + 1
      BY DEF Items
    <3> QED
      BY <3>1 DEF Items
  <2> QED
    BY <1>2, <1>5, <1>8, <1>10, <2>1
<1>16. Inside(k, v, e, s, v)'
  BY <1>2, <1>8, <1>9, <1>10, <1>12, <1>13, <1>14, <1>15 DEF Inside
<1> QED
  BY <1>5, <1>16

\* What the byte behind FD or FB means.
LEMMA SecondVifKeeps ==
  ASSUME ParserIInv, Items, NEW k \in 1 .. Count,
         NEW v \in Nat, NEW e \in Nat, NEW s \in Nat, NEW i \in Nat,
         Inside(k, v, e, s, i), SecondVif
  PROVE  Inside(k, v, e, s, i + 1)'
<1> DEFINE b == BytesOf(k)
<1>1. /\ v \in 2 .. e /\ e \in 2 .. Len(b) /\ Len(b) \in Nat
      /\ (b[v] = 253 \/ b[v] = 251) => v < e
      /\ i < Len(b) /\ Left => Here = b[i + 1]
  BY InsideHere DEF Shaped
<1> HIDE DEF b
<1>2. /\ AtSecondVif(k, v, i) /\ pos = StartOf(k) + i /\ records = ShownTo(k - 1)
      /\ Shape(k, v, e, s) /\ rec.fn = Shows(k).fn /\ rec.df = b[1] % 16
  BY DEF Inside, SecondVif, b
<1>3. NumbersRead(k) /\ i = v /\ b[v] = IF step = "fd" THEN 253 ELSE 251
  BY <1>2 DEF AtSecondVif, b
<1>4. PICK m \in Nat : m = v + 1
  OBVIOUS
<1>5. m \in v .. e /\ Here = b[v + 1] /\ i + 1 = m
  BY <1>1, <1>3, <1>4 DEF SecondVif
<1>6. DOMAIN rec = Fields
  BY DEF ParserIInv, RecordOK
<1>7. /\ rec' = [rec EXCEPT !.vi = IF step = "fd" THEN decodeFDVIFE(Here) ELSE decodeFBVIFE(Here)]
      /\ cur' = Here /\ pos' = pos + 1 /\ step' = "vife" /\ records' = records
      /\ telegram' = telegram /\ data' = data
  BY DEF SecondVif
<1>8. /\ rec'.vi = VibMeans(b, v) /\ rec'.fn = rec.fn /\ rec'.df = rec.df
      /\ rec'.storage = rec.storage /\ rec'.tariff = rec.tariff
  BY <1>3, <1>5, <1>6, <1>7 DEF Fields, VibMeans
<1>9. /\ BytesOf(k)' = b /\ Shows(k)' = Shows(k) /\ Shape(k, v, e, s)'
      /\ StartOf(k)' = StartOf(k) /\ ShownTo(k - 1)' = ShownTo(k - 1)
  BY <1>2, <1>7, TelegramKept DEF b
<1>10. InVifes(k, v, e, m)'
  BY <1>3, <1>4, <1>5, <1>7, <1>8, <1>9 DEF InVifes, NumbersRead
<1>11. pos' = StartOf(k)' + m
  <2>1. StartOf(k) \in Nat
    <3>1. k \in 1 .. Count + 1
      BY DEF Items
    <3> QED
      BY <3>1 DEF Items
  <2> QED
    BY <1>2, <1>3, <1>4, <1>7, <1>9, <2>1
<1>12. Inside(k, v, e, s, m)'
  BY <1>2, <1>7, <1>8, <1>9, <1>10, <1>11 DEF Inside
<1> QED
  BY <1>5, <1>12

\* A VIFE is skipped.
LEMMA VifeKeeps ==
  ASSUME ParserIInv, Items, NEW k \in 1 .. Count,
         NEW v \in Nat, NEW e \in Nat, NEW s \in Nat, NEW i \in Nat,
         Inside(k, v, e, s, i), Vife
  PROVE  Inside(k, v, e, s, i + 1)'
<1> DEFINE b == BytesOf(k)
<1>1. /\ v \in 2 .. e /\ e \in 2 .. Len(b) /\ Len(b) \in Nat
      /\ \A j \in v .. e : More(b[j]) <=> j < e
      /\ i < Len(b) /\ Left => Here = b[i + 1]
  BY InsideHere DEF Shaped
<1> HIDE DEF b
<1>2. /\ InVifes(k, v, e, i) /\ pos = StartOf(k) + i /\ records = ShownTo(k - 1)
      /\ Shape(k, v, e, s) /\ rec.fn = Shows(k).fn /\ rec.df = b[1] % 16
  BY DEF Inside, Vife, b
<1>3. NumbersRead(k) /\ i \in v .. e /\ cur = b[i] /\ rec.vi = VibMeans(b, v)
  BY <1>2 DEF InVifes, b
<1>4. PICK m \in Nat : m = i + 1
  OBVIOUS
<1>5. m \in v .. e /\ Here = b[m]
  BY <1>1, <1>3, <1>4 DEF Vife
<1>6. /\ cur' = Here /\ pos' = pos + 1 /\ step' = "vife" /\ records' = records /\ rec' = rec
      /\ telegram' = telegram /\ data' = data
  BY DEF Vife
<1>7. /\ BytesOf(k)' = b /\ Shows(k)' = Shows(k) /\ Shape(k, v, e, s)'
      /\ StartOf(k)' = StartOf(k) /\ ShownTo(k - 1)' = ShownTo(k - 1)
  BY <1>2, <1>6, TelegramKept DEF b
<1>8. InVifes(k, v, e, m)'
  BY <1>3, <1>5, <1>6, <1>7 DEF InVifes, NumbersRead
<1>9. pos' = StartOf(k)' + m
  <2>1. StartOf(k) \in Nat
    <3>1. k \in 1 .. Count + 1
      BY DEF Items
    <3> QED
      BY <3>1 DEF Items
  <2> QED
    BY <1>2, <1>4, <1>6, <1>7, <2>1
<1>10. Inside(k, v, e, s, m)'
  BY <1>2, <1>6, <1>7, <1>8, <1>9 DEF Inside
<1> QED
  BY <1>4, <1>10

\* The same bytes, taken from the data and from the item.
LEMMA SameBytes ==
  ASSUME NEW S, NEW d \in Seq(S), NEW b \in Seq(S), NEW o \in Nat, NEW s \in 0 .. Len(b),
         o + Len(b) <= Len(d), \A j \in 1 .. Len(b) : d[o + j] = b[j]
  PROVE  SubSeq(d, o + s + 1, o + Len(b)) = SubSeq(b, s + 1, Len(b))
<1>1. PICK n, len \in Nat : n = Len(b) /\ len = n - s
  OBVIOUS
<1>2. PICK x, y : x = SubSeq(d, o + s + 1, o + n) /\ y = SubSeq(b, s + 1, n)
  OBVIOUS
<1>3. /\ o + s + 1 \in 1 .. Len(d) + 1 /\ o + n \in 0 .. Len(d) /\ o + n - (o + s + 1) + 1 = len
      /\ s + 1 \in 1 .. Len(b) + 1 /\ n \in 0 .. Len(b) /\ n - (s + 1) + 1 = len
  BY SMTT(60), <1>1
<1>4. x \in Seq(S) /\ Len(x) = len /\ \A j \in 1 .. len : x[j] = d[o + s + j]
  <2>1. PICK f, l \in Int : f = o + s + 1 /\ l = o + n
    OBVIOUS
  <2>2. x = SubSeq(d, f, l) /\ f \in 1 .. Len(d) + 1 /\ l \in 0 .. Len(d) /\ l - f + 1 = len
        /\ f <= l + 1
    BY <1>1, <1>2, <1>3, <2>1
  <2>3. \A j \in f .. l : d[j] \in S
    BY <2>2
  <2>4. x \in Seq(S) /\ Len(x) = len /\ \A j \in 1 .. len : x[j] = d[f + j - 1]
    BY <1>1, <2>2, <2>3, SubSeqProperties
  <2>5. \A j \in 1 .. len : f + j - 1 = o + s + j
    BY <2>1
  <2> QED
    BY <2>4, <2>5
<1>5. y \in Seq(S) /\ Len(y) = len /\ \A j \in 1 .. len : y[j] = b[s + j]
  <2>1. PICK f \in Int : f = s + 1
    OBVIOUS
  <2>2. y = SubSeq(b, f, n) /\ f \in 1 .. Len(b) + 1 /\ n - f + 1 = len /\ f <= n + 1
    BY <1>1, <1>2, <1>3, <2>1
  <2>3. \A j \in f .. n : b[j] \in S
    BY <1>1, <2>2
  <2>4. y \in Seq(S) /\ Len(y) = len /\ \A j \in 1 .. len : y[j] = b[f + j - 1]
    BY <1>1, <2>2, <2>3, SubSeqProperties
  <2>5. \A j \in 1 .. len : f + j - 1 = s + j
    BY <2>1
  <2> QED
    BY <2>4, <2>5
<1>6. ASSUME NEW j \in 1 .. len PROVE x[j] = y[j]
  <2>1. PICK i : i = s + j
    OBVIOUS
  <2>2. i \in 1 .. Len(b) /\ o + i = o + s + j
    BY <1>1, <2>1
  <2> QED
    BY <1>4, <1>5, <2>1, <2>2
<1>7. x = y
  BY ONLY <1>4, <1>5, <1>6
<1> QED
  BY <1>1, <1>2, <1>7

\* A record in full: the parser is at the end of its item, and has the bytes of
\* its value.
LEMMA ValueIsThere ==
  ASSUME ParserIInv, Sending, Items, NEW k \in 1 .. Count,
         NEW v \in Nat, NEW e \in Nat, NEW s \in Nat, NEW i \in Nat,
         Inside(k, v, e, s, i), step = "vife", ~More(cur)
  PROVE  /\ i = e
         /\ ValueFits <=> StartOf(k + 1) <= Len(data)
         /\ ValueFits =>
              /\ ValueStart + ValueLength = StartOf(k + 1)
              /\ SubSeq(data, ValueStart + 1, StartOf(k + 1)) =
                   SubSeq(BytesOf(k), s + 1, Len(BytesOf(k)))
<1> DEFINE b == BytesOf(k)
<1>1. /\ v \in 2 .. e /\ e \in 2 .. Len(b) /\ Len(b) \in Nat
      /\ s \in e .. e + 1 /\ s <= Len(b)
      /\ \A j \in v .. e : More(b[j]) <=> j < e
      /\ \A j \in 1 .. Len(b) : b[j] \in Octet
      /\ i < Len(b) /\ Left => Here = b[i + 1]
  BY InsideHere DEF Shaped
<1> HIDE DEF b
<1>2. /\ InVifes(k, v, e, i) /\ pos = StartOf(k) + i
      /\ Shape(k, v, e, s) /\ rec.df = b[1] % 16
  BY DEF Inside, b
<1>3. i \in v .. e /\ cur = b[i]
  BY <1>2 DEF InVifes, b
<1>4. i = e
  BY <1>1, <1>3
<1>5. PICK o \in Nat : o = StartOf(k)
  <2>1. k \in 1 .. Count + 1
    BY DEF Items
  <2> QED
    BY <2>1 DEF Items
<1>6. StartOf(k + 1) = o + Len(b)
  BY <1>5 DEF Items, b
<1>7. Len(data) \in Nat /\ data \in Seq(Octet) /\ b \in Seq(Octet)
  BY DEF Items, ParserIInv, b
<1>8. /\ Variable <=> b[1] % 16 = 13
      /\ Variable => s = e + 1 /\ Len(b) = s + b[s]
      /\ ~Variable => s = e /\ Len(b) = s + DataLen[rec.df + 1]
  BY <1>2 DEF Variable, Shape, RecordSent, b
<1>9. pos = o + e
  BY <1>2, <1>4, <1>5
<1>10. (Variable => Left) => ValueStart = o + s /\ ValueStart + ValueLength = o + Len(b)
  <2> SUFFICES ASSUME Variable => Left
               PROVE  ValueStart = o + s /\ ValueStart + ValueLength = o + Len(b)
    OBVIOUS
  <2>1. CASE Variable
    <3>1. Here = b[s] /\ s = e + 1
      BY <1>1, <1>4, <1>8, <2>1
    <3>2. PICK l \in Nat : l = b[s]
      <4>1. s \in 1 .. Len(b)
        BY <1>1
      <4>2. b[s] \in Octet
        BY <1>1, <4>1
      <4> QED
        BY <4>2 DEF Octet
    <3>3. ValueStart = pos + 1 /\ ValueLength = l
      BY <2>1, <3>1, <3>2 DEF ValueStart, ValueLength
    <3>4. Len(b) = s + l
      BY <1>8, <2>1, <3>2
    <3> QED
      BY <1>9, <3>1, <3>3, <3>4
  <2>2. CASE ~Variable
    <3>1. PICK l \in Nat : l = DataLen[rec.df + 1]
      <4>1. rec.df \in 0 .. 15
        BY DEF ParserIInv, RecordOK
      <4>2. DataLen[rec.df + 1] \in 0 .. 8
        BY <4>1, DataLenIsNat
      <4> QED
        BY <4>2
    <3>2. ValueStart = pos /\ ValueLength = l
      BY <2>2, <3>1 DEF ValueStart, ValueLength
    <3>3. s = e /\ Len(b) = s + l
      BY <1>8, <2>2, <3>1
    <3> QED
      BY <1>9, <3>2, <3>3
  <2> QED
    BY <2>1, <2>2
<1>11. ValueFits <=> o + Len(b) <= Len(data)
  <2>1. CASE ValueFits
    BY <1>10, <2>1 DEF ValueFits
  <2>2. CASE o + Len(b) <= Len(data)
    <3>1. Variable => pos < Len(data)
      <4>1. Variable => e < Len(b)
        BY <1>1, <1>8
      <4> QED
        BY <1>1, <1>7, <1>9, <2>2, <4>1
    <3> QED
      BY <1>10, <2>2, <3>1 DEF ValueFits, Left
  <2> QED
    BY <2>1, <2>2
<1>12. ValueFits => SubSeq(data, ValueStart + 1, o + Len(b)) = SubSeq(b, s + 1, Len(b))
  <2> SUFFICES ASSUME ValueFits
               PROVE  SubSeq(data, ValueStart + 1, o + Len(b)) = SubSeq(b, s + 1, Len(b))
    OBVIOUS
  <2>1. o + Len(b) <= Len(data) /\ ValueStart = o + s
    BY <1>10, <1>11 DEF ValueFits
  <2>2. ASSUME NEW j \in 1 .. Len(b) PROVE data[o + j] = b[j]
    <3>1. o + j <= Len(data)
      BY <1>1, <1>7, <2>1
    <3> QED
      BY <1>5, <2>2, <3>1 DEF Items, b
  <2>3. s \in 0 .. Len(b)
    BY <1>1
  <2>4. SubSeq(data, o + s + 1, o + Len(b)) = SubSeq(b, s + 1, Len(b))
    BY <1>7, <2>1, <2>2, <2>3, SameBytes
  <2> QED
    BY <2>1, <2>4
<1> QED
  BY <1>4, <1>6, <1>10, <1>11, <1>12 DEF b, ValueFits

\* A record in full is shown as it is meant.
LEMMA ValueKeeps ==
  ASSUME ParserIInv, Sending, Items, Before2064(telegram), NEW k \in 1 .. Count,
         NEW v \in Nat, NEW e \in Nat, NEW s \in Nat, NEW i \in Nat,
         Inside(k, v, e, s, i), Value, ~More(cur)
  PROVE  Between'
<1> DEFINE raw == SubSeq(data, ValueStart + 1, StartOf(k + 1))
<1>1. step = "vife" /\ ValueFits
  BY DEF Value, AtValue
<1>2. /\ i = e /\ ValueStart + ValueLength = StartOf(k + 1)
      /\ raw = SubSeq(BytesOf(k), s + 1, Len(BytesOf(k)))
  BY <1>1, ValueIsThere
<1>3. /\ pos' = StartOf(k + 1) /\ records' = Append(records, Shown(raw))
      /\ telegram' = telegram /\ data' = data
  BY <1>2 DEF Value
<1> HIDE DEF raw
<1>4. /\ InVifes(k, v, e, i) /\ Shape(k, v, e, s) /\ records = ShownTo(k - 1)
      /\ rec.df = BytesOf(k)[1] % 16 /\ rec.fn = Shows(k).fn
  BY <1>1 DEF Inside
<1>5. Count \in Nat /\ k - 1 \in 0 .. Count /\ k + 1 \in 1 .. Count + 1
  <2>1. Count \in Nat
    BY DEF Items
  <2> QED
    BY <2>1
<1>6. telegram.items[k].shows \in Seq(ShownRecord) /\ Len(telegram.items[k].shows) = 1
  BY <1>4, ItemTypes DEF Shape
<1>7. Shows(k) \in ShownRecord /\ telegram.items[k].shows = <<Shows(k)>>
  <2> DEFINE R == ShownRecord
  <2>1. PICK sh : sh = telegram.items[k].shows
    OBVIOUS
  <2>2. sh \in Seq(R) /\ Len(sh) = 1
    BY <1>6, <2>1
  <2> HIDE DEF R
  <2>3. sh[1] \in R /\ sh = <<sh[1]>>
    BY <2>2
  <2> QED
    BY <2>1, <2>3 DEF R, Shows
<1>8. Shown(raw) = Shows(k)
  <2>1. /\ Shows(k).storage = rec.storage /\ Shows(k).tariff = rec.tariff
        /\ rec.vi = VibMeans(BytesOf(k), v)
    BY <1>4 DEF InVifes, NumbersRead
  <2>2. Shows(k).known = rec.vi.known /\ ValueSent(raw, rec.df, rec.vi, Shows(k).value)
    BY <1>2, <1>4, <2>1 DEF Shape, RecordSent
  <2>3. Shows(k) = [fn |-> Shows(k).fn, storage |-> Shows(k).storage,
                    tariff |-> Shows(k).tariff, known |-> Shows(k).known,
                    value |-> Shows(k).value]
    BY <1>7 DEF ShownRecord
  <2>4. raw \in Seq(Octet) /\ (rec.df # 13 => Len(raw) = DataLen[rec.df + 1])
    <3>1. PICK b, n : b = BytesOf(k) /\ n = Len(b)
      OBVIOUS
    <3>2. b \in Seq(Octet) /\ n \in Nat /\ s \in 0 .. n
      BY <1>4, <3>1 DEF Items, Shape
    <3>3. rec.df # 13 => n = s + DataLen[rec.df + 1]
      BY <1>4, <3>1 DEF Shape, RecordSent
    <3>4. raw = SubSeq(b, s + 1, n)
      BY <1>2, <3>1
    <3>5. raw \in Seq(Octet) /\ Len(raw) = n - s
      BY <3>1, <3>2, <3>4
    <3>6. rec.df \in 0 .. 15
      BY DEF ParserIInv, RecordOK
    <3>7. PICK l \in Nat : l = DataLen[rec.df + 1]
      BY <3>6, DataLenIsNat
    <3>8. PICK m \in Nat : m = Len(raw)
      BY <3>5
    <3>9. rec.df # 13 => n = s + l /\ m = n - s
      BY <3>3, <3>5, <3>7, <3>8
    <3>10. rec.df # 13 => m = l
      BY <3>2, <3>9
    <3> QED
      BY <3>5, <3>7, <3>8, <3>10
  <2>5. rec.df \in 0 .. 15 /\ Shows(k).value \in [k : STRING, v : Seq(Int)]
    BY <1>7 DEF ParserIInv, RecordOK, ShownRecord
  <2>6. Shows(k).value.k = "datetime" => Shows(k).value.v[1] < 64
    <3>1. k \in DOMAIN telegram.items
      <4>1. telegram.items \in Seq([bytes : Seq(Octet), shows : Seq(ShownRecord)])
        BY DEF Sending, TelegramSent
      <4> QED
        BY <4>1 DEF Count
    <3>2. 1 \in DOMAIN telegram.items[k].shows
      BY <1>7
    <3> QED
      BY <3>1, <3>2 DEF Before2064, Shows
  <2>7. Shows(k).value = decodeValue(raw, rec.df, rec.vi)
    BY <2>2, <2>4, <2>5, <2>6, ValueIsRead
  <2> QED
    BY <1>4, <2>1, <2>2, <2>3, <2>7 DEF Shown
<1>9. records' = ShownTo(k)
  <2>1. /\ ShownTo(k) = ShownTo(k - 1) \o <<Shows(k)>>
        /\ ShownTo(k - 1) \in Seq(ShownRecord)
    BY <1>5, <1>7, ShownNext
  <2>2. PICK t, x : t = ShownTo(k - 1) /\ x = Shows(k)
    OBVIOUS
  <2>3. t \o <<x>> = Append(t, x)
    <3> DEFINE R == ShownRecord
    <3>1. t \in Seq(R) /\ x \in R
      BY <1>7, <2>1, <2>2
    <3> HIDE DEF R
    <3> QED
      BY <3>1, AppendIsConcat
  <2> QED
    BY <1>3, <1>4, <1>8, <2>1, <2>2, <2>3
<1>10. PICK m : m = k + 1
  OBVIOUS
<1>11. m \in 1 .. Count + 1 /\ m - 1 = k /\ pos' = StartOf(m) /\ records' = ShownTo(m - 1)
  BY <1>3, <1>5, <1>9, <1>10
<1>12. /\ Count' = Count /\ StartOf(m)' = StartOf(m) /\ ShownTo(m - 1)' = ShownTo(m - 1)
  BY <1>3, TelegramKept
<1> QED
  BY <1>11, <1>12 DEF Between

\* Nothing else is shown, but a record without data of which VIFEs are missing.
LEMMA ValueCutShort ==
  ASSUME ParserIInv, Items, NEW k \in 1 .. Count,
         NEW v \in Nat, NEW e \in Nat, NEW s \in Nat, NEW i \in Nat,
         Inside(k, v, e, s, i), Value, More(cur)
  PROVE  CutShort'
<1> DEFINE b == BytesOf(k)
<1>1. /\ v \in 2 .. e /\ e \in 2 .. Len(b) /\ Len(b) \in Nat
      /\ \A j \in v .. e : More(b[j]) <=> j < e
  BY InsideHere DEF Shaped
<1> HIDE DEF b
<1>2. step = "vife" /\ ~Left /\ ValueFits
  BY DEF Value, AtValue
<1>3. pos = StartOf(k) + i /\ records = ShownTo(k - 1) /\ i \in v .. e /\ cur = b[i]
  BY <1>2 DEF Inside, InVifes, b
<1>4. i < Len(b)
  BY <1>1, <1>3
<1>5. pos = Len(data) /\ Len(data) \in Nat
  BY <1>2 DEF Left, ParserIInv, ParserTypeOK, Items
<1>6. ~Variable
  BY <1>2 DEF ValueFits
<1>7. ValueStart = pos /\ ValueLength = 0
  <2>1. ValueStart = pos
    BY <1>6 DEF ValueStart
  <2>2. ValueLength \in Nat
    BY <1>2, ValueLengthIsNat
  <2> QED
    BY <1>2, <1>5, <2>1, <2>2 DEF ValueFits
<1>8. /\ pos' = pos /\ telegram' = telegram /\ data' = data
      /\ records' = Append(records, Shown(SubSeq(data, pos + 1, pos)))
  BY <1>5, <1>7 DEF Value
<1>9. SubSeq(data, pos + 1, pos) = <<>>
  BY <1>5 DEF ParserIInv
<1>10. PICK x : x = Shown(<<>>)
  OBVIOUS
<1>11. x.value.k = "none"
  BY <1>10 DEF Shown, decodeValue, Val
<1>12. StartOf(k) <= pos /\ pos < StartOf(k + 1)
  <2>1. StartOf(k) \in Nat /\ StartOf(k + 1) = StartOf(k) + Len(b)
    <3>1. k \in 1 .. Count + 1
      BY DEF Items
    <3> QED
      BY <3>1 DEF Items, b
  <2> QED
    BY <1>1, <1>3, <1>4, <2>1
<1>13. records' = Append(ShownTo(k - 1), x)
  BY <1>3, <1>8, <1>9, <1>10
<1>14. /\ Count' = Count /\ ShownTo(k - 1)' = ShownTo(k - 1)
       /\ StartOf(k)' = StartOf(k) /\ StartOf(k + 1)' = StartOf(k + 1)
  BY <1>8, TelegramKept
<1> QED
  BY <1>5, <1>8, <1>11, <1>12, <1>13, <1>14 DEF CutShort

\* Where the data ends inside a record, what is meant has been shown.
LEMMA TruncatedShows ==
  ASSUME ParserIInv, Sending, Items, InsideSome, Truncated
  PROVE  records = Meant
<1>1. PICK k \in 1 .. Count : \E v, e, s, i \in Nat : Inside(k, v, e, s, i)
  BY DEF InsideSome
<1>2. PICK v, e, s, i \in Nat : Inside(k, v, e, s, i)
  BY <1>1
<1> DEFINE b == BytesOf(k)
<1>3. /\ v \in 2 .. e /\ e \in 2 .. Len(b) /\ Len(b) \in Nat
      /\ (b[v] = 253 \/ b[v] = 251) => v < e
      /\ \A j \in v .. e : More(b[j]) <=> j < e
  BY <1>2, InsideHere DEF Shaped
<1>4. pos = StartOf(k) + i /\ records = ShownTo(k - 1)
  BY <1>2 DEF Inside
<1>5. /\ StartOf(k) \in Nat /\ StartOf(k + 1) = StartOf(k) + Len(b)
      /\ StartOf(k + 1) \in Nat /\ Len(data) \in Nat
  <2>1. k \in 1 .. Count + 1 /\ k + 1 \in 1 .. Count + 1
    BY DEF Items
  <2> QED
    BY <2>1 DEF Items
<1>6. pos <= Len(data)
  BY DEF ParserIInv, ParserTypeOK
<1>7. Len(data) < StartOf(k + 1)
  <2>1. CASE step \in {"dife", "fd", "fb"} /\ ~Left
    <3>1. pos = Len(data)
      BY <1>4, <1>5, <1>6, <2>1 DEF Left
    <3>2. i < Len(b)
      <4>1. CASE step = "dife"
        BY <1>2, <1>3, <4>1 DEF Inside, InDifes
      <4>2. CASE step \in {"fd", "fb"}
        BY <1>2, <1>3, <4>2 DEF Inside, AtSecondVif
      <4> QED
        BY <2>1, <4>1, <4>2
    <3> HIDE DEF b
    <3> QED
      BY <1>3, <1>4, <1>5, <3>1, <3>2
  <2>2. CASE AtValue /\ ~ValueFits
    <3>1. step = "vife"
      BY <2>2 DEF AtValue
    <3>2. CASE ~More(cur)
      <4>1. ~(StartOf(k + 1) <= Len(data))
        BY <1>2, <2>2, <3>1, <3>2, ValueIsThere
      <4> QED
        BY <1>5, <4>1
    <3>3. CASE More(cur)
      <4>1. i \in v .. e /\ cur = b[i] /\ ~Left
        BY <1>2, <2>2, <3>1, <3>3 DEF Inside, InVifes, AtValue
      <4>2. i < Len(b)
        BY <1>3, <3>3, <4>1
      <4> HIDE DEF b
      <4> QED
        BY <1>3, <1>4, <1>5, <1>6, <4>1, <4>2 DEF Left
    <3> QED
      BY <3>2, <3>3
  <2> QED
    BY <2>1, <2>2 DEF Truncated
<1>8. StartOf(k) <= Len(data)
  BY <1>4, <1>5, <1>6
<1>9. Meant = ShownTo(k - 1)
  BY <1>7, <1>8, MeantInside
<1> QED
  BY <1>4, <1>9

\* Nothing has been shown when the telegram arrives.
LEMMA InitRecordsIInv ==
  ASSUME MetersKeepToStandard, DatesBefore2064
  PROVE  ParserInit => RecordsIInv
<1> SUFFICES ASSUME ParserInit PROVE RecordsIInv
  OBVIOUS
<1>1. ParserIInv
  BY InitParserIInv
<1>2. Sending
  BY MetersKeepToStandard, ParserAssumption DEF ParserInit, MetersKeepToStandard, Sending, Octet
<1>3. step = "ci" /\ records = <<>> /\ Before2064(telegram)
  BY DatesBefore2064 DEF ParserInit, ParserStart, DatesBefore2064
<1> QED
  BY <1>1, <1>2, <1>3 DEF RecordsIInv, RecordsComplete

\* Inside a record every byte leads further into it.
LEMMA InsideKeeps ==
  ASSUME ParserIInv, Items, InsideSome, Dife \/ Vif \/ SecondVif \/ Vife
  PROVE  InsideSome'
<1>1. PICK k \in 1 .. Count : \E v, e, s, i \in Nat : Inside(k, v, e, s, i)
  BY DEF InsideSome
<1>2. PICK v, e, s, i \in Nat : Inside(k, v, e, s, i)
  BY <1>1
<1>3. Inside(k, v, e, s, i + 1)'
  BY <1>2, DifeKeeps, VifKeeps, SecondVifKeeps, VifeKeeps
<1>4. PICK m \in Nat : m = i + 1
  OBVIOUS
<1>5. Inside(k, v, e, s, m)'
  BY <1>3, <1>4
<1>6. telegram' = telegram /\ data' = data
  BY DEF Dife, Vif, SecondVif, Vife
<1>7. Count' = Count
  BY <1>6, TelegramKept
<1> QED
  BY <1>5, <1>7 DEF InsideSome

\* Every step keeps it.
LEMMA NextRecordsIInv == RecordsIInv /\ [ParserNext]_parserVars => RecordsIInv'
<1> SUFFICES ASSUME RecordsIInv, [ParserNext]_parserVars PROVE RecordsIInv'
  OBVIOUS
<1>1. ParserIInv /\ ParserIInv' /\ Sending /\ Items /\ Before2064(telegram)
  BY NextParserIInv, ItemsHold DEF RecordsIInv
<1>2. telegram' = telegram /\ data' = data
  BY DEF ParserNext, parserVars, ControlInformation, Header, Filler, EndMark, Dif, Dife, Vif,
     SecondVif, Vife, Value, Truncated
<1>3. Sending' /\ Meant' = Meant /\ Count' = Count /\ Before2064(telegram)'
  BY <1>1, <1>2, TelegramKept
<1>4. pos \in 0 .. Len(data) /\ Len(data) \in Nat
  BY <1>1 DEF ParserIInv, ParserTypeOK, Items
<1>5. ASSUME Left, step = "record" PROVE Between
  BY <1>4, <1>5 DEF RecordsIInv, CutShort, Left
<1>6. CASE ControlInformation
  BY <1>1, <1>2, <1>3, <1>6 DEF ControlInformation, RecordsIInv, RecordsComplete, HeaderLength,
     ParserIInv, Placed
<1>7. CASE Header
  <2>1. Count \in Nat /\ StartOf(1) = 13 /\ ShownTo(0) = <<>>
    BY <1>1, ShownNext DEF Items
  <2>2. pos' = StartOf(1) /\ records' = ShownTo(0) /\ step' = "record" /\ Len(data) >= 13
    BY <1>1, <1>7, <2>1 DEF Header, HeaderLength, RecordsIInv, ParserIInv, Placed
  <2>3. StartOf(1)' = StartOf(1) /\ ShownTo(0)' = ShownTo(0)
    BY <1>2, TelegramKept
  <2>4. 1 \in 1 .. Count' + 1 /\ 1 - 1 = 0
    BY <1>3, <2>1
  <2>5. Between'
    BY <2>2, <2>3, <2>4 DEF Between
  <2> QED
    BY <1>1, <1>2, <1>3, <2>2, <2>5 DEF RecordsIInv, RecordsComplete
<1>8. CASE Filler
  <2>1. Between'
    BY <1>1, <1>5, <1>8, FillerKeeps DEF Filler
  <2>2. step' = "record" /\ step = "record"
    BY <1>8 DEF Filler
  <2> QED
    BY <1>1, <1>2, <1>3, <2>1, <2>2 DEF RecordsIInv, RecordsComplete
<1>9. CASE Dif
  <2>1. InsideSome'
    BY <1>1, <1>5, <1>9, DifBegins DEF Dif
  <2>2. step' = "dife" /\ step = "record"
    BY <1>9 DEF Dif
  <2> QED
    BY <1>1, <1>2, <1>3, <2>1, <2>2 DEF RecordsIInv, RecordsComplete
<1>10. CASE Dife \/ Vif \/ SecondVif \/ Vife
  <2>1. step \in {"dife", "fd", "fb", "vife"} /\ step' \in {"dife", "fd", "fb", "vife"}
    BY <1>10 DEF Dife, Vif, SecondVif, Vife
  <2>2. InsideSome'
    BY <1>1, <1>10, <2>1, InsideKeeps DEF RecordsIInv
  <2> QED
    BY <1>1, <1>2, <1>3, <2>1, <2>2 DEF RecordsIInv, RecordsComplete
<1>11. CASE Value
  <2>1. step = "vife" /\ step' = "record"
    BY <1>11 DEF Value, AtValue
  <2>2. PICK k \in 1 .. Count : \E v, e, s, i \in Nat : Inside(k, v, e, s, i)
    BY <2>1 DEF RecordsIInv, InsideSome
  <2>3. PICK v, e, s, i \in Nat : Inside(k, v, e, s, i)
    BY <2>2
  <2>4. CASE ~More(cur)
    <3>1. Between'
      BY <1>1, <1>11, <2>3, <2>4, ValueKeeps
    <3> QED
      BY <1>1, <1>2, <1>3, <2>1, <3>1 DEF RecordsIInv, RecordsComplete
  <2>5. CASE More(cur)
    <3>1. CutShort'
      BY <1>1, <1>11, <2>3, <2>5, ValueCutShort
    <3> QED
      BY <1>1, <1>2, <1>3, <2>1, <3>1 DEF RecordsIInv, RecordsComplete
  <2> QED
    BY <2>4, <2>5
<1>12. CASE EndMark
  <2>1. step = "record" /\ step' = "done" /\ records' = records
    BY <1>12 DEF EndMark
  <2>2. RecordsComplete'
    <3>1. Between \/ CutShort
      BY <2>1 DEF RecordsIInv
    <3> QED
      BY <1>1, <1>3, <1>4, <1>12, <2>1, <3>1, EndMarkShows DEF RecordsComplete
  <2> QED
    BY <1>1, <1>2, <1>3, <2>1, <2>2 DEF RecordsIInv
<1>13. CASE Truncated
  <2>1. step \in {"dife", "fd", "fb", "vife"} /\ step' = "done" /\ records' = records
    BY <1>13 DEF Truncated, AtValue
  <2>2. RecordsComplete'
    <3>1. records = Meant
      BY <1>1, <1>13, <2>1, TruncatedShows DEF RecordsIInv
    <3> QED
      BY <1>3, <2>1, <3>1 DEF RecordsComplete
  <2> QED
    BY <1>1, <1>2, <1>3, <2>1, <2>2 DEF RecordsIInv
<1>14. CASE UNCHANGED parserVars
  <2>1. /\ step' = step /\ records' = records /\ pos' = pos /\ cur' = cur /\ rec' = rec
    BY <1>14 DEF parserVars
  <2>2. Between => Between'
    <3>1. \A k : StartOf(k)' = StartOf(k) /\ ShownTo(k - 1)' = ShownTo(k - 1)
      BY <1>2, TelegramKept
    <3> QED
      BY <1>3, <2>1, <3>1 DEF Between
  <2>3. CutShort => CutShort'
    <3>1. \A k : /\ StartOf(k)' = StartOf(k) /\ StartOf(k + 1)' = StartOf(k + 1)
                 /\ ShownTo(k - 1)' = ShownTo(k - 1)
      BY <1>2, TelegramKept
    <3> QED
      BY <1>2, <1>3, <2>1, <3>1 DEF CutShort
  <2>4. InsideSome => InsideSome'
    <3>1. ASSUME NEW k \in 1 .. Count, NEW v \in Nat, NEW e \in Nat, NEW s \in Nat, NEW i \in Nat,
                 Inside(k, v, e, s, i)
          PROVE  Inside(k, v, e, s, i)'
      <4>1. /\ BytesOf(k)' = BytesOf(k) /\ Shows(k)' = Shows(k)
            /\ Shape(k, v, e, s)' = Shape(k, v, e, s)
            /\ StartOf(k)' = StartOf(k) /\ ShownTo(k - 1)' = ShownTo(k - 1)
        BY <1>2, TelegramKept
      <4>2. /\ step = "dife" => InDifes(k, v, i)'
            /\ step \in {"fd", "fb"} => AtSecondVif(k, v, i)'
            /\ step = "vife" => InVifes(k, v, e, i)'
        BY <2>1, <3>1, <4>1 DEF Inside, InDifes, AtSecondVif, InVifes, NumbersRead
      <4> QED
        BY <2>1, <3>1, <4>1, <4>2 DEF Inside
    <3> QED
      BY <1>3, <3>1 DEF InsideSome
  <2>5. RecordsComplete'
    BY <1>3, <2>1 DEF RecordsIInv, RecordsComplete
  <2> QED
    BY <1>1, <1>2, <1>3, <2>1, <2>2, <2>3, <2>4, <2>5 DEF RecordsIInv
<1> QED
  BY <1>6, <1>7, <1>8, <1>9, <1>10, <1>11, <1>12, <1>13, <1>14 DEF ParserNext

\* The inductive invariant of the parser, for what meters send.
LEMMA RecordsInvariant ==
  ASSUME MetersKeepToStandard, DatesBefore2064
  PROVE  ParserSpec => []RecordsIInv
BY InitRecordsIInv, NextRecordsIInv, PTL DEF ParserSpec

\* Whatever a meter sends that keeps to the definition of a telegram, with no type
\* F date beyond 2063, and wherever it breaks off: parseRecords returns the records
\* that have come in full, in their order, with the values that the meter has
\* encoded in their bytes, and nothing besides.
THEOREM RecordsCompleteHolds ==
  ASSUME MetersKeepToStandard, DatesBefore2064
  PROVE  ParserSpec => []RecordsComplete
<1>1. RecordsIInv => RecordsComplete
  BY DEF RecordsIInv
<1> QED
  BY <1>1, RecordsInvariant, PTL
-----------------------------------------------------------------------------
(* The header.                                                             *)

\* The letter i of three in a word.
Letter(w, i) == (w \div 32^(3 - i)) % 32

\* Five bits for each.
WordOf(w, a, b, c) == w = 1024 * a + 32 * b + c

\* Three letters in two bytes.
LEMMA Letters ==
  \A w : \A a, b, c \in 0 .. 31 :
    WordOf(w, a, b, c) => Letter(w, 1) = a /\ Letter(w, 2) = b /\ Letter(w, 3) = c
<1> SUFFICES ASSUME NEW w, NEW a \in 0 .. 31, NEW b \in 0 .. 31, NEW c \in 0 .. 31,
                    WordOf(w, a, b, c)
             PROVE  Letter(w, 1) = a /\ Letter(w, 2) = b /\ Letter(w, 3) = c
  OBVIOUS
<1>0. w = 1024 * a + 32 * b + c
  BY DEF WordOf
<1>1. 32^(3 - 1) = 1024 /\ 32^(3 - 2) = 32 /\ 32^(3 - 3) = 1
  OBVIOUS
<1>2. w \div 1024 = a /\ w \div 32 = 32 * a + b /\ w \div 1 = w
  BY <1>0
<1>3. a % 32 = a /\ (32 * a + b) % 32 = b /\ w % 32 = c
  BY <1>0
<1> QED
  BY SMTT(60), <1>0, <1>1, <1>2, <1>3 DEF Letter

\* What the header shows of what has been sent.
LEMMA HeaderShown ==
  ASSUME NEW b \in Seq(Octet), Len(b) = 12, NEW h, HeaderSent(b, h)
  PROVE  DecodedHeader(b) = h
<1>1. /\ h \in [id : [1 .. 4 -> Octet], mfr : [1 .. 3 -> 65 .. 90], version : Octet,
                medium : Octet, access : Octet, status : Octet]
      /\ \A i \in 1 .. 4 : b[i] = h.id[5 - i]
      /\ b[5] + 256 * b[6] = 1024 * (h.mfr[1] - 64) + 32 * (h.mfr[2] - 64) + (h.mfr[3] - 64)
      /\ b[7] = h.version /\ b[8] = h.medium /\ b[9] = h.access /\ b[10] = h.status
  BY DEF HeaderSent
<1>2. decodeBCDID(SubSeq(b, 1, 4)) = h.id
  <2>1. PICK f : f = SubSeq(b, 1, 4)
    OBVIOUS
  <2>2. f \in Seq(Octet) /\ Len(f) = 4 /\ \A i \in 1 .. 4 : f[i] = b[i]
    <3>1. 4 \in 0 .. Len(b)
      OBVIOUS
    <3> QED
      BY <2>1, <3>1, FrontAt
  <2>3. Reverse(f) = [i \in 1 .. 4 |-> f[Len(f) - i + 1]]
    BY <2>2 DEF Reverse
  <2>4. h.id \in [1 .. 4 -> Octet]
    BY <1>1
  <2>5. ASSUME NEW i \in 1 .. 4 PROVE f[Len(f) - i + 1] = h.id[i]
    <3>1. PICK j \in 1 .. 4 : j = 5 - i
      OBVIOUS
    <3>2. Len(f) - i + 1 = j /\ 5 - j = i
      BY <2>2, <3>1
    <3> QED
      BY SMTT(60), <1>1, <2>2, <3>1, <3>2
  <2>6. Reverse(f) = h.id
    BY <2>3, <2>4, <2>5
  <2> QED
    BY <2>1, <2>6 DEF decodeBCDID
<1>3. decodeMfr(b[5], b[6]) = h.mfr
  <2>1. h.mfr \in [1 .. 3 -> 65 .. 90]
    BY <1>1
  <2>2. PICK x, y, z \in 0 .. 31 :
          h.mfr[1] = 64 + x /\ h.mfr[2] = 64 + y /\ h.mfr[3] = 64 + z
    <3>0. h.mfr[1] \in 65 .. 90 /\ h.mfr[2] \in 65 .. 90 /\ h.mfr[3] \in 65 .. 90
      BY <2>1
    <3>1. PICK p, q, r \in 65 .. 90 : p = h.mfr[1] /\ q = h.mfr[2] /\ r = h.mfr[3]
      BY ONLY <3>0, Zenon
    <3>2. /\ p - 64 \in 0 .. 31 /\ q - 64 \in 0 .. 31 /\ r - 64 \in 0 .. 31
          /\ p = 64 + (p - 64) /\ q = 64 + (q - 64) /\ r = 64 + (r - 64)
      OBVIOUS
    <3> QED
      BY ZenonT(60), <3>1, <3>2
  <2>3. PICK w : w = b[5] + 256 * b[6]
    OBVIOUS
  <2>4. w = 1024 * x + 32 * y + z
    <3>1. 64 + x - 64 = x /\ 64 + y - 64 = y /\ 64 + z - 64 = z
      OBVIOUS
    <3> QED
      BY <1>1, <2>2, <2>3, <3>1
  <2>5. PICK g : g = [i \in 1 .. 3 |-> 64 + ((w \div 32^(3 - i)) % 32)]
    OBVIOUS
  <2>6. decodeMfr(b[5], b[6]) = g
    BY <2>3, <2>5 DEF decodeMfr
  <2>7. g[1] = h.mfr[1] /\ g[2] = h.mfr[2] /\ g[3] = h.mfr[3]
    <3>1. Letter(w, 1) = x /\ Letter(w, 2) = y /\ Letter(w, 3) = z
      <4>1. WordOf(w, x, y, z)
        BY <2>4 DEF WordOf
      <4> QED
        BY <4>1, Letters
    <3> QED
      BY <2>2, <2>5, <3>1 DEF Letter
  <2>8. \A i \in 1 .. 3 : i = 1 \/ i = 2 \/ i = 3
    OBVIOUS
  <2>9. g = h.mfr
    BY SMTT(60), <2>1, <2>5, <2>7, <2>8
  <2> QED
    BY <2>6, <2>9
<1> QED
  BY <1>1, <1>2, <1>3 DEF DecodedHeader

\* The telegram is the meter's, and the header is there where it is decoded.
HeaderIInv ==
  /\ ParserIInv
  /\ Sending
  /\ step \notin {"ci", "error", "unsupported"} => Len(data) >= 13
  /\ step = "error" => Len(data) < 13

\* Every step keeps it.
LEMMA NextHeaderIInv == HeaderIInv /\ [ParserNext]_parserVars => HeaderIInv'
<1> SUFFICES ASSUME HeaderIInv, [ParserNext]_parserVars PROVE HeaderIInv'
  OBVIOUS
<1>1. ParserIInv /\ ParserIInv' /\ Sending
  BY NextParserIInv DEF HeaderIInv
<1>2. telegram' = telegram /\ data' = data
  BY DEF ParserNext, parserVars, ControlInformation, Header, Filler, EndMark, Dif, Dife, Vif,
     SecondVif, Vife, Value, Truncated
<1>3. Sending'
  BY <1>1, <1>2, TelegramKept
<1>4. CASE ControlInformation
  BY <1>1, <1>2, <1>3, <1>4 DEF ControlInformation, HeaderIInv, HeaderLength, ParserIInv, Placed
<1>5. CASE ~ControlInformation
  <2>1. /\ step' \notin {"ci", "error", "unsupported"} => step \notin {"ci", "error", "unsupported"}
        /\ step' = "error" => step = "error"
    BY <1>5 DEF ParserNext, parserVars, Header, Filler, EndMark, Dif, Dife, Vif,
       SecondVif, Vife, Value, Truncated, AtValue
  <2> QED
    BY <1>1, <1>2, <1>3, <2>1 DEF HeaderIInv
<1> QED
  BY <1>4, <1>5

\* The inductive invariant of the header.
LEMMA HeaderInvariant ==
  ASSUME MetersKeepToStandard
  PROVE  ParserSpec => []HeaderIInv
<1>1. ParserInit => HeaderIInv
  <2> SUFFICES ASSUME ParserInit PROVE HeaderIInv
    OBVIOUS
  <2>1. ParserIInv
    BY InitParserIInv
  <2>2. Sending
    BY MetersKeepToStandard, ParserAssumption DEF ParserInit, MetersKeepToStandard, Sending, Octet
  <2>3. step = "ci"
    BY DEF ParserInit, ParserStart
  <2> QED
    BY <2>1, <2>2, <2>3 DEF HeaderIInv
<1> QED
  BY <1>1, NextHeaderIInv, PTL DEF ParserSpec

\* Whatever a meter sends that keeps to the definition of a telegram: its
\* header is shown as it was meant, and it is refused only when it is cut off.
THEOREM HeaderReadHolds ==
  ASSUME MetersKeepToStandard
  PROVE  ParserSpec => []HeaderRead
<1>1. HeaderIInv => HeaderRead
  <2> SUFFICES ASSUME HeaderIInv PROVE HeaderRead
    OBVIOUS
  <2>1. Sending
    BY DEF HeaderIInv
  <2>2. PICK whole, cut : /\ whole = telegram.bytes /\ whole \in Seq(Octet)
                          /\ cut \in 1 .. Len(whole) /\ data = SubSeq(whole, 1, cut)
    BY <2>1 DEF Sending
  <2>3. /\ data \in Seq(Octet) /\ Len(data) = cut /\ cut \in Nat
        /\ \A i \in 1 .. cut : data[i] = whole[i]
    <3>1. cut \in 0 .. Len(whole)
      BY <2>2
    <3> QED
      BY <2>2, <3>1, FrontAt
  <2>4. ASSUME Len(data) >= 13 PROVE DecodedHeader(SubSeq(data, 2, 13)) = telegram.head
    <3>1. PICK x, y : x = SubSeq(data, 2, 13) /\ y = SubSeq(whole, 2, 13)
      OBVIOUS
    <3>2. x \in Seq(Octet) /\ Len(x) = 12 /\ \A i \in 1 .. 12 : x[i] = data[i + 1]
      BY <2>3, <2>4, <3>1
    <3>3. y \in Seq(Octet) /\ Len(y) = 12 /\ \A i \in 1 .. 12 : y[i] = whole[i + 1]
      BY <2>2, <2>3, <2>4, <3>1
    <3>4. x = y
      <4>1. \A i \in 1 .. 12 : i + 1 \in 1 .. cut
        BY <2>3, <2>4
      <4>2. \A i \in 1 .. 12 : x[i] = y[i]
        BY <2>3, <3>2, <3>3, <4>1
      <4> QED
        BY <3>2, <3>3, <4>2
    <3>5. HeaderSent(y, telegram.head)
      BY <2>1, <2>2, <3>1 DEF Sending, TelegramSent, HeaderLength
    <3> QED
      BY <3>1, <3>2, <3>4, <3>5, HeaderShown
  <2>5. step \in {"record", "done"} => Len(data) >= 13
    BY DEF HeaderIInv
  <2>6. step = "error" => Len(data) < 13
    BY DEF HeaderIInv
  <2> QED
    BY <2>4, <2>5, <2>6 DEF HeaderRead, HeaderLength
<1> QED
  BY <1>1, HeaderInvariant, PTL
=============================================================================
