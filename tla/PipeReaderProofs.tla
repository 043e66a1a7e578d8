-------------------------- MODULE PipeReaderProofs --------------------------
(***************************************************************************)
(* Theorems about PipeReader, for every number of readers and bytes and    *)
(* every capacity of the channel and of the read buffer.                   *)
(***************************************************************************)
EXTENDS PipeReader, SequenceTheorems, TLAPS

USE DEF Readers, nil

\* A reader that is not started has done nothing; a port that is not open
\* has no reader.
Unstarted ==
  /\ \A r \in Readers : r > started => pc[r] = "off" /\ ch[r] = <<>> /\ ~done[r]
  /\ port = "new" => started = 0 /\ arrived = 0 /\ rx = <<>> /\ last = 0

IInv == TypeOK /\ Unstarted
-----------------------------------------------------------------------------
(* Sequences.                                                              *)

\* What Head and Tail of a non-empty sequence are.
LEMMA TailFacts ==
  ASSUME NEW S, NEW s \in Seq(S), s # <<>>
  PROVE  /\ Head(s) \in S
         /\ Tail(s) \in Seq(S)
         /\ Len(s) \in Nat \ {0}
         /\ Len(Tail(s)) = Len(s) - 1
         /\ \A i \in 1 .. Len(Tail(s)) : Tail(s)[i] = s[i + 1]
         /\ Head(s) = s[1]
  OBVIOUS

\* What Append adds, and what it leaves in place.
LEMMA AppendFacts ==
  ASSUME NEW S, NEW s \in Seq(S), NEW e \in S
  PROVE  /\ Append(s, e) \in Seq(S)
         /\ Len(Append(s, e)) = Len(s) + 1
         /\ \A i \in 1 .. Len(s) : Append(s, e)[i] = s[i]
         /\ Append(s, e)[Len(s) + 1] = e
         /\ Append(s, e) # <<>>
  OBVIOUS

\* A read splits the queue in a chunk and a rest.
LEMMA ChunkFacts ==
  ASSUME NEW S, rx \in Seq(S), rx # <<>>, PipeAssumption
  PROVE  /\ Chunk \in 1 .. Len(rx)
         /\ Chunk <= BufCap
         /\ SubSeq(rx, 1, Chunk) \in Seq(S)
         /\ Len(SubSeq(rx, 1, Chunk)) = Chunk
         /\ SubSeq(rx, 1, Chunk) # <<>>
         /\ \A i \in 1 .. Chunk : SubSeq(rx, 1, Chunk)[i] = rx[i]
         /\ SubSeq(rx, Chunk + 1, Len(rx)) \in Seq(S)
         /\ Len(SubSeq(rx, Chunk + 1, Len(rx))) = Len(rx) - Chunk
         /\ \A i \in 1 .. Len(rx) - Chunk :
              SubSeq(rx, Chunk + 1, Len(rx))[i] = rx[Chunk + i]
<1>1. Len(rx) \in Nat \ {0}
  OBVIOUS
<1>2. Chunk \in 1 .. Len(rx) /\ Chunk <= BufCap
  BY <1>1 DEF Chunk, PipeAssumption
<1>3. Chunk \in Nat /\ Chunk <= Len(rx)
  BY <1>1, <1>2
<1> HIDE DEF Chunk
<1>4. /\ SubSeq(rx, 1, Chunk) \in Seq(S)
      /\ Len(SubSeq(rx, 1, Chunk)) = Chunk
      /\ \A i \in 1 .. Chunk : SubSeq(rx, 1, Chunk)[i] = rx[i]
  BY <1>1, <1>2, <1>3
<1>5. /\ SubSeq(rx, Chunk + 1, Len(rx)) \in Seq(S)
      /\ Len(SubSeq(rx, Chunk + 1, Len(rx))) = Len(rx) - Chunk
      /\ \A i \in 1 .. Len(rx) - Chunk :
           SubSeq(rx, Chunk + 1, Len(rx))[i] = rx[Chunk + i]
  BY <1>1, <1>2, <1>3
<1>6. SubSeq(rx, 1, Chunk) # <<>>
  BY <1>2, <1>4
<1> QED
  BY <1>2, <1>4, <1>5, <1>6
-----------------------------------------------------------------------------
(* Types.                                                                  *)

\* Every step of a reader keeps the types and leaves unstarted readers alone.
LEMMA ReaderTyping ==
  ASSUME PipeAssumption, IInv, NEW r \in Readers, ReaderStep(r)
  PROVE  IInv'
<1> USE DEF IInv, TypeOK, Unstarted, clientVars
<1>1. CASE ReaderCheck(r)
  BY <1>1 DEF ReaderCheck
<1>2. CASE ReaderRead(r)
  <2>1. /\ SubSeq(rx, 1, Chunk) \in Seq(Bytes)
        /\ SubSeq(rx, Chunk + 1, Len(rx)) \in Seq(Bytes)
        /\ Len(SubSeq(rx, 1, Chunk)) <= BufCap
        /\ SubSeq(rx, 1, Chunk) # <<>>
    BY <1>2, ChunkFacts DEF ReaderRead
  <2> QED
    BY <1>2, <2>1 DEF ReaderRead
<1>3. CASE ReaderTimeout(r)
  BY <1>3 DEF ReaderTimeout
<1>4. CASE ReaderFail(r)
  BY <1>4 DEF ReaderFail
<1>5. CASE ReaderPush(r)
  <2>1. buf[r] # <<>> /\ buf[r] \in Seq(Bytes) /\ ch[r] \in Seq(Bytes) /\ Len(ch[r]) < ChanCap
    BY <1>5 DEF ReaderPush, HasRoom
  <2>2. /\ Head(buf[r]) \in Bytes
        /\ Tail(buf[r]) \in Seq(Bytes)
        /\ Len(Tail(buf[r])) <= BufCap
    BY <2>1, TailFacts DEF PipeAssumption
  <2>3. /\ Append(ch[r], Head(buf[r])) \in Seq(Bytes)
        /\ Len(Append(ch[r], Head(buf[r]))) <= ChanCap
    BY <2>1, <2>2, AppendFacts DEF PipeAssumption
  <2>4. ch' \in [Readers -> Seq(Bytes)] /\ \A q \in Readers : Len(ch'[q]) <= ChanCap
    BY <1>5, <2>3 DEF ReaderPush
  <2>5. buf' \in [Readers -> Seq(Bytes)] /\ \A q \in Readers : Len(buf'[q]) <= BufCap
    BY <1>5, <2>2 DEF ReaderPush
  <2>6. /\ pc' \in [Readers -> {"off", "check", "read", "push", "exit"}]
        /\ \A q \in Readers : pc'[q] = "push" <=> buf'[q] # <<>>
    BY <1>5 DEF ReaderPush, AfterPush
  <2>7. r <= started /\ port # "new"
    BY <1>5 DEF ReaderPush
  <2>8. \A q \in Readers : q > started => pc'[q] = "off" /\ ch'[q] = <<>>
    BY <1>5, <2>7 DEF ReaderPush
  <2> QED
    BY <1>5, <2>4, <2>5, <2>6, <2>7, <2>8 DEF ReaderPush
<1>6. CASE ReaderAbandon(r)
  <2>1. <<>> \in Seq(Bytes) /\ Len(<<>>) = 0 /\ 0 <= BufCap
    BY EmptySeq DEF PipeAssumption
  <2>2. buf' \in [Readers -> Seq(Bytes)] /\ \A q \in Readers : Len(buf'[q]) <= BufCap
    BY <1>6, <2>1 DEF ReaderAbandon
  <2>3. /\ pc' \in [Readers -> {"off", "check", "read", "push", "exit"}]
        /\ \A q \in Readers : pc'[q] = "push" <=> buf'[q] # <<>>
    BY <1>6 DEF ReaderAbandon
  <2>4. \A q \in Readers : q > started => pc'[q] = "off"
    BY <1>6 DEF ReaderAbandon
  <2> QED
    BY <1>6, <2>2, <2>3, <2>4 DEF ReaderAbandon
<1> QED
  BY <1>1, <1>2, <1>3, <1>4, <1>5, <1>6 DEF ReaderStep

\* The goroutine that StartPipeReader launches gets a number of its own.
LEMMA LaunchTyping ==
  ASSUME PipeAssumption, IInv, Launch, UNCHANGED <<buf, ch>>
  PROVE  /\ started + 1 \in Readers
         /\ started' \in 0 .. MaxReaders
         /\ pipeRd' \in 0 .. started'
         /\ pipCancel' \in 0 .. started'
         /\ pc' \in [Readers -> {"off", "check", "read", "push", "exit"}]
         /\ \A q \in Readers : pc'[q] = "push" <=> buf'[q] # <<>>
         /\ \A q \in Readers : q > started' => pc'[q] = "off" /\ ch'[q] = <<>>
<1> USE DEF IInv, TypeOK, Unstarted, Launch, PipeAssumption
<1>1. started \in Nat /\ started < MaxReaders /\ MaxReaders \in Nat
  OBVIOUS
<1>2. /\ started + 1 \in Readers
      /\ started + 1 > started
      /\ started' \in 0 .. MaxReaders
      /\ pipeRd' \in 0 .. started'
      /\ pipCancel' \in 0 .. started'
  BY <1>1
<1>3. pc[started + 1] = "off" /\ buf[started + 1] = <<>>
  BY <1>2
<1>4. pc' \in [Readers -> {"off", "check", "read", "push", "exit"}]
  OBVIOUS
<1>5. ASSUME NEW q \in Readers
      PROVE  pc'[q] = "push" <=> buf'[q] # <<>>
  <2>1. CASE q = started + 1
    BY <1>2, <1>3, <2>1
  <2>2. CASE q # started + 1
    BY <1>2, <2>2
  <2> QED
    BY <2>1, <2>2
<1>6. ASSUME NEW q \in Readers, q > started'
      PROVE  pc'[q] = "off" /\ ch'[q] = <<>>
  <2>1. q # started + 1 /\ q > started /\ q \in Nat
    BY <1>1, <1>6
  <2> QED
    BY <1>2, <2>1
<1> QED
  BY <1>2, <1>4, <1>5, <1>6

\* Only a started reader is ever cancelled.
LEMMA CancelTyping ==
  ASSUME IInv, NEW k \in 0 .. started, Cancel(k)
  PROVE  /\ done' \in [Readers -> BOOLEAN]
         /\ \A q \in Readers : q > started => ~done'[q]
<1> USE DEF IInv, TypeOK, Unstarted, Cancel
<1>1. CASE k = 0
  BY <1>1
<1>2. CASE k # 0
  <2>1. done' = [done EXCEPT ![k] = TRUE] /\ k <= started /\ k \in Nat
    BY <1>2
  <2>2. done' \in [Readers -> BOOLEAN]
    BY <2>1
  <2>3. ASSUME NEW q \in Readers, q > started
        PROVE  ~done'[q]
    <3>1. q # k /\ ~done[q] /\ done \in [Readers -> BOOLEAN]
      BY <2>1, <2>3
    <3>2. done'[q] = done[q]
      BY <2>1, <3>1
    <3> QED
      BY <3>1, <3>2
  <2> QED
    BY <2>2, <2>3
<1> QED
  BY <1>1, <1>2

\* The bus and the caller keep the types as well.
LEMMA Typing ==
  ASSUME PipeAssumption, IInv, [Next]_vars
  PROVE  IInv'
<1> USE DEF IInv, TypeOK, Unstarted, readerVars, clientVars, PipeAssumption
<1>1. CASE Arrive
  BY <1>1 DEF Arrive, Bytes
<1>2. CASE Open
  <2>1. Launch /\ UNCHANGED <<buf, ch>>
    BY <1>2 DEF Open
  <2>2. \A q \in Readers : q > started' => ~done'[q]
    BY <1>2 DEF Open, Launch
  <2>3. port' = "open" /\ UNCHANGED <<arrived, rx, buf, ch, done, last>>
    BY <1>2 DEF Open
  <2> QED
    BY <2>1, <2>2, <2>3, LaunchTyping
<1>3. CASE StartPipeReader
  <2>1. Launch /\ UNCHANGED <<buf, ch>>
    BY <1>3 DEF StartPipeReader
  <2>2. \A q \in Readers : q > started' => ~done'[q]
    BY <1>3 DEF StartPipeReader, Launch
  <2>3. port = "open" /\ UNCHANGED <<port, arrived, rx, buf, ch, done, last>>
    BY <1>3 DEF StartPipeReader
  <2> QED
    BY <2>1, <2>2, <2>3, LaunchTyping
<1>4. CASE RestartPipeReader
  <2>1. Launch /\ UNCHANGED <<buf, ch>>
    BY <1>4 DEF RestartPipeReader
  <2>2. done' \in [Readers -> BOOLEAN] /\ \A q \in Readers : q > started => ~done'[q]
    BY <1>4, CancelTyping DEF RestartPipeReader
  <2>3. \A q \in Readers : q > started' => ~done'[q]
    BY <1>4, <2>2 DEF RestartPipeReader, Launch
  <2>4. port = "open" /\ UNCHANGED <<port, arrived, rx, buf, ch, last>>
    BY <1>4 DEF RestartPipeReader
  <2> QED
    BY <2>1, <2>2, <2>3, <2>4, LaunchTyping
<1>5. CASE Close
  <2>1. done' \in [Readers -> BOOLEAN] /\ \A q \in Readers : q > started => ~done'[q]
    BY <1>5, CancelTyping DEF Close
  <2>2. /\ port' = "closed" /\ pipeRd' = 0 /\ pipCancel' = 0
        /\ UNCHANGED <<arrived, rx, started, pc, buf, ch, last>>
    BY <1>5 DEF Close
  <2>3. TypeOK'
    BY <2>1, <2>2
  <2>4. Unstarted'
    BY <2>1, <2>2
  <2> QED
    BY <2>3, <2>4
<1>6. CASE ReadByte
  <2>1. /\ pipeRd \in Readers
        /\ ch[pipeRd] \in Seq(Bytes)
        /\ ch[pipeRd] # <<>>
    BY <1>6 DEF ReadByte, TakeFrom
  <2>2. /\ Head(ch[pipeRd]) \in Bytes
        /\ Tail(ch[pipeRd]) \in Seq(Bytes)
        /\ Len(Tail(ch[pipeRd])) <= Len(ch[pipeRd])
    BY <2>1, TailFacts
  <2>3. last' \in 0 .. MaxBytes
    <3>1. last' = Head(ch[pipeRd])
      BY <1>6 DEF ReadByte, TakeFrom
    <3> QED
      BY <2>2, <3>1 DEF Bytes
  <2>4. ch' \in [Readers -> Seq(Bytes)] /\ \A q \in Readers : Len(ch'[q]) <= ChanCap
    BY <1>6, <2>1, <2>2 DEF ReadByte, TakeFrom
  <2>5. \A q \in Readers : q > started => ch'[q] = <<>>
    BY <1>6, <2>1 DEF ReadByte, TakeFrom
  <2>6. port # "new"
    BY <2>1
  <2> QED
    BY <1>6, <2>3, <2>4, <2>5, <2>6 DEF ReadByte
<1>7. CASE \E r \in Readers : ReaderStep(r)
  BY <1>7, ReaderTyping
<1>8. CASE UNCHANGED vars
  BY <1>8 DEF vars
<1> QED
  BY <1>1, <1>2, <1>3, <1>4, <1>5, <1>6, <1>7, <1>8 DEF Next

\* The initial states satisfy the inductive invariant.
LEMMA InitTyping ==
  ASSUME PipeAssumption, Init
  PROVE  IInv
  BY DEF Init, IInv, TypeOK, Unstarted, PipeAssumption

\* In every behaviour, with any number of pipe readers, the variables of the port,
\* the readers and the client keep their types: go.bug.st's buffer and the channel
\* pr.ch never exceed their capacity, and a goroutine is at a known point of the loop.
THEOREM TypeCorrect == Spec => []TypeOK
<1>1. Init => IInv
  BY PipeAssumption, InitTyping
<1>2. IInv /\ [Next]_vars => IInv'
  BY PipeAssumption, Typing
<1>3. IInv => TypeOK
  BY DEF IInv
<1> QED
  BY <1>1, <1>2, <1>3, PTL DEF Spec
-----------------------------------------------------------------------------
(* A cancelled reader does not go back to the port.                        *)

\* A pipe reader whose context is cancelled never starts another port.Read
\* (serial.go, the select at the top of the loop): it finishes the one it is in.
THEOREM CancelledReadsOnceHolds == Spec => CancelledReadsOnce
<1>1. ASSUME IInv, [Next]_vars, NEW r \in Readers, done[r], pc'[r] = "read"
      PROVE  pc[r] = "read"
  <2> USE DEF IInv, TypeOK, readerVars, clientVars
  <2>1. CASE Arrive \/ Close \/ ReadByte \/ UNCHANGED vars
    BY <1>1, <2>1 DEF Arrive, Close, ReadByte, TakeFrom, vars
  <2>2. CASE Open \/ StartPipeReader \/ RestartPipeReader
    <3>1. pc' = [pc EXCEPT ![started + 1] = "check"]
      BY <2>2 DEF Open, StartPipeReader, RestartPipeReader, Launch
    <3> QED
      BY <1>1, <3>1
  <2>3. ASSUME NEW q \in Readers, ReaderStep(q)
        PROVE  pc[r] = "read"
    BY <1>1, <2>3 DEF ReaderStep, ReaderCheck, ReaderRead, ReaderTimeout, ReaderFail,
                      ReaderPush, AfterPush, ReaderAbandon
  <2> QED
    BY <1>1, <2>1, <2>2, <2>3 DEF Next
<1>2. IInv /\ [Next]_vars =>
        [\A r \in Readers : done[r] /\ pc'[r] = "read" => pc[r] = "read"]_vars
  BY <1>1
<1>3. Init => IInv
  BY PipeAssumption, InitTyping
<1>4. IInv /\ [Next]_vars => IInv'
  BY PipeAssumption, Typing
<1> QED
  BY <1>2, <1>3, <1>4, PTL DEF Spec, CancelledReadsOnce
-----------------------------------------------------------------------------
(* The bytes keep their order.                                             *)

Rising(s) == \A i, j \in 1 .. Len(s) : i < j => s[i] < s[j]
Below(s, t) == \A i \in 1 .. Len(s), j \in 1 .. Len(t) : s[i] < t[j]
Above(k, s) == \A i \in 1 .. Len(s) : k < s[i]
Under(s, k) == \A i \in 1 .. Len(s) : s[i] < k

\* What each reader holds is in order and older than what the driver holds;
\* what the client's own reader holds is younger than the byte taken last.
Order ==
  /\ last < arrived + 1
  /\ Under(rx, arrived + 1)
  /\ Rising(rx)
  /\ Above(last, rx)
  /\ \A r \in Readers :
       /\ Rising(ch[r])
       /\ Rising(buf[r])
       /\ Below(ch[r], buf[r])
       /\ Below(ch[r], rx)
       /\ Below(buf[r], rx)
       /\ Under(ch[r], arrived + 1)
       /\ Under(buf[r], arrived + 1)
  /\ pipeRd # nil => Above(last, ch[pipeRd]) /\ Above(last, buf[pipeRd])

\* The empty sequence is in order with everything.
LEMMA EmptyOrder ==
  /\ Rising(<<>>)
  /\ \A s : Below(<<>>, s) /\ Below(s, <<>>)
  /\ \A k : Above(k, <<>>) /\ Under(<<>>, k)
  BY DEF Rising, Below, Above, Under

\* A larger bound still bounds.
LEMMA UnderGrows ==
  ASSUME NEW s \in Seq(Nat), NEW k \in Nat, Under(s, k)
  PROVE  Under(s, k + 1)
  BY DEF Under

\* Taking the first byte away keeps the order, and that byte was the lowest.
LEMMA TailOrder ==
  ASSUME NEW s \in Seq(Nat), s # <<>>
  PROVE  /\ Rising(s) => Rising(Tail(s)) /\ Above(Head(s), Tail(s))
         /\ \A k : Above(k, s) => k < Head(s) /\ Above(k, Tail(s))
         /\ \A k : Under(s, k) => Head(s) < k /\ Under(Tail(s), k)
         /\ \A t \in Seq(Nat) : Below(s, t) => Above(Head(s), t) /\ Below(Tail(s), t)
         /\ \A t \in Seq(Nat) : Below(t, s) => Under(t, Head(s)) /\ Below(t, Tail(s))
<1>1. /\ Len(s) \in Nat \ {0} /\ Len(Tail(s)) = Len(s) - 1 /\ Head(s) = s[1]
      /\ \A i \in 1 .. Len(Tail(s)) : Tail(s)[i] = s[i + 1] /\ i + 1 \in 1 .. Len(s)
  BY TailFacts
<1>2. 1 \in 1 .. Len(s)
  BY <1>1
<1>3. Rising(s) => Rising(Tail(s)) /\ Above(Head(s), Tail(s))
  BY <1>1 DEF Rising, Above
<1>4. \A k : Above(k, s) => k < Head(s) /\ Above(k, Tail(s))
  BY <1>1, <1>2 DEF Above
<1>5. \A k : Under(s, k) => Head(s) < k /\ Under(Tail(s), k)
  BY <1>1, <1>2 DEF Under
<1>6. \A t \in Seq(Nat) : Below(s, t) => Above(Head(s), t) /\ Below(Tail(s), t)
  BY <1>1, <1>2 DEF Below, Above
<1>7. \A t \in Seq(Nat) : Below(t, s) => Under(t, Head(s)) /\ Below(t, Tail(s))
  BY <1>1, <1>2 DEF Below, Under
<1> QED
  BY <1>3, <1>4, <1>5, <1>6, <1>7

\* Appending a byte above the others keeps the order.
LEMMA AppendOrder ==
  ASSUME NEW s \in Seq(Nat), NEW e \in Nat
  PROVE  /\ Rising(s) /\ Under(s, e) => Rising(Append(s, e))
         /\ \A k : Above(k, s) /\ k < e => Above(k, Append(s, e))
         /\ \A k : Under(s, k) /\ e < k => Under(Append(s, e), k)
         /\ \A t \in Seq(Nat) : Below(s, t) /\ Above(e, t) => Below(Append(s, e), t)
         /\ \A t \in Seq(Nat) : Below(t, s) /\ Under(t, e) => Below(t, Append(s, e))
<1> DEFINE a == Append(s, e)
<1>1. /\ Len(s) \in Nat /\ Len(a) = Len(s) + 1
      /\ \A i \in 1 .. Len(a) : a[i] = e \/ (i \in 1 .. Len(s) /\ a[i] = s[i])
      /\ \A i \in 1 .. Len(a) : i < Len(a) => i \in 1 .. Len(s) /\ a[i] = s[i]
      /\ a[Len(a)] = e
  BY AppendFacts
<1> HIDE DEF a
<1>2. ASSUME Rising(s), Under(s, e)
      PROVE  Rising(a)
  <2> SUFFICES ASSUME NEW i \in 1 .. Len(a), NEW j \in 1 .. Len(a), i < j
               PROVE  a[i] < a[j]
    BY DEF Rising
  <2>1. i \in 1 .. Len(s) /\ a[i] = s[i]
    BY <1>1
  <2>2. CASE j = Len(a)
    BY <1>1, <1>2, <2>1, <2>2 DEF Under
  <2>3. CASE j # Len(a)
    <3>1. j \in 1 .. Len(s) /\ a[j] = s[j]
      BY <1>1, <2>3
    <3> QED
      BY <1>2, <2>1, <3>1 DEF Rising
  <2> QED
    BY <2>2, <2>3
<1>3. \A k : Above(k, s) /\ k < e => Above(k, a)
  BY <1>1 DEF Above
<1>4. \A k : Under(s, k) /\ e < k => Under(a, k)
  BY <1>1 DEF Under
<1>5. \A t \in Seq(Nat) : Below(s, t) /\ Above(e, t) => Below(a, t)
  BY <1>1 DEF Below, Above
<1>6. \A t \in Seq(Nat) : Below(t, s) /\ Under(t, e) => Below(t, a)
  BY <1>1 DEF Below, Under
<1> QED
  BY <1>2, <1>3, <1>4, <1>5, <1>6 DEF a

\* What one port.Read takes is in order and below what it leaves.
LEMMA ChunkOrder ==
  ASSUME PipeAssumption, rx \in Seq(Nat), rx # <<>>,
         NEW c, c = SubSeq(rx, 1, Chunk), NEW d, d = SubSeq(rx, Chunk + 1, Len(rx))
  PROVE  /\ c \in Seq(Nat) /\ d \in Seq(Nat)
         /\ Rising(rx) => Rising(c) /\ Rising(d) /\ Below(c, d)
         /\ \A k : Above(k, rx) => Above(k, c) /\ Above(k, d)
         /\ \A k : Under(rx, k) => Under(c, k) /\ Under(d, k)
         /\ \A t \in Seq(Nat) : Below(t, rx) => Below(t, c) /\ Below(t, d)
<1>1. /\ Len(rx) \in Nat /\ Chunk \in 1 .. Len(rx)
      /\ Len(c) = Chunk /\ Len(d) = Len(rx) - Chunk
      /\ c \in Seq(Nat) /\ d \in Seq(Nat)
      /\ \A i \in 1 .. Chunk : c[i] = rx[i]
      /\ \A i \in 1 .. Len(rx) - Chunk : d[i] = rx[Chunk + i]
  <2> HIDE DEF Chunk
  <2>1. Len(rx) \in Nat
    OBVIOUS
  <2> QED
    BY <2>1, ChunkFacts, Zenon
<1>2. /\ \A i \in 1 .. Len(c) : i \in 1 .. Len(rx) /\ i <= Chunk
      /\ \A i \in 1 .. Len(d) : Chunk + i \in 1 .. Len(rx) /\ Chunk < Chunk + i
  BY <1>1
<1>3. Rising(rx) => Rising(c) /\ Rising(d) /\ Below(c, d)
  BY <1>1, <1>2 DEF Rising, Below
<1>4. \A k : Above(k, rx) => Above(k, c) /\ Above(k, d)
  BY <1>1, <1>2 DEF Above
<1>5. \A k : Under(rx, k) => Under(c, k) /\ Under(d, k)
  BY <1>1, <1>2 DEF Under
<1>6. \A t \in Seq(Nat) : Below(t, rx) => Below(t, c) /\ Below(t, d)
  BY <1>1, <1>2 DEF Below
<1> QED
  BY <1>1, <1>3, <1>4, <1>5, <1>6

\* Numbers, for the lemmas above.
LEMMA Numbers ==
  ASSUME PipeAssumption, TypeOK
  PROVE  /\ rx \in Seq(Nat) /\ arrived \in Nat /\ last \in Nat
         /\ \A r \in Readers : ch[r] \in Seq(Nat) /\ buf[r] \in Seq(Nat)
<1>1. Bytes \subseteq Nat
  BY DEF Bytes, PipeAssumption
<1>2. \A s \in Seq(Bytes) : s \in Seq(Nat)
  BY <1>1, SeqMonotonic
<1> QED
  BY <1>2 DEF TypeOK, PipeAssumption

\* A step of a pipe reader keeps Order.
LEMMA ReaderOrder ==
  ASSUME PipeAssumption, IInv, Order, NEW r \in Readers, ReaderStep(r)
  PROVE  Order'
<1>0. /\ TypeOK /\ Unstarted
      /\ rx \in Seq(Nat) /\ arrived \in Nat /\ last \in Nat
      /\ \A q \in Readers : ch[q] \in Seq(Nat) /\ buf[q] \in Seq(Nat)
  BY Numbers DEF IInv
<1>1. CASE ReaderCheck(r) \/ ReaderTimeout(r) \/ ReaderFail(r)
  BY <1>1 DEF Order, ReaderCheck, ReaderTimeout, ReaderFail, clientVars
<1>2. CASE ReaderRead(r)
  <2> DEFINE c == SubSeq(rx, 1, Chunk)
             d == SubSeq(rx, Chunk + 1, Len(rx))
  <2>1. /\ rx # <<>> /\ rx' = d /\ buf' = [buf EXCEPT ![r] = c]
        /\ UNCHANGED <<arrived, ch, last, pipeRd>>
    BY <1>2 DEF ReaderRead, clientVars
  <2>2. /\ c \in Seq(Nat) /\ d \in Seq(Nat)
        /\ Rising(rx) => Rising(c) /\ Rising(d) /\ Below(c, d)
        /\ \A k : Above(k, rx) => Above(k, c) /\ Above(k, d)
        /\ \A k : Under(rx, k) => Under(c, k) /\ Under(d, k)
        /\ \A t \in Seq(Nat) : Below(t, rx) => Below(t, c) /\ Below(t, d)
    BY <1>0, <2>1, ChunkOrder
  <2> HIDE DEF c, d
  <2>3. \A q \in Readers : buf'[q] = IF q = r THEN c ELSE buf[q]
    BY <1>0, <2>1 DEF TypeOK
  <2>4. /\ last' < arrived' + 1
        /\ Under(rx', arrived' + 1) /\ Rising(rx') /\ Above(last', rx')
    BY <2>1, <2>2 DEF Order
  <2>5. ASSUME NEW q \in Readers
        PROVE  /\ Rising(ch'[q]) /\ Rising(buf'[q]) /\ Below(ch'[q], buf'[q])
               /\ Below(ch'[q], rx') /\ Below(buf'[q], rx')
               /\ Under(ch'[q], arrived' + 1) /\ Under(buf'[q], arrived' + 1)
    BY <1>0, <2>1, <2>2, <2>3 DEF Order
  <2>6. pipeRd' # 0 => Above(last', ch'[pipeRd']) /\ Above(last', buf'[pipeRd'])
    <3>1. pipeRd # 0 => pipeRd \in Readers
      BY <1>0 DEF TypeOK, PipeAssumption
    <3> QED
      BY <2>1, <2>2, <2>3, <3>1 DEF Order
  <2> QED
    BY <2>4, <2>5, <2>6 DEF Order
<1>5. CASE ReaderPush(r)
  <2> DEFINE b == Head(buf[r])
             t == Tail(buf[r])
             a == Append(ch[r], b)
  <2>1. /\ buf[r] # <<>> /\ ch' = [ch EXCEPT ![r] = a] /\ buf' = [buf EXCEPT ![r] = t]
        /\ UNCHANGED <<arrived, rx, last, pipeRd>>
    BY <1>0, <1>5 DEF ReaderPush, TypeOK, clientVars
  <2>2. b \in Nat /\ t \in Seq(Nat) /\ a \in Seq(Nat)
    BY <1>0, <2>1, TailFacts, AppendFacts
  <2>3. /\ Rising(t) /\ Above(b, t) /\ b < arrived + 1 /\ Under(t, arrived + 1)
        /\ Above(b, rx) /\ Below(t, rx) /\ Under(ch[r], b) /\ Below(ch[r], t)
        /\ \A k : Above(k, buf[r]) => k < b /\ Above(k, t)
    BY <1>0, <2>1, TailOrder DEF Order
  <2>4. /\ Rising(a) /\ Under(a, arrived + 1) /\ Below(a, t) /\ Below(a, rx)
        /\ \A k : Above(k, ch[r]) /\ Above(k, buf[r]) => Above(k, a) /\ Above(k, t)
    BY <1>0, <2>2, <2>3, AppendOrder DEF Order
  <2> HIDE DEF a, b, t
  <2>5. \A q \in Readers : /\ buf'[q] = IF q = r THEN t ELSE buf[q]
                           /\ ch'[q] = IF q = r THEN a ELSE ch[q]
    BY <1>0, <2>1 DEF TypeOK
  <2>6. ASSUME NEW q \in Readers
        PROVE  /\ Rising(ch'[q]) /\ Rising(buf'[q]) /\ Below(ch'[q], buf'[q])
               /\ Below(ch'[q], rx') /\ Below(buf'[q], rx')
               /\ Under(ch'[q], arrived' + 1) /\ Under(buf'[q], arrived' + 1)
    BY <2>1, <2>3, <2>4, <2>5 DEF Order
  <2>7. pipeRd' # 0 => Above(last', ch'[pipeRd']) /\ Above(last', buf'[pipeRd'])
    <3>1. pipeRd # 0 => pipeRd \in Readers
      BY <1>0 DEF TypeOK, PipeAssumption
    <3> QED
      BY <2>1, <2>4, <2>5, <3>1 DEF Order
  <2> QED
    BY <2>1, <2>6, <2>7 DEF Order
<1>6. CASE ReaderAbandon(r)
  <2>1. \A q \in Readers : buf'[q] = IF q = r THEN <<>> ELSE buf[q]
    BY <1>0, <1>6 DEF ReaderAbandon, TypeOK
  <2>2. UNCHANGED <<arrived, rx, ch, last, pipeRd>>
    BY <1>6 DEF ReaderAbandon, clientVars
  <2>3. pipeRd # 0 => pipeRd \in Readers
    BY <1>0 DEF TypeOK, PipeAssumption
  <2> QED
    BY <2>1, <2>2, <2>3, EmptyOrder DEF Order
<1> QED
  BY <1>1, <1>2, <1>5, <1>6 DEF ReaderStep

\* Every step keeps Order.
LEMMA OrderStep ==
  ASSUME PipeAssumption, IInv, Order, [Next]_vars
  PROVE  Order'
<1>0. /\ TypeOK /\ Unstarted
      /\ rx \in Seq(Nat) /\ arrived \in Nat /\ last \in Nat
      /\ \A q \in Readers : ch[q] \in Seq(Nat) /\ buf[q] \in Seq(Nat)
      /\ pipeRd # 0 => pipeRd \in Readers
  BY Numbers DEF IInv, TypeOK, PipeAssumption
<1>1. CASE Arrive
  <2> DEFINE e == arrived + 1
  <2>1. /\ rx' = Append(rx, e) /\ arrived' = e
        /\ UNCHANGED <<last, pipeRd, ch, buf>>
    BY <1>1 DEF Arrive, readerVars, clientVars
  <2>2. e \in Nat /\ last < e /\ last < e + 1 /\ e < e + 1
    BY <1>0 DEF Order
  <2>3. Under(rx, e + 1) /\ \A q \in Readers : Under(ch[q], e + 1) /\ Under(buf[q], e + 1)
    BY <1>0, <2>2, UnderGrows DEF Order
  <2>4. /\ Rising(rx') /\ Under(rx', e + 1) /\ Above(last, rx')
        /\ \A q \in Readers : Below(ch[q], rx') /\ Below(buf[q], rx')
    BY <1>0, <2>1, <2>2, <2>3, AppendOrder DEF Order
  <2> QED
    BY <2>1, <2>2, <2>3, <2>4 DEF Order
<1>2. CASE Open \/ StartPipeReader \/ RestartPipeReader
  <2>1. /\ UNCHANGED <<arrived, rx, buf, ch, last>>
        /\ Launch /\ pipeRd' = started + 1
    BY <1>2 DEF Open, StartPipeReader, RestartPipeReader, Launch
  <2>2. /\ started + 1 \in Readers /\ started + 1 > started
    BY <1>0, <2>1, LaunchTyping DEF IInv, TypeOK
  <2>3. ch[started + 1] = <<>> /\ buf[started + 1] = <<>>
    BY <1>0, <2>2 DEF Unstarted, TypeOK
  <2> QED
    BY <2>1, <2>2, <2>3, EmptyOrder DEF Order
<1>3. CASE Close
  BY <1>3 DEF Close, readerVars, Order
<1>4. CASE ReadByte
  <2> DEFINE b == Head(ch[pipeRd])
             t == Tail(ch[pipeRd])
  <2>1. /\ pipeRd \in Readers /\ ch[pipeRd] # <<>> /\ last' = b
        /\ ch' = [ch EXCEPT ![pipeRd] = t]
        /\ UNCHANGED <<arrived, rx, buf, pipeRd>>
    BY <1>0, <1>4 DEF ReadByte, TakeFrom, clientVars
  <2>2. /\ Rising(t) /\ Above(b, t) /\ b < arrived + 1 /\ Under(t, arrived + 1)
        /\ Above(b, rx) /\ Above(b, buf[pipeRd]) /\ Below(t, rx) /\ Below(t, buf[pipeRd])
    BY <1>0, <2>1, TailOrder DEF Order
  <2>3. \A q \in Readers : ch'[q] = IF q = pipeRd THEN t ELSE ch[q]
    BY <1>0, <2>1 DEF TypeOK
  <2> HIDE DEF b, t
  <2> QED
    BY <2>1, <2>2, <2>3 DEF Order
<1>5. CASE \E r \in Readers : ReaderStep(r)
  BY <1>5, ReaderOrder
<1>6. CASE UNCHANGED vars
  BY <1>6 DEF vars, Order
<1> QED
  BY <1>1, <1>2, <1>3, <1>4, <1>5, <1>6 DEF Next

\* Every reader keeps the bytes in the order of their arrival.
THEOREM OrderHolds == Spec => []Order
<1>1. Init => IInv /\ Order
  <2> SUFFICES ASSUME Init
               PROVE  IInv /\ Order
    OBVIOUS
  <2> QED
    BY PipeAssumption, InitTyping, EmptyOrder DEF Init, Order
<1>2. IInv /\ Order /\ [Next]_vars => IInv' /\ Order'
  BY PipeAssumption, Typing, OrderStep
<1> QED
  BY <1>1, <1>2, PTL DEF Spec
-----------------------------------------------------------------------------
(* The readers implement ByteStream.                                       *)

\* Taking the first byte of a rising sequence removes it, the lowest, from its content.
LEMMA ContentTail ==
  ASSUME NEW s \in Seq(Nat), s # <<>>, Rising(s)
  PROVE  /\ Head(s) \in Content(s)
         /\ Content(Tail(s)) = Content(s) \ {Head(s)}
         /\ \A x \in Content(s) : Head(s) <= x
<1>1. /\ Len(s) \in Nat \ {0} /\ Len(Tail(s)) = Len(s) - 1 /\ Head(s) = s[1]
      /\ \A i \in 1 .. Len(Tail(s)) : Tail(s)[i] = s[i + 1]
      /\ \A i \in 1 .. Len(s) : s[i] \in Nat
  BY TailFacts
<1>2. \A i \in 1 .. Len(s) : i # 1 => s[1] < s[i]
  BY <1>1 DEF Rising
<1>3. Head(s) \in Content(s) /\ \A x \in Content(s) : Head(s) <= x
  BY <1>1, <1>2 DEF Content
<1>4. \A x \in Content(Tail(s)) : x \in Content(s) \ {Head(s)}
  <2> SUFFICES ASSUME NEW i \in 1 .. Len(Tail(s))
               PROVE  Tail(s)[i] \in Content(s) \ {Head(s)}
    BY DEF Content
  <2>1. i + 1 \in 1 .. Len(s) /\ i + 1 # 1
    BY <1>1
  <2> QED
    BY <1>1, <1>2, <2>1 DEF Content
<1>5. \A x \in Content(s) \ {Head(s)} : x \in Content(Tail(s))
  <2> SUFFICES ASSUME NEW i \in 1 .. Len(s), s[i] # s[1]
               PROVE  s[i] \in Content(Tail(s))
    BY <1>1 DEF Content
  <2>1. i - 1 \in 1 .. Len(Tail(s)) /\ Tail(s)[i - 1] = s[i]
    BY <1>1
  <2> QED
    BY <2>1 DEF Content
<1> QED
  BY <1>3, <1>4, <1>5

\* Appending a byte adds it to the content.
LEMMA ContentAppend ==
  ASSUME NEW s \in Seq(Nat), NEW e \in Nat
  PROVE  Content(Append(s, e)) = Content(s) \cup {e}
<1>1. /\ Len(s) \in Nat /\ Len(Append(s, e)) = Len(s) + 1
      /\ \A i \in 1 .. Len(s) : Append(s, e)[i] = s[i]
      /\ Append(s, e)[Len(s) + 1] = e
  BY AppendFacts
<1>2. Content(s) \subseteq Content(Append(s, e)) /\ e \in Content(Append(s, e))
  BY <1>1 DEF Content
<1>3. Content(Append(s, e)) \subseteq Content(s) \cup {e}
  BY <1>1 DEF Content
<1> QED
  BY <1>2, <1>3

\* Both parts of what a port.Read splits hold bytes of the whole.
LEMMA ContentChunk ==
  ASSUME PipeAssumption, rx \in Seq(Nat), rx # <<>>
  PROVE  /\ Content(SubSeq(rx, 1, Chunk)) \subseteq Content(rx)
         /\ Content(SubSeq(rx, Chunk + 1, Len(rx))) \subseteq Content(rx)
<1> HIDE DEF Chunk
<1> DEFINE c == SubSeq(rx, 1, Chunk)
           d == SubSeq(rx, Chunk + 1, Len(rx))
<1>1. /\ Len(rx) \in Nat /\ Chunk \in 1 .. Len(rx)
      /\ Len(c) = Chunk /\ Len(d) = Len(rx) - Chunk
      /\ \A i \in 1 .. Chunk : c[i] = rx[i]
      /\ \A i \in 1 .. Len(rx) - Chunk : d[i] = rx[Chunk + i]
  <2>1. Len(rx) \in Nat
    OBVIOUS
  <2> QED
    BY <2>1, ChunkFacts, Zenon
<1> HIDE DEF c, d
<1>2. /\ \A i \in 1 .. Len(c) : i \in 1 .. Len(rx)
      /\ \A i \in 1 .. Len(d) : Chunk + i \in 1 .. Len(rx)
  BY <1>1
<1>3. /\ \A i \in 1 .. Len(c) : c[i] \in Content(rx)
      /\ \A i \in 1 .. Len(d) : d[i] \in Content(rx)
  BY <1>1, <1>2 DEF Content
<1>4. Content(c) \subseteq Content(rx) /\ Content(d) \subseteq Content(rx)
  BY <1>3 DEF Content
<1> QED
  BY <1>4 DEF c, d

\* An empty sequence has no content.
LEMMA ContentEmpty == Content(<<>>) = {}
  BY DEF Content

\* A reader can only make bytes unavailable to the caller.
LEMMA ReaderAvailable ==
  ASSUME PipeAssumption, IInv, Order, NEW r \in Readers, ReaderStep(r)
  PROVE  Available' \subseteq Available /\ UNCHANGED <<arrived, last>>
<1>0. /\ TypeOK /\ rx \in Seq(Nat)
      /\ \A q \in Readers : ch[q] \in Seq(Nat) /\ buf[q] \in Seq(Nat)
      /\ pipeRd # 0 => pipeRd \in Readers
  BY Numbers DEF IInv, TypeOK, PipeAssumption
<1>1. CASE ReaderCheck(r) \/ ReaderTimeout(r) \/ ReaderFail(r)
  BY <1>1 DEF Available, ReaderCheck, ReaderTimeout, ReaderFail, clientVars
<1>2. CASE ReaderRead(r)
  <2> DEFINE c == SubSeq(rx, 1, Chunk)
             d == SubSeq(rx, Chunk + 1, Len(rx))
  <2>1. /\ rx # <<>> /\ rx' = d /\ UNCHANGED <<arrived, ch, last, pipeRd>>
        /\ \A q \in Readers : buf'[q] = IF q = r THEN c ELSE buf[q]
    BY <1>0, <1>2 DEF ReaderRead, clientVars, TypeOK
  <2>2. Content(c) \subseteq Content(rx) /\ Content(d) \subseteq Content(rx)
    BY <1>0, <2>1, ContentChunk
  <2> HIDE DEF c, d
  <2> QED
    BY <1>0, <2>1, <2>2 DEF Available
<1>3. CASE ReaderPush(r)
  <2> DEFINE b == Head(buf[r])
             t == Tail(buf[r])
             a == Append(ch[r], b)
  <2>1. /\ buf[r] # <<>> /\ UNCHANGED <<arrived, rx, last, pipeRd>>
        /\ \A q \in Readers : /\ buf'[q] = IF q = r THEN t ELSE buf[q]
                             /\ ch'[q] = IF q = r THEN a ELSE ch[q]
    BY <1>0, <1>3 DEF ReaderPush, clientVars, TypeOK
  <2>2. b \in Content(buf[r]) /\ Content(t) \subseteq Content(buf[r])
    BY <1>0, <2>1, ContentTail DEF Order
  <2>3. Content(a) = Content(ch[r]) \cup {b}
    <3>1. b \in Nat
      BY <1>0, <2>1, TailFacts
    <3> QED
      BY <1>0, <3>1, ContentAppend
  <2> HIDE DEF a, b, t
  <2>4. ASSUME pipeRd # 0
        PROVE  Content(buf'[pipeRd]) \cup Content(ch'[pipeRd])
                 \subseteq Content(buf[pipeRd]) \cup Content(ch[pipeRd])
    <3>1. CASE pipeRd = r
      BY <2>1, <2>2, <2>3, <3>1
    <3>2. CASE pipeRd # r
      BY <1>0, <2>1, <2>4, <3>2
    <3> QED
      BY <3>1, <3>2
  <2> QED
    BY <2>1, <2>4 DEF Available
<1>4. CASE ReaderAbandon(r)
  <2>1. /\ UNCHANGED <<arrived, rx, ch, last, pipeRd>>
        /\ \A q \in Readers : buf'[q] = IF q = r THEN <<>> ELSE buf[q]
    BY <1>0, <1>4 DEF ReaderAbandon, clientVars, TypeOK
  <2> QED
    BY <1>0, <2>1, ContentEmpty DEF Available
<1> QED
  BY <1>1, <1>2, <1>3, <1>4 DEF ReaderStep

\* Every step of the readers and the caller is a step of ByteStream.
LEMMA StreamStep ==
  ASSUME PipeAssumption, IInv, Order, [Next]_vars
  PROVE  [Stream!Next]_(Stream!streamVars)
<1> USE DEF Stream!Next, Stream!streamVars
<1>0. /\ TypeOK /\ rx \in Seq(Nat) /\ arrived \in Nat
      /\ \A q \in Readers : ch[q] \in Seq(Nat) /\ buf[q] \in Seq(Nat)
      /\ pipeRd # 0 => pipeRd \in Readers
  BY Numbers DEF IInv, TypeOK, PipeAssumption
<1>1. CASE Arrive
  <2>1. /\ arrived' = arrived + 1 /\ Content(rx') = Content(rx) \cup {arrived + 1}
        /\ UNCHANGED <<ch, buf, pipeRd, last>>
    BY <1>0, <1>1, ContentAppend DEF Arrive, clientVars, readerVars
  <2>2. Stream!Send
    BY <2>1 DEF Stream!Send, Available
  <2> QED
    BY <2>2
<1>2. CASE Open \/ StartPipeReader \/ RestartPipeReader
  <2>1. /\ UNCHANGED <<arrived, rx, buf, ch, last>>
        /\ Launch /\ pipeRd' = started + 1
    BY <1>2 DEF Open, StartPipeReader, RestartPipeReader, Launch
  <2>2. started + 1 \in Readers /\ started + 1 > started
    BY <1>0, <2>1, LaunchTyping DEF IInv, TypeOK
  <2>3. ch[started + 1] = <<>> /\ buf[started + 1] = <<>>
    BY <1>0, <2>2 DEF IInv, Unstarted, TypeOK
  <2>4. Stream!Lose
    BY <2>1, <2>3, ContentEmpty DEF Stream!Lose, Available
  <2> QED
    BY <2>4
<1>3. CASE Close
  <2>1. Stream!Lose
    BY <1>3 DEF Close, Stream!Lose, Available, readerVars
  <2> QED
    BY <2>1
<1>4. CASE ReadByte
  <2> DEFINE b == Head(ch[pipeRd])
             t == Tail(ch[pipeRd])
  <2>1. /\ pipeRd \in Readers /\ pipeRd # 0 /\ ch[pipeRd] # <<>> /\ last' = b
        /\ UNCHANGED <<arrived, rx, buf, pipeRd>>
        /\ ch'[pipeRd] = t
    BY <1>0, <1>4 DEF ReadByte, TakeFrom, clientVars, TypeOK
  <2>2. /\ b \in Content(ch[pipeRd])
        /\ Content(t) = Content(ch[pipeRd]) \ {b}
        /\ \A x \in Content(ch[pipeRd]) : b <= x
    BY <1>0, <2>1, ContentTail DEF Order
  <2>3. b \in Nat /\ Above(b, rx) /\ Above(b, buf[pipeRd])
    BY <1>0, <2>1, TailOrder, TailFacts DEF Order
  <2>4. ASSUME NEW x \in Content(rx) \cup Content(buf[pipeRd])
        PROVE  b < x /\ b <= x /\ x # b
    <3> HIDE DEF b
    <3>1. CASE x \in Content(rx)
      <4>1. PICK i \in 1 .. Len(rx) : x = rx[i]
        BY <3>1 DEF Content
      <4>2. x \in Nat /\ b < x
        BY <1>0, <2>3, <4>1 DEF Above
      <4> QED
        BY <2>3, <4>2
    <3>2. CASE x \in Content(buf[pipeRd])
      <4>1. PICK i \in 1 .. Len(buf[pipeRd]) : x = buf[pipeRd][i]
        BY <3>2 DEF Content
      <4>2. buf[pipeRd] \in Seq(Nat)
        BY <1>0, <2>1
      <4>3. x \in Nat /\ b < x
        BY <2>3, <4>1, <4>2 DEF Above
      <4> QED
        BY <2>3, <4>3
    <3> QED
      BY <2>4, <3>1, <3>2
  <2> HIDE DEF b, t
  <2>5. Available = Content(rx) \cup Content(buf[pipeRd]) \cup Content(ch[pipeRd])
    BY <2>1 DEF Available
  <2>6. Available' = Content(rx) \cup Content(buf[pipeRd]) \cup Content(t)
    BY <2>1 DEF Available
  <2>7. Available' = Available \ {b}
    BY <2>2, <2>4, <2>5, <2>6
  <2>8. b \in Available /\ \A x \in Available : b <= x
    BY <2>2, <2>4, <2>5
  <2>9. Stream!Take
    BY <2>1, <2>7, <2>8 DEF Stream!Take
  <2> QED
    BY <2>9
<1>5. CASE \E r \in Readers : ReaderStep(r)
  <2>1. Available' \subseteq Available /\ UNCHANGED <<arrived, last>>
    BY <1>5, ReaderAvailable
  <2>2. Stream!Lose
    BY <2>1 DEF Stream!Lose
  <2> QED
    BY <2>2
<1>6. CASE UNCHANGED vars
  BY <1>6 DEF vars, Available
<1> QED
  BY <1>1, <1>2, <1>3, <1>4, <1>5, <1>6 DEF Next

\* The caller gets the bytes in order and at most once, however often it
\* starts, restarts and closes its readers.
THEOREM Refinement == Spec => StreamSpec
<1>1. Init => Stream!Init
  BY ContentEmpty DEF Init, Stream!Init, Available
<1>2. IInv /\ Order /\ [Next]_vars => [Stream!Next]_(Stream!streamVars)
  BY PipeAssumption, StreamStep
<1>3. Init => IInv
  BY PipeAssumption, InitTyping
<1>4. IInv /\ [Next]_vars => IInv'
  BY PipeAssumption, Typing
<1> QED
  BY <1>1, <1>2, <1>3, <1>4, OrderHolds, PTL DEF Spec, StreamSpec, Stream!Spec
-----------------------------------------------------------------------------
(* A single reader loses nothing.                                          *)

\* As long as the reader of Open is the only one, the client points at it
\* and it is not cancelled.
OnlyReader ==
  port = "open" =>
    /\ started >= 1
    /\ started = 1 => pipeRd = 1 /\ pipCancel = 1 /\ ~done[1]

\* As long as one reader was started, every step keeps the others idle.
LEMMA OnlyReaderStep ==
  ASSUME PipeAssumption, IInv, OnlyReader, [Next]_vars
  PROVE  OnlyReader'
<1> USE DEF OnlyReader
<1>0. started \in Nat
  BY DEF IInv, TypeOK
<1>1. CASE Arrive \/ ReadByte \/ UNCHANGED vars
  BY <1>1 DEF Arrive, ReadByte, clientVars, vars
<1>2. CASE Open
  <2>1. started = 0 /\ started' = 1 /\ pipeRd' = 1 /\ pipCancel' = 1 /\ done' = done
    BY <1>2 DEF Open, Launch, IInv, Unstarted
  <2>2. 1 \in Readers /\ 1 > 0
    BY DEF PipeAssumption
  <2>3. ~done[1]
    BY <2>1, <2>2 DEF IInv, Unstarted
  <2> QED
    BY <2>1, <2>3
<1>3. CASE StartPipeReader \/ RestartPipeReader
  <2>1. port = "open" /\ started' = started + 1
    BY <1>3 DEF StartPipeReader, RestartPipeReader, Launch
  <2> QED
    BY <1>0, <2>1
<1>4. CASE Close
  BY <1>4 DEF Close
<1>5. CASE \E r \in Readers : ReaderStep(r)
  BY <1>5 DEF ReaderStep, ReaderCheck, ReaderRead, ReaderTimeout, ReaderFail,
              ReaderPush, ReaderAbandon, clientVars
<1> QED
  BY <1>1, <1>2, <1>3, <1>4, <1>5 DEF Next

\* Moving the first byte of t to the end of s leaves their concatenation alone.
LEMMA ConcatMove ==
  ASSUME NEW s \in Seq(Nat), NEW t \in Seq(Nat), t # <<>>
  PROVE  Append(s, Head(t)) \o Tail(t) = s \o t
<1> DEFINE a == Append(s, Head(t))
           u == Tail(t)
<1>1. /\ Head(t) = t[1] /\ u \in Seq(Nat) /\ Len(u) = Len(t) - 1 /\ Len(t) \in Nat \ {0}
      /\ \A i \in 1 .. Len(u) : u[i] = t[i + 1]
  BY TailFacts
<1>2. Head(t) \in Nat
  BY TailFacts
<1>3. /\ a \in Seq(Nat) /\ Len(a) = Len(s) + 1 /\ Len(s) \in Nat
      /\ \A i \in 1 .. Len(s) : a[i] = s[i]
      /\ a[Len(s) + 1] = t[1]
  BY <1>1, <1>2, AppendFacts
<1> HIDE DEF a, u
<1>4. /\ a \o u \in Seq(Nat) /\ Len(a \o u) = Len(s) + Len(t)
      /\ \A i \in 1 .. Len(s) + Len(t) :
           (a \o u)[i] = IF i <= Len(s) + 1 THEN a[i] ELSE u[i - (Len(s) + 1)]
  <2>1. /\ a \o u \in Seq(Nat) /\ Len(a \o u) = Len(a) + Len(u)
        /\ \A i \in 1 .. Len(a) + Len(u) :
             (a \o u)[i] = IF i <= Len(a) THEN a[i] ELSE u[i - Len(a)]
    BY <1>1, <1>3, ConcatProperties, Zenon
  <2>2. Len(a) + Len(u) = Len(s) + Len(t)
    BY <1>1, <1>3
  <2> QED
    BY <1>3, <2>1, <2>2
<1>5. /\ s \o t \in Seq(Nat) /\ Len(s \o t) = Len(s) + Len(t)
      /\ \A i \in 1 .. Len(s) + Len(t) :
           (s \o t)[i] = IF i <= Len(s) THEN s[i] ELSE t[i - Len(s)]
  BY ConcatProperties
<1>6. ASSUME NEW i \in 1 .. Len(s) + Len(t)
      PROVE  (a \o u)[i] = (s \o t)[i]
  <2>1. CASE i <= Len(s)
    BY <1>3, <1>4, <1>5, <2>1
  <2>2. CASE i = Len(s) + 1
    BY <1>1, <1>3, <1>4, <1>5, <2>2
  <2>3. CASE i > Len(s) + 1
    <3>1. i - (Len(s) + 1) \in 1 .. Len(u) /\ (i - (Len(s) + 1)) + 1 = i - Len(s)
      BY <1>1, <1>3, <2>3
    <3>2. (a \o u)[i] = u[i - (Len(s) + 1)]
      BY <1>3, <1>4, <2>3
    <3>3. u[i - (Len(s) + 1)] = t[i - Len(s)]
      BY <1>1, <3>1
    <3>4. (s \o t)[i] = t[i - Len(s)]
      BY <1>3, <1>5, <2>3
    <3> QED
      BY <3>2, <3>3, <3>4
  <2>4. i <= Len(s) \/ i = Len(s) + 1 \/ i > Len(s) + 1
    BY <1>1, <1>3
  <2> QED
    BY <2>1, <2>2, <2>3, <2>4, Zenon
<1>7. a \o u = s \o t
  BY <1>4, <1>5, <1>6, SeqEqual
<1> QED
  BY <1>7 DEF a, u

\* The first byte of a concatenation is the first of its left part.
LEMMA ConcatTail ==
  ASSUME NEW s \in Seq(Nat), NEW t \in Seq(Nat), s # <<>>
  PROVE  /\ s \o t \in Seq(Nat)
         /\ s \o t # <<>>
         /\ Head(s \o t) = Head(s)
         /\ Tail(s \o t) = Tail(s) \o t
  OBVIOUS

\* Concatenation is associative.
LEMMA Regroup ==
  ASSUME NEW s \in Seq(Nat), NEW t \in Seq(Nat), NEW u \in Seq(Nat)
  PROVE  (s \o t) \o u = s \o (t \o u)
  BY ConcatAssociative

\* The two parts of a split sequence give it back.
LEMMA ChunkConcat ==
  ASSUME NEW s \in Seq(Nat), NEW k \in 0 .. Len(s)
  PROVE  SubSeq(s, 1, k) \o SubSeq(s, k + 1, Len(s)) = SubSeq(s, 1, Len(s))
<1>1. /\ Len(s) \in Nat
      /\ 1 \in 1 .. Len(s) + 1 /\ k \in 1 - 1 .. Len(s) /\ Len(s) \in k .. Len(s)
  OBVIOUS
<1> QED
  BY <1>1, ConcatAdjacentSubSeq, Zenon

\* Appending to the right part appends to the concatenation.
LEMMA ConcatAppend ==
  ASSUME NEW s \in Seq(Nat), NEW t \in Seq(Nat), NEW e \in Nat
  PROVE  s \o Append(t, e) = Append(s \o t, e)
<1>1. s \o t \in Seq(Nat)
  BY ConcatProperties
<1>2. <<e>> \in Seq(Nat)
  OBVIOUS
<1>3. Append(t, e) = t \o <<e>> /\ Append(s \o t, e) = (s \o t) \o <<e>>
  BY <1>1, AppendIsConcat, Zenon
<1>4. (s \o t) \o <<e>> = s \o (t \o <<e>>)
  BY <1>2, Regroup
<1> QED
  BY <1>3, <1>4, Zenon

\* What has arrived after byte k, when n is the last.
Interval(k, n) == [i \in 1 .. (n - k) |-> k + i]

\* The interval k + 1 .. n as a sequence: how it starts, grows and shrinks.
LEMMA IntervalFacts ==
  ASSUME NEW k \in Nat, NEW n \in Nat, k <= n
  PROVE  /\ Interval(k, k) = <<>>
         /\ Interval(k, n) \in Seq(Nat)
         /\ Append(Interval(k, n), n + 1) = Interval(k, n + 1)
         /\ Interval(k, n) # <<>> => Head(Interval(k, n)) = k + 1
         /\ Interval(k, n) # <<>> => Tail(Interval(k, n)) = Interval(k + 1, n)
<1>1. n - k \in Nat /\ Interval(k, n) \in Seq(Nat) /\ Len(Interval(k, n)) = n - k
  BY DEF Interval
<1>2. Interval(k, k) = <<>>
  BY DEF Interval
<1>3. Append(Interval(k, n), n + 1) = Interval(k, n + 1)
  <2>1. Append(Interval(k, n), n + 1) \in Seq(Nat) /\ Interval(k, n + 1) \in Seq(Nat)
    BY <1>1 DEF Interval
  <2> QED
    BY <1>1, <2>1 DEF Interval
<1>4. ASSUME Interval(k, n) # <<>>
      PROVE  /\ Head(Interval(k, n)) = k + 1
             /\ Tail(Interval(k, n)) = Interval(k + 1, n)
  <2>1. n - k > 0
    BY <1>1, <1>4
  <2>2. Head(Interval(k, n)) = k + 1
    BY <1>1, <2>1 DEF Interval
  <2>3. /\ Tail(Interval(k, n)) \in Seq(Nat)
        /\ Len(Tail(Interval(k, n))) = n - k - 1
        /\ \A i \in 1 .. n - k - 1 : Tail(Interval(k, n))[i] = Interval(k, n)[i + 1]
    BY <1>1, <1>4, TailFacts
  <2>4. /\ Interval(k + 1, n) \in Seq(Nat) /\ Len(Interval(k + 1, n)) = n - k - 1
        /\ \A i \in 1 .. n - k - 1 : Interval(k + 1, n)[i] = Interval(k, n)[i + 1]
    BY <2>1 DEF Interval
  <2>5. Tail(Interval(k, n)) = Interval(k + 1, n)
    BY <2>3, <2>4, SeqEqual
  <2> QED
    BY <2>2, <2>5
<1> QED
  BY <1>1, <1>2, <1>3, <1>4

LosslessInv == OnlyReader /\ Lossless

\* Every step keeps Lossless.
LEMMA LosslessStep ==
  ASSUME PipeAssumption, IInv, Order, LosslessInv, [Next]_vars
  PROVE  Lossless'
<1> SUFFICES ASSUME port' = "open", started' = 1
             PROVE  ch'[1] \o buf'[1] \o rx' = Interval(last', arrived')
  BY DEF Lossless, Interval
<1> DEFINE q == ch[1] \o buf[1]
           p == q \o rx
<1>0. /\ TypeOK /\ Unstarted /\ 1 \in Readers
      /\ rx \in Seq(Nat) /\ ch[1] \in Seq(Nat) /\ buf[1] \in Seq(Nat)
      /\ arrived \in Nat /\ last \in Nat /\ last <= arrived /\ started \in Nat
  BY Numbers DEF IInv, Order, TypeOK, PipeAssumption
<1>1. q \in Seq(Nat) /\ p \in Seq(Nat)
  BY <1>0, ConcatProperties
<1>2. CASE Open
  <2>1. /\ port = "new" /\ UNCHANGED <<arrived, rx, last, ch, buf>>
    BY <1>2 DEF Open
  <2>2. /\ arrived = 0 /\ last = 0 /\ rx = <<>> /\ ch[1] = <<>> /\ buf[1] = <<>>
    BY <1>0, <2>1 DEF Unstarted, TypeOK
  <2> QED
    BY <1>0, <2>1, <2>2, IntervalFacts
<1>3. CASE StartPipeReader \/ RestartPipeReader
  <2>1. port = "open" /\ started' = started + 1
    BY <1>3 DEF StartPipeReader, RestartPipeReader, Launch
  <2> QED
    BY <1>0, <2>1 DEF LosslessInv, OnlyReader
<1>4. CASE Close
  BY <1>4 DEF Close
<1> SUFFICES ASSUME UNCHANGED <<port, started, pipeRd, done>>,
                    port = "open", started = 1, pipeRd = 1, ~done[1],
                    p = Interval(last, arrived)
             PROVE  ch'[1] \o buf'[1] \o rx' = Interval(last', arrived')
  <2>1. CASE Arrive \/ ReadByte \/ (\E r \in Readers : ReaderStep(r)) \/ UNCHANGED vars
    <3>1. UNCHANGED <<port, started, pipeRd, done>>
      BY <2>1 DEF Arrive, ReadByte, ReaderStep, ReaderCheck, ReaderRead, ReaderTimeout,
                  ReaderFail, ReaderPush, ReaderAbandon, clientVars, vars
    <3>2. port = "open" /\ started = 1
      BY <3>1
    <3> QED
      BY <3>1, <3>2 DEF LosslessInv, OnlyReader, Lossless, Interval
  <2> QED
    BY <1>2, <1>3, <1>4, <2>1 DEF Next
<1>5. CASE Arrive
  <2>1. /\ rx' = Append(rx, arrived + 1) /\ arrived' = arrived + 1
        /\ UNCHANGED <<ch, buf, last>>
    BY <1>5 DEF Arrive, readerVars
  <2>2. q \o Append(rx, arrived + 1) = Append(p, arrived + 1)
    <3>1. arrived + 1 \in Nat
      BY <1>0
    <3> HIDE DEF q
    <3> QED
      BY <1>0, <1>1, <3>1, ConcatAppend, Zenon
  <2>3. Append(Interval(last, arrived), arrived + 1) = Interval(last, arrived + 1)
    BY <1>0, IntervalFacts
  <2>4. ch'[1] \o buf'[1] \o rx' = q \o Append(rx, arrived + 1)
    BY <2>1
  <2> HIDE DEF p, q
  <2> QED
    BY <2>1, <2>2, <2>3, <2>4
<1>6. CASE ReadByte
  <2>1. /\ ch[1] # <<>> /\ last' = Head(ch[1]) /\ ch'[1] = Tail(ch[1])
        /\ UNCHANGED <<arrived, rx, buf>>
    BY <1>0, <1>6 DEF ReadByte, TakeFrom, TypeOK
  <2>2. /\ q # <<>>
        /\ Head(q) = Head(ch[1])
        /\ Tail(q) = Tail(ch[1]) \o buf[1]
    BY <1>0, <2>1, ConcatTail, Zenon
  <2>3. p # <<>> /\ Head(p) = Head(q) /\ Tail(p) = Tail(q) \o rx
    <3> HIDE DEF q
    <3> QED
      BY <1>0, <1>1, <2>2, ConcatTail, Zenon
  <2>4. ch'[1] \o buf'[1] \o rx' = Tail(q) \o rx
    BY <2>1, <2>2
  <2>5. last' = last + 1 /\ Tail(p) = Interval(last + 1, arrived)
    <3> HIDE DEF p, q
    <3> QED
      BY <1>0, <2>1, <2>2, <2>3, IntervalFacts
  <2> HIDE DEF p, q
  <2> QED
    BY <2>1, <2>3, <2>4, <2>5
<1>7. CASE \E r \in Readers : ReaderStep(r)
  <2>1. PICK r \in Readers : ReaderStep(r)
    BY <1>7
  <2>2. r = 1
    <3>1. pc[r] # "off"
      BY <2>1 DEF ReaderStep, ReaderCheck, ReaderRead, ReaderTimeout,
                  ReaderFail, ReaderPush, ReaderAbandon
    <3> QED
      BY <1>0, <3>1 DEF Unstarted
  <2>3. CASE ReaderCheck(1) \/ ReaderTimeout(1) \/ ReaderFail(1)
    BY <2>3 DEF ReaderCheck, ReaderTimeout, ReaderFail, clientVars
  <2>4. CASE ReaderRead(1)
    <3> DEFINE c == SubSeq(rx, 1, Chunk)
               d == SubSeq(rx, Chunk + 1, Len(rx))
    <3>1. /\ rx # <<>> /\ rx' = d /\ buf'[1] = c /\ buf[1] = <<>>
          /\ UNCHANGED <<arrived, ch, last>>
      BY <1>0, <2>4 DEF ReaderRead, TypeOK
    <3>2. c \in Seq(Nat) /\ d \in Seq(Nat)
      BY <1>0, <3>1, ChunkOrder
    <3>3. c \o d = rx
      <4> HIDE DEF Chunk
      <4>1. Len(rx) \in Nat /\ Chunk \in 1 .. Len(rx)
        <5>1. Len(rx) \in Nat
          BY <1>0
        <5> QED
          BY <1>0, <3>1, <5>1, ChunkFacts, Zenon
      <4>2. /\ 1 \in 1 .. Len(rx) + 1 /\ Chunk \in 0 .. Len(rx)
            /\ Len(rx) \in Chunk .. Len(rx)
        BY <4>1
      <4>3. c \o d = SubSeq(rx, 1, Len(rx))
        BY <1>0, <4>1, <4>2, ChunkConcat
      <4> QED
        BY <1>0, <4>3, SubSeqFull
    <3> HIDE DEF c, d
    <3>4. ch[1] \o <<>> = ch[1]
      BY <1>0, ConcatEmptySeq
    <3>5. (ch[1] \o c) \o d = ch[1] \o (c \o d)
      <4>1. c \in Seq(Nat) /\ d \in Seq(Nat) /\ ch[1] \in Seq(Nat)
        BY <1>0, <3>2
      <4> QED
        BY <4>1, Regroup, Zenon
    <3> QED
      BY <3>1, <3>3, <3>4, <3>5
  <2>5. CASE ReaderPush(1)
    <3>1. /\ buf[1] # <<>> /\ ch'[1] = Append(ch[1], Head(buf[1])) /\ buf'[1] = Tail(buf[1])
          /\ UNCHANGED <<arrived, rx, last>>
      BY <1>0, <2>5 DEF ReaderPush, TypeOK
    <3>2. ch'[1] \o buf'[1] = ch[1] \o buf[1]
      BY <1>0, <3>1, ConcatMove
    <3> QED
      BY <3>1, <3>2
  <2>6. CASE ReaderAbandon(1)
    BY <2>6 DEF ReaderAbandon
  <2> QED
    BY <2>1, <2>2, <2>3, <2>4, <2>5, <2>6 DEF ReaderStep
<1>8. CASE UNCHANGED vars
  BY <1>8 DEF vars
<1> QED
  BY <1>2, <1>3, <1>4, <1>5, <1>6, <1>7, <1>8 DEF Next

\* While the reader of Open is the only one, what is between the bus and the
\* caller is exactly what has arrived and not been taken.
THEOREM LosslessHolds == Spec => []Lossless
<1>1. Init => IInv /\ LosslessInv
  <2> SUFFICES ASSUME Init
               PROVE  IInv /\ LosslessInv
    OBVIOUS
  <2> QED
    BY PipeAssumption, InitTyping DEF Init, LosslessInv, OnlyReader, Lossless
<1>2. IInv /\ Order /\ LosslessInv /\ [Next]_vars => IInv' /\ LosslessInv'
  BY PipeAssumption, Typing, OnlyReaderStep, LosslessStep DEF LosslessInv
<1>3. LosslessInv => Lossless
  BY DEF LosslessInv
<1> QED
  BY <1>1, <1>2, <1>3, OrderHolds, PTL DEF Spec
=============================================================================
