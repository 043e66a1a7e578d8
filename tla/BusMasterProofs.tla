--------------------------- MODULE BusMasterProofs ---------------------------
(***************************************************************************)
(* Proofs about BusMaster, for any targets, any devices, any number of     *)
(* disturbances, and answers that take any time.                           *)
(***************************************************************************)
EXTENDS BusMaster, FiniteSetTheorems, SequenceTheorems, TLAPS

\* Where the master is; what it has reported belongs to targets before the
\* present one, and a scan over TCP ends before it sends anything.
Loop ==
  /\ pc # "next" => i <= Len(job.targets)
  /\ pc = "data" => Mode \in {"probe", "ud1", "ud2"}
  /\ \A k \in 1 .. Len(vals) : vals[k].target < i
  /\ Scanning /\ ~Piped => pc \in {"next", "drain"} /\ flight = <<>>

BusTyping == TypeOK /\ Loop

\* The queues, without a frame and with one frame for target j.
Framed(e) == e.kind \in {"frame", "bad"}
Quiet(s) == \A n \in 1 .. Len(s) : ~Framed(s[n])
Single(s, j) ==
  \E n \in 1 .. Len(s) :
    /\ Framed(s[n])
    /\ s[n].req = j
    /\ \A m \in 1 .. Len(s) : Framed(s[m]) => m = n

\* Between the exchanges of a cat no frame is under way, within one at most that
\* of the exchange: every way to go on without it ends the command.
OneFrame ==
  ~Scanning /\ Running =>
    \/ Quiet(flight) /\ Quiet(chan)
    \/ pc = "data" /\ \/ Single(flight, i) /\ Quiet(chan)
                      \/ Quiet(flight) /\ Single(chan, i)

CatInv == OneFrame /\ OwnFrame

\* From the drain to its end an exchange of a patient scan meets nothing but
\* noise and its own answers, and goes on only when the device has acknowledged.
Settled == Scanning /\ job.patient /\ job.settles
Own(s) ==
  \A n \in 1 .. Len(s) :
    \/ s[n].kind = "junk"
    \/ s[n].req = i /\ (s[n].kind = "E5" => Acks(Primary(i)))

ScanExchange ==
  Settled /\ Running =>
    /\ pc = "drain" => flight = <<>>
    /\ pc \in {"nke", "ack", "request", "data"} => Own(flight) /\ Own(chan)
    /\ pc \in {"request", "data"} => Acks(Primary(i))

ScanInv == ScanExchange /\ NoPhantom

\* An exchange of a scan that nothing has disturbed.
E5 == [kind |-> "E5", from |-> Primary(i), req |-> i]
LongFrame == [kind |-> "frame", from |-> Primary(i), req |-> i]
UnderWay(e) ==
  \/ flight = <<e>> /\ chan = <<>>
  \/ flight = <<>> /\ chan = <<e>>
Nothing == flight = <<>> /\ chan = <<>>

Undisturbed ==
  /\ pc = "drain" => flight = <<>>
  /\ pc = "nke" => Nothing
  /\ pc = "ack" => IF Acks(Primary(i)) THEN UnderWay(E5) ELSE Nothing
  /\ pc = "request" => Acks(Primary(i)) /\ Nothing
  /\ pc = "data" => Acks(Primary(i)) /\ IF HasData(Primary(i)) THEN UnderWay(LongFrame) ELSE Nothing

\* The results spoilt so far, each by a disturbance of its own.
Damaged(n) == {k \in 1 .. n : Spoilt(k)}

DamageInv ==
  /\ Settled /\ Running =>
       /\ Cardinality(Damaged(i - 1)) <= faults
       /\ pc # "next" => Undisturbed \/ Cardinality(Damaged(i - 1)) < faults
  /\ DamageIsLocal

\* What a patient cat on an undisturbed bus still has to do for targets that
\* answer.
AllAnswer ==
  /\ ~Scanning /\ job.patient /\ faults = 0
  /\ \A k \in 1 .. Len(job.targets) :
       \/ job.targets[k].mode = "nke"
       \/ job.targets[k].mode \in {"ud1", "ud2"} /\ HasData(Primary(k))

Intact(s) == \A n \in 1 .. Len(s) : s[n].kind \in {"E5", "frame"}

ReadsInv ==
  AllAnswer =>
    /\ exit \in {"running", "0"}
    /\ Len(vals) = i - 1
    /\ Intact(flight) /\ Intact(chan)
    /\ Running /\ pc = "data" => ~(Quiet(flight) /\ Quiet(chan))
    /\ exit = "0" => i = Len(job.targets) + 1
-----------------------------------------------------------------------------
\* What the present exchange is about.
LEMMA PresentTarget ==
  ASSUME BusTyping, pc # "next"
  PROVE  /\ i \in 1 .. Len(job.targets)
         /\ Mode \in Modes
         /\ (Mode = "probe") <=> Scanning
         /\ Primary(i) \in Primaries
<1>1. IsJob(job)
  BY BusAssumption DEF BusTyping, TypeOK
<1>2. job.targets \in Seq([addr : Nat, mode : Modes])
  BY <1>1 DEF IsJob
<1>3. i \in 1 .. Len(job.targets)
  BY <1>2 DEF BusTyping, TypeOK, Loop
<1>4. job.targets[i] \in [addr : Nat, mode : Modes]
  BY <1>2, <1>3, ElementOfSeq
<1>5. (Mode = "probe") <=> Scanning
  BY <1>1, <1>3 DEF IsJob, Mode, Scanning
<1>6. Primary(i) \in Primaries
  <2>1. AddrMod \in Nat /\ AddrMod > 0 /\ job.targets[i].addr \in Nat
    BY <1>4, BusAssumption
  <2>2. \A a \in Nat : a % AddrMod \in 0 .. AddrMod - 1
    BY <2>1
  <2> QED
    BY <2>1, <2>2 DEF Primary, Primaries
<1>7. Mode \in Modes
  BY <1>4 DEF Mode
<1> QED
  BY <1>3, <1>5, <1>6, <1>7

\* The job has targets, as many as their number says.
LEMMA Targets ==
  ASSUME TypeOK
  PROVE  /\ Len(job.targets) \in Nat \ {0}
         /\ i \in Nat \ {0}
         /\ i <= Len(job.targets) + 1
<1>1. IsJob(job)
  BY BusAssumption DEF TypeOK
<1>2. job.targets \in Seq([addr : Nat, mode : Modes]) /\ job.targets # <<>>
  BY <1>1 DEF IsJob
<1>3. Len(job.targets) \in Nat \ {0}
  BY <1>2
<1> QED
  BY <1>3 DEF TypeOK

\* What is sent is an answer to the present request.
LEMMA AnswerTyped ==
  ASSUME BusTyping, pc # "next", NEW a, NEW kind \in {"E5", "frame"}, Answered(a, kind)
  PROVE  flight' \in Seq(Replies)
<1>1. Primary(i) \in Primaries /\ i \in Nat
  BY PresentTarget
<1>2. [kind |-> kind, from |-> Primary(i), req |-> i] \in Replies
  BY <1>1 DEF Replies
<1>3. flight \in Seq(Replies)
  BY DEF BusTyping, TypeOK
<1> QED
  BY <1>2, <1>3 DEF Answered

\* A result belongs to the present target.
LEMMA ValueTyped ==
  ASSUME BusTyping, pc # "next", NEW f \in Replies, Value(f)
  PROVE  /\ vals' \in Seq([target : 1 .. Len(job.targets), frame : Replies])
         /\ \A k \in 1 .. Len(vals') : vals'[k].target < i + 1
<1>1. i \in 1 .. Len(job.targets)
  BY PresentTarget
<1> DEFINE T == [target : 1 .. Len(job.targets), frame : Replies]
           v == [target |-> i, frame |-> f]
<1>2. vals \in Seq(T) /\ v \in T /\ i \in Nat
  BY <1>1 DEF BusTyping, TypeOK
<1>3. ASSUME NEW k \in 1 .. Len(vals) PROVE vals[k].target \in Nat /\ vals[k].target < i
  <2>1. vals[k] \in T
    BY <1>2, ElementOfSeq
  <2> QED
    BY <2>1 DEF BusTyping, Loop
<1>4. vals' = Append(vals, v)
  BY DEF Value
<1>5. vals' \in Seq(T)
  BY <1>2, <1>4
<1>6. ASSUME NEW k \in 1 .. Len(vals') PROVE vals'[k].target < i + 1
  <2>1. CASE k = Len(vals) + 1
    <3>1. vals'[k] = v
      BY <1>2, <1>4, <2>1
    <3> QED
      BY <3>1, <1>2
  <2>2. CASE k # Len(vals) + 1
    <3>1. k \in 1 .. Len(vals) /\ vals'[k] = vals[k]
      BY <1>2, <1>4, <1>6, <2>2
    <3>2. vals[k].target \in Nat
      BY <3>1, <1>3
    <3> QED
      BY <3>1, <3>2, <1>2, <1>3
  <2> QED
    BY <2>1, <2>2
<1> QED
  BY <1>5, <1>6

\* What is no frame is a reply, too.
LEMMA NoFrameTyped == NoFrame \in Replies /\ Junk \in Replies
BY BusAssumption DEF NoFrame, Junk, Replies, Primaries

\* The next target is there, or it is the end of the list.
LEMMA NextTargetTyped ==
  ASSUME BusTyping, pc # "next", NextTarget
  PROVE  i' \in 1 .. Len(job.targets) + 1 /\ i' = i + 1 /\ pc' = "next" /\ exit' = exit
<1>1. i \in 1 .. Len(job.targets)
  BY PresentTarget
<1> QED
  BY <1>1, Targets DEF NextTarget, BusTyping

\* An exchange without a frame: a hit without data, or the end of cat.
LEMMA NoDataTyped ==
  ASSUME BusTyping, pc # "next", NoData, UNCHANGED busVars
  PROVE  /\ vals' \in Seq([target : 1 .. Len(job.targets), frame : Replies])
         /\ \A k \in 1 .. Len(vals') : vals'[k].target < i'
         /\ i' \in 1 .. Len(job.targets) + 1
         /\ \/ pc' = "next" /\ exit' = exit /\ i' = i + 1
            \/ pc' = pc /\ exit' = "error" /\ vals' = <<>> /\ i' = i
<1>1. CASE Scanning
  BY <1>1, ValueTyped, NoFrameTyped, NextTargetTyped DEF NoData
<1>2. CASE ~Scanning
  <2>1. exit' = "error" /\ vals' = <<>> /\ pc' = pc /\ i' = i
    BY <1>2 DEF NoData, ReadError, Fail
  <2> QED
    BY <2>1 DEF BusTyping, TypeOK
<1> QED
  BY <1>1, <1>2

\* A scan has no target of a wrong kind.
LEMMA WrongKindInCat ==
  ASSUME BusTyping, WrongKind
  PROVE  /\ ~Scanning /\ i \in 1 .. Len(job.targets) /\ Mode = "foreign"
         /\ vals' = <<>> /\ exit' = "error" /\ UNCHANGED <<flight, chan, faults, i, pc>>
<1>1. IsJob(job)
  BY BusAssumption DEF BusTyping, TypeOK
<1>2. i \in 1 .. Len(job.targets)
  <2>1. i \in Nat \ {0} /\ i <= Len(job.targets) /\ Len(job.targets) \in Nat
    BY Targets DEF BusTyping, WrongKind
  <2> QED
    BY <2>1
<1>3. Mode = "foreign" /\ ~Scanning
  BY <1>1, <1>2 DEF WrongKind, IsJob, Mode, Scanning
<1> QED
  BY <1>2, <1>3 DEF WrongKind, Fail

\* The types are kept by every step of the bus and of the master.
LEMMA TypingKept == BusTyping /\ [Next]_vars => BusTyping'
<1> SUFFICES ASSUME BusTyping, [Next]_vars PROVE BusTyping'
  OBVIOUS
<1>t. TypeOK /\ Loop
  BY DEF BusTyping
<1>n. faults \in Nat /\ MaxFaults \in Nat /\ i \in Nat
  BY <1>t, BusAssumption DEF TypeOK
<1>f. Fault => faults' \in 0 .. MaxFaults
  BY <1>n DEF Fault
<1>q. ASSUME NEW s \in Seq(Replies), s # <<>>
      PROVE  Head(s) \in Replies /\ Tail(s) \in Seq(Replies)
  BY <1>q
<1>0. UNCHANGED busVars
  BY DEF Next, MasterStep, Deliver, Noise, Corrupt, Finish, WrongKind, Gap, Drain, SendNKE, SendNKEFails, ScanAck, CatAck,
         AckTimeout, NoRequest, SendRequest, SendRequestFails, ReadLong, DataTimeout, vars
<1>j. job' = job /\ bus' = bus
  BY <1>0 DEF busVars
\* The queues change, and the master stays where it is.
<1>b. ASSUME flight' \in Seq(Replies), chan' \in Seq(Replies), faults' \in 0 .. MaxFaults,
             flight = <<>> => flight' = <<>>,
             UNCHANGED <<pc, i, vals, exit>>
      PROVE  BusTyping'
  <2>1. TypeOK'
    BY <1>b, <1>j, <1>t DEF TypeOK
  <2>2. Loop'
    BY <1>b, <1>j, <1>t DEF Loop, Mode, Scanning, Piped
  <2> QED
    BY <2>1, <2>2 DEF BusTyping
\* The master goes on to its next step within the exchange.
<1>w. ASSUME flight' \in Seq(Replies), chan' \in Seq(Replies), faults' \in 0 .. MaxFaults,
             UNCHANGED <<i, vals>>, i <= Len(job.targets),
             pc' \in {"drain", "nke", "ack", "request", "data"},
             pc' = "data" => Mode \in {"probe", "ud1", "ud2"},
             Scanning /\ ~Piped => pc' = "drain" /\ flight' = <<>>,
             exit' \in {"running", "panic"}
      PROVE  BusTyping'
  <2>1. TypeOK'
    BY <1>w, <1>j, <1>t DEF TypeOK
  <2>2. Loop'
    BY <1>w, <1>j, <1>t DEF Loop, Mode, Scanning, Piped
  <2> QED
    BY <2>1, <2>2 DEF BusTyping
\* It leaves the exchange.
<1>x. ASSUME flight' \in Seq(Replies), chan' \in Seq(Replies), faults' \in 0 .. MaxFaults,
             vals' \in Seq([target : 1 .. Len(job.targets), frame : Replies]),
             \A k \in 1 .. Len(vals') : vals'[k].target < i',
             i' \in 1 .. Len(job.targets) + 1,
             pc' = "next",
             Piped \/ ~Scanning,
             exit' = "running"
      PROVE  BusTyping'
  <2>1. TypeOK'
    BY <1>x, <1>j, <1>t DEF TypeOK
  <2>2. Loop'
    BY <1>x, <1>j, <1>t DEF Loop, Scanning, Piped
  <2> QED
    BY <2>1, <2>2 DEF BusTyping
\* It fails.
<1>y. ASSUME flight' \in Seq(Replies), chan' \in Seq(Replies), faults' \in 0 .. MaxFaults,
             vals' = <<>>, UNCHANGED <<i, pc>>, exit' = "error", Piped \/ ~Scanning
      PROVE  BusTyping'
  <2>1. TypeOK'
    BY <1>y, <1>j, <1>t DEF TypeOK
  <2>2. Loop'
    BY <1>y, <1>j, <1>t DEF Loop, Mode, Scanning, Piped
  <2> QED
    BY <2>1, <2>2 DEF BusTyping
<1>z. ASSUME NextTarget, UNCHANGED vals, pc # "next"
      PROVE  /\ \A k \in 1 .. Len(vals') : vals'[k].target < i'
             /\ vals' \in Seq([target : 1 .. Len(job.targets), frame : Replies])
             /\ i' \in 1 .. Len(job.targets) + 1 /\ pc' = "next" /\ exit' = exit
  <2>1. i' = i + 1 /\ vals' \in Seq([target : 1 .. Len(job.targets), frame : Replies])
    BY <1>z, <1>t, NextTargetTyped DEF TypeOK
  <2>2. ASSUME NEW k \in 1 .. Len(vals) PROVE vals[k].target < i + 1
    <3>1. vals[k] \in [target : 1 .. Len(job.targets), frame : Replies]
      BY <2>1, <1>z, ElementOfSeq
    <3>2. vals[k].target \in Nat /\ vals[k].target < i
      BY <3>1, <1>t DEF Loop
    <3> QED
      BY <3>2, <1>n
  <2> QED
    BY <1>z, <2>1, <2>2, NextTargetTyped
<1>1. CASE Deliver
  <2>1. chan' \in Seq(Replies) /\ flight' \in Seq(Replies)
    BY <1>1, <1>t, <1>q DEF Deliver, TypeOK
  <2> QED
    BY <1>1, <1>b, <2>1, <1>t DEF Deliver, TypeOK
<1>2. CASE Noise
  BY <1>2, <1>b, <1>t, <1>f, NoFrameTyped DEF Noise, TypeOK
<1>3. CASE Corrupt
  <2>1. flight # <<>> /\ flight \in Seq(Replies)
    BY <1>3, <1>t DEF Corrupt, TypeOK
  <2>2. [Head(flight) EXCEPT !.kind = "bad"] \in Replies
    <3> DEFINE h == Head(flight)
    <3>1. h \in Replies
      BY <2>1, <1>q
    <3> HIDE DEF h
    <3>2. [h EXCEPT !.kind = "bad"] \in Replies
      BY <3>1 DEF Replies
    <3> QED
      BY <3>2 DEF h
  <2>3. chan' \in Seq(Replies) /\ flight' \in Seq(Replies)
    BY <1>3, <1>t, <1>q, <2>1, <2>2, NoFrameTyped DEF Corrupt, TypeOK
  <2> QED
    BY <1>3, <1>b, <2>3, <1>f DEF Corrupt
<1>4. CASE Finish
  <2>1. TypeOK'
    BY <1>4, <1>t, <1>j DEF Finish, TypeOK
  <2>2. Loop'
    BY <1>4, <1>t, <1>j DEF Finish, Loop, At, Mode, Scanning, Piped
  <2> QED
    BY <2>1, <2>2 DEF BusTyping
<1>5. CASE Gap
  <2>1. i <= Len(job.targets) /\ pc' = "drain" /\ exit' = "running" /\ flight' = flight
    BY <1>5 DEF Gap, At, Running
  <2>2. Scanning /\ ~Piped => flight' = <<>>
    BY <2>1, <1>t DEF Loop
  <2> QED
    BY <1>5, <2>1, <2>2, <1>w, <1>t DEF Gap, TypeOK
<1>6. CASE Drain
  <2>1. chan' = <<>> \/ chan' = chan
    BY <1>6 DEF Drain, Drained
  <2>2. chan' \in Seq(Replies)
    <3>1. <<>> \in Seq(Replies) /\ chan \in Seq(Replies)
      BY <1>t, EmptySeq DEF TypeOK
    <3> QED
      BY <2>1, <3>1
  <2>3. i <= Len(job.targets)
    BY <1>6, <1>t DEF Drain, At, Loop
  <2>4. pc' \in {"drain", "nke"} /\ exit' \in {"running", "panic"} /\ (Scanning /\ ~Piped => pc' = "drain" /\ flight' = <<>>)
    BY <1>6, <1>t DEF Drain, At, Running, Loop
  <2> QED
    BY <1>6, <1>w, <2>2, <2>3, <2>4, <1>t DEF Drain, TypeOK
<1>7. CASE SendNKE
  <2>1. pc = "nke" /\ i <= Len(job.targets) /\ exit' = "running" /\ (Piped \/ ~Scanning)
    BY <1>7, <1>t DEF SendNKE, At, Running, Loop
  <2>2. flight' \in Seq(Replies)
    BY <1>7, <2>1, AnswerTyped DEF SendNKE
  <2> QED
    BY <1>7, <1>w, <2>1, <2>2, <1>t DEF SendNKE, TypeOK
<1>8. CASE SendNKEFails
  <2>1. pc = "nke" /\ i <= Len(job.targets) /\ exit = "running" /\ (Piped \/ ~Scanning)
    BY <1>8, <1>t DEF SendNKEFails, At, Running, Loop
  <2>2. flight' \in Seq(Replies)
    BY <1>8, <2>1, <1>t, AnswerTyped DEF SendNKEFails, TypeOK
  <2>3. chan' \in Seq(Replies) /\ faults' \in 0 .. MaxFaults /\ vals' = vals
    BY <1>8, <1>f, <1>t DEF SendNKEFails, TypeOK
  <2>4. CASE NextTarget
    BY <2>1, <2>2, <2>3, <2>4, <1>z, <1>x
  <2>5. CASE ~Scanning /\ pc' = "request" /\ UNCHANGED <<i, exit>>
    BY <2>1, <2>2, <2>3, <2>5, <1>w
  <2> QED
    BY <1>8, <2>4, <2>5 DEF SendNKEFails
<1>9. CASE ScanAck
  <2>1. pc = "ack" /\ i <= Len(job.targets) /\ exit = "running" /\ Piped
    BY <1>9, <1>t DEF ScanAck, At, Running, Loop
  <2>2. flight' \in Seq(Replies) /\ chan' \in Seq(Replies) /\ faults' \in 0 .. MaxFaults /\ vals' = vals
    BY <1>9, <1>q, <1>t DEF ScanAck, TypeOK
  <2>3. CASE NextTarget
    BY <2>1, <2>2, <2>3, <1>z, <1>x
  <2>4. CASE pc' = "request" /\ UNCHANGED <<i, exit>>
    BY <2>1, <2>2, <2>4, <1>w
  <2> QED
    BY <1>9, <2>3, <2>4 DEF ScanAck
<1>10. CASE CatAck
  <2>1. i <= Len(job.targets) /\ exit' = "running" /\ ~Scanning
    BY <1>10, <1>t DEF CatAck, At, Running, Loop
  <2>2. chan' \in Seq(Replies)
    BY <1>10, <1>q, <1>t DEF CatAck, TypeOK, Drained
  <2> QED
    BY <1>10, <2>1, <2>2, <1>w, <1>t DEF CatAck, TypeOK
<1>11. CASE AckTimeout
  <2>1. pc = "ack" /\ i <= Len(job.targets) /\ exit = "running" /\ (Piped \/ ~Scanning)
    BY <1>11, <1>t DEF AckTimeout, At, Running, Loop
  <2>2. flight' \in Seq(Replies) /\ chan' \in Seq(Replies) /\ faults' \in 0 .. MaxFaults /\ vals' = vals
    BY <1>11, <1>t DEF AckTimeout, TypeOK
  <2>3. CASE NextTarget
    BY <2>1, <2>2, <2>3, <1>z, <1>x
  <2>4. CASE ~Scanning /\ pc' = "request" /\ UNCHANGED <<i, exit>>
    BY <2>1, <2>2, <2>4, <1>w
  <2> QED
    BY <1>11, <2>3, <2>4 DEF AckTimeout
<1>12. CASE NoRequest
  <2>1. pc = "request" /\ exit = "running" /\ (Piped \/ ~Scanning)
    BY <1>12, <1>t DEF NoRequest, At, Running, Loop
  <2>2. flight' \in Seq(Replies) /\ chan' \in Seq(Replies) /\ faults' \in 0 .. MaxFaults
    BY <1>12, <1>t DEF NoRequest, TypeOK
  <2>3. CASE Value(NoFrame) /\ NextTarget
    BY <2>1, <2>2, <2>3, ValueTyped, NoFrameTyped, NextTargetTyped, <1>x
  <2>4. CASE Fail
    BY <2>1, <2>2, <2>4, <1>y DEF Fail
  <2> QED
    BY <1>12, <2>3, <2>4 DEF NoRequest
<1>13. CASE SendRequest
  <2>1. pc = "request" /\ i <= Len(job.targets) /\ exit' = "running" /\ (Piped \/ ~Scanning)
    BY <1>13, <1>t DEF SendRequest, At, Running, Loop
  <2>2. flight' \in Seq(Replies)
    BY <1>13, <2>1, AnswerTyped DEF SendRequest
  <2> QED
    BY <1>13, <1>w, <2>1, <2>2, <1>t DEF SendRequest, TypeOK
<1>14. CASE SendRequestFails
  <2>1. pc = "request" /\ exit = "running" /\ (Piped \/ ~Scanning) /\ NoData
    BY <1>14, <1>t DEF SendRequestFails, At, Running, Loop
  <2>2. flight' \in Seq(Replies)
    BY <1>14, <2>1, <1>t, AnswerTyped DEF SendRequestFails, TypeOK
  <2>3. chan' \in Seq(Replies) /\ faults' \in 0 .. MaxFaults
    BY <1>14, <1>f, <1>t DEF SendRequestFails, TypeOK
  <2> QED
    BY <2>1, <2>2, <2>3, <1>0, NoDataTyped, <1>x, <1>y
<1>15. CASE ReadLong
  <2>1. pc = "data" /\ exit = "running" /\ (Piped \/ ~Scanning) /\ chan # <<>> /\ chan \in Seq(Replies)
    BY <1>15, <1>t DEF ReadLong, At, Running, Loop, TypeOK
  <2>2. flight' \in Seq(Replies) /\ faults' \in 0 .. MaxFaults /\ flight' = flight
    BY <1>15, <1>t DEF ReadLong, TypeOK
  <2>3. CASE chan' = Tail(chan) /\ UNCHANGED <<pc, i, vals, exit>>
    BY <2>1, <2>2, <2>3, <1>q, <1>b
  <2>4. ASSUME NEW n \in 1 .. IF Piped THEN 1 ELSE Len(chan), chan' = SubSeq(chan, n + 1, Len(chan)),
               Value(Head(chan)), NextTarget
        PROVE  BusTyping'
    <3>1. n \in Nat /\ Len(chan) \in Nat
      BY <2>1, <2>4
    <3>2. chan' \in Seq(Replies)
      BY <2>1, <2>4, <3>1
    <3> QED
      BY <2>1, <2>2, <2>4, <3>2, <1>q, ValueTyped, NextTargetTyped, <1>x
  <2>5. CASE chan' = Tail(chan) /\ NoData
    BY <2>1, <2>2, <2>5, <1>q, <1>0, NoDataTyped, <1>x, <1>y
  <2> QED
    BY <1>15, <2>3, <2>4, <2>5 DEF ReadLong
<1>16. CASE DataTimeout
  <2>1. pc = "data" /\ exit = "running" /\ (Piped \/ ~Scanning) /\ NoData
    BY <1>16, <1>t DEF DataTimeout, At, Running, Loop
  <2>2. flight' \in Seq(Replies) /\ chan' \in Seq(Replies) /\ faults' \in 0 .. MaxFaults
    BY <1>16, <1>t DEF DataTimeout, TypeOK
  <2> QED
    BY <2>1, <2>2, <1>0, NoDataTyped, <1>x, <1>y
<1>17. CASE UNCHANGED vars
  BY <1>17, <1>b, <1>t DEF vars, TypeOK
<1>18. CASE WrongKind
  <2>1. flight' \in Seq(Replies) /\ chan' \in Seq(Replies) /\ faults' \in 0 .. MaxFaults
    BY <1>18, <1>t, WrongKindInCat DEF TypeOK
  <2> QED
    BY <1>18, <2>1, <1>y, WrongKindInCat
<1> QED
  BY <1>1, <1>2, <1>3, <1>4, <1>5, <1>6, <1>7, <1>8, <1>9, <1>10, <1>11, <1>12, <1>13, <1>14, <1>15,
     <1>16, <1>17, <1>18 DEF Next, MasterStep

\* The types hold at the start.
LEMMA BusTypingInit == Init => BusTyping
<1> SUFFICES ASSUME Init PROVE BusTyping
  OBVIOUS
<1>1. IsJob(job) /\ job \in Jobs
  BY BusAssumption DEF Init
<1>2. job.targets \in Seq([addr : Nat, mode : Modes]) /\ job.targets # <<>>
  BY <1>1 DEF IsJob
<1>3. Len(job.targets) \in Nat \ {0}
  BY <1>2
<1>4. \A S : <<>> \in Seq(S) /\ Len(<<>>) = 0
  BY EmptySeq
<1>5. TypeOK
  BY <1>1, <1>3, <1>4, BusAssumption DEF Init, TypeOK
<1>6. Loop
  BY <1>3, <1>4 DEF Init, Loop
<1> QED
  BY <1>5, <1>6 DEF BusTyping

\* The variables have their types, and a command that fails has no values.
THEOREM BusTypeCorrect == Spec => []TypeOK
<1>1. BusTyping => TypeOK
  BY DEF BusTyping
<1> QED
  BY <1>1, BusTypingInit, TypingKept, PTL DEF Spec
-----------------------------------------------------------------------------
\* Frames in a queue.
LEMMA QuietEmpty == Quiet(<<>>)
BY EmptySeq DEF Quiet

\* A queue without frames, or with one, after a reply has joined it.
LEMMA AppendFrame ==
  ASSUME NEW s \in Seq(Replies), NEW e \in Replies, NEW j
  PROVE  /\ Quiet(s) /\ ~Framed(e) => Quiet(Append(s, e))
         /\ Quiet(s) /\ Framed(e) /\ e.req = j => Single(Append(s, e), j)
         /\ Single(s, j) /\ ~Framed(e) => Single(Append(s, e), j)
<1> DEFINE t == Append(s, e)
<1>1. Len(s) \in Nat /\ Len(t) = Len(s) + 1 /\ t[Len(s) + 1] = e
  OBVIOUS
<1>2. \A n \in 1 .. Len(s) : t[n] = s[n]
  OBVIOUS
<1> HIDE DEF t
<1>3. \A n \in 1 .. Len(t) : n = Len(s) + 1 \/ n \in 1 .. Len(s)
  BY <1>1
<1>4. Len(s) + 1 \in 1 .. Len(t)
  BY <1>1
<1>5. \A n \in 1 .. Len(s) : n \in 1 .. Len(t) /\ n # Len(s) + 1
  BY <1>1
<1>6. Quiet(s) /\ ~Framed(e) => Quiet(t)
  BY <1>1, <1>2, <1>3 DEF Quiet
<1>7. Quiet(s) /\ Framed(e) /\ e.req = j => Single(t, j)
  BY <1>1, <1>2, <1>3, <1>4 DEF Quiet, Single
<1>8. Single(s, j) /\ ~Framed(e) => Single(t, j)
  <2> SUFFICES ASSUME Single(s, j), ~Framed(e) PROVE Single(t, j)
    OBVIOUS
  <2>1. PICK n \in 1 .. Len(s) : Framed(s[n]) /\ s[n].req = j
                               /\ \A m \in 1 .. Len(s) : Framed(s[m]) => m = n
    BY DEF Single
  <2>2. n \in 1 .. Len(t) /\ t[n] = s[n]
    BY <1>2, <1>5
  <2>3. ASSUME NEW m \in 1 .. Len(t), Framed(t[m]) PROVE m = n
    BY <2>1, <2>3, <1>1, <1>2, <1>3
  <2> QED
    BY <2>1, <2>2, <2>3 DEF Single
<1> QED
  BY <1>6, <1>7, <1>8 DEF t

\* The same after its first reply, or the first replies, have left it.
LEMMA CutFrame ==
  ASSUME NEW s \in Seq(Replies), s # <<>>, NEW n \in 1 .. Len(s), NEW j
  PROVE  /\ Quiet(s) => ~Framed(Head(s)) /\ Quiet(Tail(s)) /\ Quiet(SubSeq(s, n + 1, Len(s)))
         /\ Single(s, j) /\ Framed(Head(s)) =>
              Head(s).req = j /\ Quiet(Tail(s)) /\ Quiet(SubSeq(s, n + 1, Len(s)))
         /\ Single(s, j) /\ ~Framed(Head(s)) => Single(Tail(s), j)
<1> DEFINE t == Tail(s)
           u == SubSeq(s, n + 1, Len(s))
<1>1. Len(s) \in Nat /\ Len(s) >= 1 /\ Head(s) = s[1]
  OBVIOUS
<1>2. Len(t) = Len(s) - 1 /\ \A m \in 1 .. Len(t) : t[m] = s[m + 1]
  OBVIOUS
<1>3. Len(u) = Len(s) - n /\ \A m \in 1 .. Len(u) : u[m] = s[m + n]
  BY <1>1
<1> HIDE DEF t, u
<1>4. \A m \in 1 .. Len(t) : m + 1 \in 1 .. Len(s) /\ m + 1 # 1
  BY <1>1, <1>2
<1>5. \A m \in 1 .. Len(u) : m + n \in 1 .. Len(s) /\ m + n # 1
  BY <1>1, <1>3
<1>6. 1 \in 1 .. Len(s)
  BY <1>1
<1>7. Quiet(s) => ~Framed(Head(s)) /\ Quiet(t) /\ Quiet(u)
  BY <1>1, <1>2, <1>3, <1>4, <1>5, <1>6 DEF Quiet
<1>8. Single(s, j) /\ Framed(Head(s)) => Head(s).req = j /\ Quiet(t) /\ Quiet(u)
  BY <1>1, <1>2, <1>3, <1>4, <1>5, <1>6 DEF Quiet, Single
<1>9. Single(s, j) /\ ~Framed(Head(s)) => Single(t, j)
  <2> SUFFICES ASSUME Single(s, j), ~Framed(Head(s)) PROVE Single(t, j)
    OBVIOUS
  <2>1. PICK k \in 1 .. Len(s) : Framed(s[k]) /\ s[k].req = j
                               /\ \A m \in 1 .. Len(s) : Framed(s[m]) => m = k
    BY DEF Single
  <2>2. k # 1
    BY <2>1, <1>1
  <2>3. k - 1 \in 1 .. Len(t) /\ t[k - 1] = s[k]
    BY <2>1, <2>2, <1>1, <1>2
  <2>4. ASSUME NEW m \in 1 .. Len(t), Framed(t[m]) PROVE m = k - 1
    <3>1. m + 1 = k
      BY <2>1, <2>4, <1>2, <1>4
    <3> QED
      BY <3>1
  <2> QED
    BY <2>1, <2>3, <2>4 DEF Single
<1> QED
  BY <1>7, <1>8, <1>9 DEF t, u

\* A result is the last one.
LEMMA ValueAdded ==
  ASSUME TypeOK, NEW f, Value(f)
  PROVE  /\ Len(vals') = Len(vals) + 1
         /\ vals'[Len(vals) + 1] = [target |-> i, frame |-> f]
         /\ \A k \in 1 .. Len(vals) : vals'[k] = vals[k]
         /\ \A k \in 1 .. Len(vals') : k \in 1 .. Len(vals) \/ k = Len(vals) + 1
<1>1. vals \in Seq([target : 1 .. Len(job.targets), frame : Replies])
  BY DEF TypeOK
<1>2. vals' = Append(vals, [target |-> i, frame |-> f])
  BY DEF Value
<1> QED
  BY <1>1, <1>2
-----------------------------------------------------------------------------
\* cat: a frame under way is always the answer to the present request.
LEMMA CatKept == BusTyping /\ CatInv /\ [Next]_vars => CatInv'
<1> SUFFICES ASSUME BusTyping, CatInv, [Next]_vars, ~Scanning PROVE CatInv'
  <2>1. BusTyping /\ [Next]_vars => (Scanning => Scanning')
    BY DEF Next, MasterStep, Deliver, Noise, Corrupt, Finish, WrongKind, Gap, Drain, SendNKE, SendNKEFails, ScanAck, CatAck,
           AckTimeout, NoRequest, SendRequest, SendRequestFails, ReadLong, DataTimeout, vars, busVars, Scanning
  <2>2. Scanning' => CatInv'
    BY DEF CatInv, OneFrame, OwnFrame
  <2> QED
    BY <2>1, <2>2
<1>t. TypeOK /\ Loop /\ flight \in Seq(Replies) /\ chan \in Seq(Replies)
  BY DEF BusTyping, TypeOK
<1>j. job' = job /\ (Scanning' = Scanning)
  BY DEF Next, MasterStep, Deliver, Noise, Corrupt, Finish, WrongKind, Gap, Drain, SendNKE, SendNKEFails, ScanAck, CatAck,
         AckTimeout, NoRequest, SendRequest, SendRequestFails, ReadLong, DataTimeout, vars, busVars, Scanning
<1>o. OwnFrame /\ OneFrame
  BY DEF CatInv
\* The results stay as they are.
<1>v. ASSUME vals' = vals PROVE OwnFrame'
  BY <1>v, <1>j, <1>o DEF OwnFrame
\* One more result.
<1>u. ASSUME NEW f, Value(f), IF Mode = "nke" THEN f = NoFrame ELSE f.kind = "frame" /\ f.req = i
      PROVE  OwnFrame'
  <2> SUFFICES ASSUME NEW k \in 1 .. Len(vals')
               PROVE  IF job.targets[vals'[k].target].mode = "nke"
                      THEN vals'[k].frame = NoFrame
                      ELSE vals'[k].frame.kind = "frame" /\ vals'[k].frame.req = vals'[k].target
    BY <1>j DEF OwnFrame
  <2>1. CASE k \in 1 .. Len(vals)
    <3>1. vals'[k] = vals[k]
      BY <1>u, <1>t, <2>1, ValueAdded
    <3> QED
      BY <3>1, <2>1, <1>o DEF OwnFrame
  <2>2. CASE k = Len(vals) + 1
    <3>1. vals'[k] = [target |-> i, frame |-> f]
      BY <1>u, <1>t, <2>2, ValueAdded
    <3>2. vals'[k].target = i /\ vals'[k].frame = f
      BY <3>1
    <3> QED
      BY <3>2, <1>u DEF Mode
  <2> QED
    BY <2>1, <2>2, <1>u, <1>t, ValueAdded
<1>e. ASSUME ReadError PROVE CatInv'
  <2>1. exit' = "error" /\ vals' = <<>>
    BY <1>e DEF ReadError, Fail
  <2>2. OneFrame'
    BY <2>1 DEF OneFrame, Running
  <2>3. OwnFrame'
    BY <2>1 DEF OwnFrame
  <2> QED
    BY <2>2, <2>3 DEF CatInv
\* The queues are quiet, and stay so.
<1>q. ASSUME vals' = vals, Quiet(flight'), Quiet(chan') PROVE CatInv'
  BY <1>q, <1>v DEF CatInv, OneFrame
<1>p. ASSUME Running, pc # "data" PROVE Quiet(flight) /\ Quiet(chan)
  BY <1>p, <1>o DEF OneFrame
<1>h. ASSUME NEW s \in Seq(Replies), s # <<>> PROVE 1 \in 1 .. Len(s) /\ Head(s) \in Replies
  BY <1>h
<1>a. ASSUME NEW a, Quiet(flight), Answered(a, "E5"), pc # "next" PROVE Quiet(flight')
  <2>1. [kind |-> "E5", from |-> Primary(i), req |-> i] \in Replies
    BY <1>a, <1>t, PresentTarget DEF Replies
  <2> QED
    BY <1>a, <1>t, <2>1, AppendFrame DEF Answered, Framed
<1>1. CASE Deliver
  <2>1. Running /\ flight # <<>> /\ chan' = Append(chan, Head(flight)) /\ flight' = Tail(flight)
        /\ vals' = vals /\ pc' = pc /\ i' = i
    BY <1>1 DEF Deliver
  <2>2. Head(flight) \in Replies /\ 1 \in 1 .. Len(flight)
    BY <2>1, <1>t, <1>h
  <2>3. CASE Quiet(flight) /\ Quiet(chan)
    BY <2>1, <2>2, <2>3, <1>t, <1>q, AppendFrame, CutFrame
  <2>4. CASE pc = "data" /\ Single(flight, i) /\ Quiet(chan)
    <3>1. CASE Framed(Head(flight))
      <4>1. Quiet(flight') /\ Single(chan', i')
        BY <2>1, <2>2, <2>4, <3>1, <1>t, AppendFrame, CutFrame
      <4> QED
        BY <4>1, <2>1, <2>4, <1>v DEF CatInv, OneFrame
    <3>2. CASE ~Framed(Head(flight))
      <4>1. Single(flight', i') /\ Quiet(chan')
        BY <2>1, <2>2, <2>4, <3>2, <1>t, AppendFrame, CutFrame
      <4> QED
        BY <4>1, <2>1, <2>4, <1>v DEF CatInv, OneFrame
    <3> QED
      BY <3>1, <3>2
  <2>5. CASE pc = "data" /\ Quiet(flight) /\ Single(chan, i)
    <3>1. Quiet(flight') /\ Single(chan', i')
      BY <2>1, <2>2, <2>5, <1>t, AppendFrame, CutFrame
    <3> QED
      BY <3>1, <2>1, <2>5, <1>v DEF CatInv, OneFrame
  <2> QED
    BY <2>1, <2>3, <2>4, <2>5, <1>o DEF OneFrame
<1>2. CASE Noise
  <2>1. Running /\ chan' = Append(chan, Junk) /\ flight' = flight /\ vals' = vals /\ pc' = pc /\ i' = i
    BY <1>2 DEF Noise
  <2>2. Junk \in Replies /\ ~Framed(Junk)
    BY NoFrameTyped DEF Junk, Framed
  <2>3. Quiet(chan) => Quiet(chan')
    BY <2>1, <2>2, <1>t, AppendFrame
  <2>4. Single(chan, i) => Single(chan', i')
    BY <2>1, <2>2, <1>t, AppendFrame
  <2>5. OneFrame'
    BY <2>1, <2>3, <2>4, <1>o DEF OneFrame
  <2> QED
    BY <2>1, <2>5, <1>v DEF CatInv
<1>3. CASE Corrupt
  <2> DEFINE h == Head(flight)
             e == IF h.kind = "frame" THEN [h EXCEPT !.kind = "bad"] ELSE Junk
  <2>1. Running /\ flight # <<>> /\ chan' = Append(chan, e) /\ flight' = Tail(flight)
        /\ vals' = vals /\ pc' = pc /\ i' = i
    BY <1>3 DEF Corrupt
  <2>2. h \in Replies /\ 1 \in 1 .. Len(flight)
    BY <2>1, <1>t, <1>h
  <2> HIDE DEF h
  <2>3. e \in Replies /\ (Framed(e) => Framed(h) /\ e.req = h.req)
    <3>1. CASE h.kind = "frame"
      BY <2>2, <3>1 DEF Framed, Replies
    <3>2. CASE h.kind # "frame"
      BY <3>2, NoFrameTyped DEF Framed, Junk
    <3> QED
      BY <3>1, <3>2
  <2> HIDE DEF e
  <2>4. CASE Quiet(flight) /\ Quiet(chan)
    <3>1. ~Framed(h) /\ Quiet(flight')
      BY <2>1, <2>2, <2>4, <1>t, CutFrame DEF h
    <3>2. Quiet(chan')
      BY <2>1, <2>3, <2>4, <3>1, <1>t, AppendFrame
    <3> QED
      BY <2>1, <3>1, <3>2, <1>q
  <2>5. CASE pc = "data" /\ Single(flight, i) /\ Quiet(chan)
    <3>1. CASE Framed(h)
      <4>1. Quiet(flight') /\ h.req = i
        BY <2>1, <2>2, <2>5, <3>1, <1>t, CutFrame DEF h
      <4>2. Quiet(chan') \/ Single(chan', i)
        BY <2>1, <2>3, <2>5, <4>1, <1>t, AppendFrame
      <4> QED
        BY <4>1, <4>2, <2>1, <2>5, <1>v DEF CatInv, OneFrame
    <3>2. CASE ~Framed(h)
      <4>1. Single(flight', i)
        BY <2>1, <2>2, <2>5, <3>2, <1>t, CutFrame DEF h
      <4>2. Quiet(chan')
        BY <2>1, <2>3, <2>5, <3>2, <1>t, AppendFrame
      <4> QED
        BY <4>1, <4>2, <2>1, <2>5, <1>v DEF CatInv, OneFrame
    <3> QED
      BY <3>1, <3>2
  <2>6. CASE pc = "data" /\ Quiet(flight) /\ Single(chan, i)
    <3>1. ~Framed(h) /\ Quiet(flight')
      BY <2>1, <2>2, <2>6, <1>t, CutFrame DEF h
    <3>2. Single(chan', i)
      BY <2>1, <2>3, <2>6, <3>1, <1>t, AppendFrame
    <3> QED
      BY <3>1, <3>2, <2>1, <2>6, <1>v DEF CatInv, OneFrame
  <2> QED
    BY <2>1, <2>4, <2>5, <2>6, <1>o DEF OneFrame
<1>4. CASE Finish
  BY <1>4, <1>p, <1>q DEF Finish, At
<1>5. CASE Gap
  BY <1>5, <1>p, <1>q DEF Gap, At
<1>6. CASE Drain
  BY <1>6, <1>p, <1>q, QuietEmpty DEF Drain, At, Drained
<1>7. CASE SendNKE
  BY <1>7, <1>p, <1>q, <1>a DEF SendNKE, At
<1>8. CASE SendNKEFails
  BY <1>8, <1>p, <1>q, <1>a DEF SendNKEFails, At
<1>9. CASE ScanAck
  BY <1>9 DEF ScanAck
<1>10. CASE CatAck
  <2>1. chan # <<>> /\ Quiet(flight) /\ Quiet(chan) /\ flight' = flight /\ vals' = vals
    BY <1>10, <1>p DEF CatAck, At
  <2>2. Quiet(chan')
    BY <1>10, <2>1, <1>t, <1>h, CutFrame, QuietEmpty DEF CatAck, Drained
  <2> QED
    BY <2>1, <2>2, <1>q
<1>11. CASE AckTimeout
  BY <1>11, <1>p, <1>q DEF AckTimeout, At
<1>12. CASE NoRequest
  <2>1. Quiet(flight) /\ Quiet(chan) /\ flight' = flight /\ chan' = chan /\ pc = "request"
    BY <1>12, <1>p DEF NoRequest, At
  <2>2. CASE Mode = "nke" /\ Value(NoFrame)
    <3>1. OneFrame'
      BY <2>1 DEF OneFrame
    <3>2. OwnFrame'
      BY <2>2, <1>u
    <3> QED
      BY <3>1, <3>2 DEF CatInv
  <2>3. CASE Fail
    BY <2>3, <1>e DEF ReadError
  <2> QED
    BY <1>12, <2>2, <2>3 DEF NoRequest
<1>13. CASE SendRequest
  <2>1. Quiet(flight) /\ Quiet(chan) /\ chan' = chan /\ pc = "request" /\ pc' = "data" /\ i' = i /\ vals' = vals
    BY <1>13, <1>p DEF SendRequest, At
  <2> DEFINE f == [kind |-> "frame", from |-> Primary(i), req |-> i]
  <2>2. flight' = flight \/ flight' = Append(flight, f)
    BY <1>13 DEF SendRequest, Answered
  <2>3. f \in Replies /\ Framed(f) /\ f.req = i
    BY <2>1, PresentTarget DEF Replies, Framed
  <2> HIDE DEF f
  <2>4. Quiet(flight') \/ Single(flight', i')
    BY ZenonT(60), <2>1, <2>2, <2>3, <1>t, AppendFrame
  <2> QED
    BY <2>1, <2>4, <1>v DEF CatInv, OneFrame
<1>14. CASE SendRequestFails
  BY <1>14, <1>e DEF SendRequestFails, NoData
<1>15. CASE ReadLong
  <2>1. Running /\ pc = "data" /\ chan # <<>> /\ flight' = flight /\ 1 \in 1 .. Len(chan)
    BY <1>15, <1>t, <1>h DEF ReadLong, At
  <2>2. CASE Skips(Head(chan)) /\ chan' = Tail(chan) /\ UNCHANGED <<pc, i, vals, exit>>
    <3>1. ~Framed(Head(chan))
      BY <2>2 DEF Skips, Framed
    <3>2. Quiet(chan) => Quiet(chan')
      BY <2>1, <2>2, <1>t, CutFrame
    <3>3. Single(chan, i) => Single(chan', i')
      BY <2>1, <2>2, <3>1, <1>t, CutFrame
    <3>4. OneFrame'
      BY <2>1, <2>2, <3>2, <3>3, <1>o DEF OneFrame
    <3> QED
      BY <2>2, <3>4, <1>v DEF CatInv
  <2>3. ASSUME Head(chan).kind = "frame", NEW n \in 1 .. IF Piped THEN 1 ELSE Len(chan),
               chan' = SubSeq(chan, n + 1, Len(chan)), Value(Head(chan))
        PROVE  CatInv'
    <3>0. n \in 1 .. Len(chan)
      BY <2>1, <2>3, <1>t
    <3>1. Framed(Head(chan))
      BY <2>3 DEF Framed
    <3>2. Quiet(flight) /\ Single(chan, i)
      BY <2>1, <3>1, <1>t, <1>o, CutFrame DEF OneFrame
    <3>3. Head(chan).req = i /\ Quiet(chan')
      BY <2>1, <2>3, <3>0, <3>1, <3>2, <1>t, CutFrame
    <3>4. OneFrame'
      BY <2>1, <3>2, <3>3 DEF OneFrame
    <3>5. Mode # "nke"
      BY <2>1, <1>t DEF Loop
    <3>6. OwnFrame'
      BY <2>3, <3>3, <3>5, <1>u
    <3> QED
      BY <3>4, <3>6 DEF CatInv
  <2>4. CASE NoData
    BY <2>4, <1>e DEF NoData
  <2> QED
    BY <1>15, <2>2, <2>3, <2>4 DEF ReadLong
<1>16. CASE DataTimeout
  BY <1>16, <1>e DEF DataTimeout, NoData
<1>17. CASE UNCHANGED vars
  <2>1. UNCHANGED <<flight, chan, pc, i, vals, exit>>
    BY <1>17 DEF vars
  <2>2. OneFrame'
    BY <2>1, <1>o DEF OneFrame, Running
  <2> QED
    BY <2>1, <2>2, <1>v DEF CatInv
<1>18. CASE WrongKind
  <2>1. ReadError
    BY <1>18 DEF WrongKind, ReadError
  <2> QED
    BY <2>1, <1>e
<1> QED
  BY <1>1, <1>2, <1>3, <1>4, <1>5, <1>6, <1>7, <1>8, <1>9, <1>10, <1>11, <1>12, <1>13, <1>14, <1>15,
     <1>16, <1>17, <1>18 DEF Next, MasterStep

\* It holds at the start.
LEMMA CatInit == Init => CatInv
BY EmptySeq DEF Init, CatInv, OneFrame, OwnFrame, Quiet

\* However late the answers come and whatever disturbs them, each frame that
\* cat prints is the answer to the request for that target.
THEOREM OwnFrameHolds == Spec => []OwnFrame
<1>1. CatInv => OwnFrame
  BY DEF CatInv
<1> QED
  BY <1>1, BusTypingInit, TypingKept, CatInit, CatKept, PTL DEF Spec
-----------------------------------------------------------------------------
\* scan: the queues hold noise and the answers to the present exchange.
LEMMA OwnQueues ==
  ASSUME NEW s \in Seq(Replies), Own(s)
  PROVE  /\ Own(<<>>)
         /\ s # <<>> => Own(Tail(s))
         /\ \A e \in Replies :
              e.kind = "junk" \/ (e.req = i /\ (e.kind = "E5" => Acks(Primary(i)))) => Own(Append(s, e))
<1>1. Own(<<>>)
  BY EmptySeq DEF Own
<1>2. ASSUME s # <<>> PROVE Own(Tail(s))
  <2> DEFINE t == Tail(s)
  <2>1. \A n \in 1 .. Len(t) : n + 1 \in 1 .. Len(s) /\ t[n] = s[n + 1]
    BY <1>2
  <2> HIDE DEF t
  <2>2. Own(t)
    BY <2>1 DEF Own
  <2> QED
    BY <2>2 DEF t
<1>3. ASSUME NEW e \in Replies, e.kind = "junk" \/ (e.req = i /\ (e.kind = "E5" => Acks(Primary(i))))
      PROVE  Own(Append(s, e))
  <2> DEFINE t == Append(s, e)
  <2>1. \A n \in 1 .. Len(t) : (n \in 1 .. Len(s) /\ t[n] = s[n]) \/ t[n] = e
    OBVIOUS
  <2> HIDE DEF t
  <2>2. Own(t)
    BY <2>1, <1>3 DEF Own
  <2> QED
    BY <2>2 DEF t
<1> QED
  BY <1>1, <1>2, <1>3

\* Every step of a scan keeps what is known of it.
LEMMA ScanKept == BusTyping /\ ScanInv /\ [Next]_vars => ScanInv'
<1>j. ASSUME [Next]_vars PROVE job' = job /\ bus' = bus
  BY <1>j DEF Next, MasterStep, Deliver, Noise, Corrupt, Finish, WrongKind, Gap, Drain, SendNKE, SendNKEFails, ScanAck, CatAck,
         AckTimeout, NoRequest, SendRequest, SendRequestFails, ReadLong, DataTimeout, vars, busVars
<1> SUFFICES ASSUME BusTyping, ScanInv, [Next]_vars, Settled PROVE ScanInv'
  BY <1>j DEF ScanInv, ScanExchange, NoPhantom, Settled, Scanning
<1>c. job' = job /\ bus' = bus /\ (Settled' = Settled)
  BY <1>j DEF Settled, Scanning
<1>t. TypeOK /\ Loop /\ flight \in Seq(Replies) /\ chan \in Seq(Replies) /\ Scanning
  BY DEF BusTyping, TypeOK, Settled
<1>o. NoPhantom /\ ScanExchange
  BY DEF ScanInv
\* Results: none new, or one that the exchange allows.
<1>v. ASSUME vals' = vals PROVE NoPhantom'
  BY <1>v, <1>c, <1>o DEF NoPhantom, Settled, Scanning, Acks, Primary
<1>u. ASSUME NEW f, Value(f), Acks(Primary(i)), f # NoFrame => f.req = i PROVE NoPhantom'
  <2> SUFFICES ASSUME NEW k \in 1 .. Len(vals')
               PROVE  /\ Acks(Primary(vals'[k].target))
                      /\ vals'[k].frame # NoFrame => vals'[k].frame.req = vals'[k].target
    BY <1>c DEF NoPhantom, Acks, Primary
  <2>1. CASE k \in 1 .. Len(vals)
    <3>1. vals'[k] = vals[k]
      BY <1>u, <1>t, <2>1, ValueAdded
    <3> QED
      BY <3>1, <2>1, <1>o DEF NoPhantom, Settled
  <2>2. CASE k = Len(vals) + 1
    <3>1. vals'[k] = [target |-> i, frame |-> f]
      BY <1>u, <1>t, <2>2, ValueAdded
    <3>2. vals'[k].target = i /\ vals'[k].frame = f
      BY <3>1
    <3> QED
      BY <3>2, <1>u
  <2> QED
    BY <2>1, <2>2, <1>u, <1>t, ValueAdded
\* The exchange is over.
<1>x. ASSUME pc' = "next" PROVE ScanExchange'
  BY <1>x DEF ScanExchange
\* It goes on.
<1>w. ASSUME i' = i, vals' = vals, pc' \in {"nke", "ack", "request", "data"}, Own(flight'), Own(chan'),
             pc' \in {"request", "data"} => Acks(Primary(i))
      PROVE  ScanInv'
  BY <1>w, <1>c, <1>v DEF ScanInv, ScanExchange, Own, Acks, Primary
<1>h. ASSUME NEW s \in Seq(Replies), s # <<>> PROVE 1 \in 1 .. Len(s) /\ Head(s) = s[1] /\ Head(s) \in Replies
  BY <1>h
<1>m. ASSUME Running, pc \in {"nke", "ack", "request", "data"} PROVE Own(flight) /\ Own(chan)
  BY <1>m, <1>o DEF ScanExchange
<1>a. ASSUME NEW a, NEW kind \in {"E5", "frame"}, Own(flight), Answered(a, kind), pc # "next",
             kind = "E5" => a = Acks(Primary(i))
      PROVE  Own(flight')
  <2> DEFINE e == [kind |-> kind, from |-> Primary(i), req |-> i]
  <2>1. e \in Replies /\ e.req = i /\ e.kind = kind
    BY <1>a, <1>t, PresentTarget DEF Replies
  <2>2. flight' = IF a THEN Append(flight, e) ELSE flight
    BY <1>a DEF Answered
  <2> HIDE DEF e
  <2>3. CASE a
    BY <1>a, <1>t, <2>1, <2>2, <2>3, OwnQueues
  <2>4. CASE ~a
    BY <1>a, <2>2, <2>4
  <2> QED
    BY <2>3, <2>4
<1>d. ASSUME NoData, Acks(Primary(i)) PROVE ScanInv'
  <2>1. Value(NoFrame) /\ pc' = "next"
    BY <1>d, <1>t DEF NoData, NextTarget
  <2> QED
    BY <2>1, <1>d, <1>u, <1>x DEF ScanInv
\* A step of the bus.
<1>b. ASSUME UNCHANGED <<pc, i, vals, exit>>,
             flight' = flight \/ (flight # <<>> /\ flight' = Tail(flight)),
             pc \in {"nke", "ack", "request", "data"} /\ Running => Own(chan')
      PROVE  ScanInv'
  <2>1. CASE pc \in {"nke", "ack", "request", "data"} /\ Running
    <3>1. Own(flight')
      BY <1>b, <1>t, <1>m, <2>1, OwnQueues
    <3>2. pc' \in {"request", "data"} => Acks(Primary(i))
      BY <1>b, <1>o, <2>1 DEF ScanExchange
    <3> QED
      BY <1>b, <2>1, <3>1, <3>2, <1>w
  <2>2. CASE Running /\ pc = "drain"
    <3>1. flight = <<>>
      BY <2>2, <1>o DEF ScanExchange
    <3>2. flight' = <<>>
      BY <3>1, <1>b
    <3> QED
      BY <2>2, <3>2, <1>b, <1>v DEF ScanInv, ScanExchange
  <2>3. CASE Running /\ pc = "next"
    BY <2>3, <1>b, <1>v, <1>x DEF ScanInv
  <2>4. CASE ~Running
    BY <2>4, <1>b, <1>v DEF ScanInv, ScanExchange, Running
  <2> QED
    BY <2>1, <2>2, <2>3, <2>4, <1>t DEF TypeOK
<1>1. CASE Deliver
  <2>1. Running /\ flight # <<>> /\ chan' = Append(chan, Head(flight)) /\ flight' = Tail(flight)
        /\ UNCHANGED <<pc, i, vals, exit>>
    BY <1>1 DEF Deliver
  <2>2. ASSUME Own(flight), Own(chan) PROVE Own(chan')
    <3>1. Head(flight).kind = "junk"
          \/ (Head(flight).req = i /\ (Head(flight).kind = "E5" => Acks(Primary(i))))
      BY <2>1, <2>2, <1>t, <1>h DEF Own
    <3> QED
      BY <2>1, <2>2, <3>1, <1>t, <1>h, OwnQueues
  <2> QED
    BY <2>1, <2>2, <1>m, <1>b
<1>2. CASE Noise
  <2>1. Junk \in Replies /\ Junk.kind = "junk"
    BY NoFrameTyped DEF Junk
  <2>2. Own(chan) => Own(chan')
    BY <1>2, <2>1, <1>t, OwnQueues DEF Noise
  <2> QED
    BY <1>2, <2>2, <1>m, <1>b DEF Noise
<1>3. CASE Corrupt
  <2> DEFINE h == Head(flight)
             e == IF h.kind = "frame" THEN [h EXCEPT !.kind = "bad"] ELSE Junk
  <2>1. Running /\ flight # <<>> /\ chan' = Append(chan, e) /\ flight' = Tail(flight)
        /\ UNCHANGED <<pc, i, vals, exit>>
    BY <1>3 DEF Corrupt
  <2>2. ASSUME Own(flight), Own(chan) PROVE Own(chan')
    <3>1. h.kind = "frame" => h.req = i
      BY <2>1, <2>2, <1>t, <1>h DEF Own
    <3>2. h \in Replies
      BY <2>1, <1>t, <1>h
    <3> HIDE DEF h
    <3>3. e \in Replies /\ (e.kind = "junk" \/ (e.req = i /\ e.kind # "E5"))
      <4>1. CASE h.kind = "frame"
        BY <3>1, <3>2, <4>1 DEF Replies
      <4>2. CASE h.kind # "frame"
        BY <4>2, NoFrameTyped DEF Junk
      <4> QED
        BY <4>1, <4>2
    <3> HIDE DEF e
    <3> QED
      BY <2>1, <2>2, <3>3, <1>t, OwnQueues
  <2> QED
    BY <2>1, <2>2, <1>m, <1>b
<1>4. CASE Finish
  BY <1>4, <1>v DEF Finish, ScanInv, ScanExchange, Running
<1>5. CASE Gap
  <2>1. ~Piped => flight = <<>>
    BY <1>t DEF Loop
  <2>2. flight' = <<>> /\ pc' = "drain" /\ vals' = vals
    BY <1>5, <2>1 DEF Gap, Settled
  <2> QED
    BY <2>2, <1>v DEF ScanInv, ScanExchange
<1>6. CASE Drain
  <2>1. flight = <<>> /\ flight' = flight /\ i' = i /\ vals' = vals
    BY <1>6, <1>o DEF Drain, At, ScanExchange
  <2>2. CASE Piped
    <3>1. chan' = <<>> /\ pc' = "nke"
      BY <1>6, <2>2 DEF Drain, Drained
    <3>2. Own(flight') /\ Own(chan')
      BY <2>1, <3>1, EmptySeq DEF Own
    <3> QED
      BY <2>1, <3>1, <3>2, <1>w
  <2>3. CASE ~Piped
    <3>1. exit' = "panic"
      BY <1>6, <2>3, <1>t DEF Drain
    <3> QED
      BY <3>1, <2>1, <1>v DEF ScanInv, ScanExchange, Running
  <2> QED
    BY <2>2, <2>3
<1>7. CASE SendNKE
  <2>1. Piped /\ pc = "nke" /\ Running
    BY <1>7, <1>t DEF SendNKE, At, Loop
  <2>2. Own(flight') /\ chan' = chan /\ pc' = "ack" /\ i' = i /\ vals' = vals
    BY <1>7, <2>1, <1>m, <1>a DEF SendNKE
  <2> QED
    BY <2>1, <2>2, <1>m, <1>w
<1>8. CASE SendNKEFails
  <2>1. pc' = "next" /\ vals' = vals
    BY <1>8, <1>t DEF SendNKEFails, NextTarget
  <2> QED
    BY <2>1, <1>v, <1>x DEF ScanInv
<1>9. CASE ScanAck
  <2>1. chan # <<>> /\ chan' = Tail(chan) /\ flight' = flight /\ vals' = vals /\ Own(flight) /\ Own(chan)
    BY <1>9, <1>m DEF ScanAck, At
  <2>2. CASE NextTarget
    BY <2>1, <2>2, <1>v, <1>x DEF ScanInv, NextTarget
  <2>3. CASE Head(chan).kind = "E5" /\ pc' = "request" /\ UNCHANGED <<i, exit>>
    <3>1. Acks(Primary(i))
      BY <2>1, <2>3, <1>t, <1>h DEF Own
    <3>2. Own(chan')
      BY <2>1, <1>t, OwnQueues
    <3> QED
      BY <2>1, <2>3, <3>1, <3>2, <1>w
  <2> QED
    BY <1>9, <2>2, <2>3 DEF ScanAck
<1>10. CASE CatAck
  BY <1>10, <1>t DEF CatAck
<1>11. CASE AckTimeout
  <2>1. pc' = "next" /\ vals' = vals
    BY <1>11, <1>t DEF AckTimeout, NextTarget
  <2> QED
    BY <2>1, <1>v, <1>x DEF ScanInv
<1>12. CASE NoRequest
  <2>1. Mode = "probe"
    BY <1>12, <1>t, PresentTarget DEF NoRequest, At
  <2> QED
    BY <1>12, <2>1 DEF NoRequest
<1>13. CASE SendRequest
  <2>1. pc = "request" /\ Running /\ Answered(HasData(Primary(i)), "frame") /\ chan' = chan /\ pc' = "data"
        /\ i' = i /\ vals' = vals
    BY <1>13 DEF SendRequest, At
  <2>2. Own(flight')
    BY <2>1, <1>m, <1>a
  <2>3. Acks(Primary(i))
    BY <2>1, <1>o DEF ScanExchange
  <2> QED
    BY <2>1, <2>2, <2>3, <1>m, <1>w
<1>14. CASE SendRequestFails
  BY <1>14, <1>o, <1>d DEF SendRequestFails, At, ScanExchange
<1>15. CASE ReadLong
  <2>1. pc = "data" /\ Running /\ chan # <<>> /\ flight' = flight /\ Own(chan) /\ Acks(Primary(i))
    BY <1>15, <1>m, <1>o DEF ReadLong, At, ScanExchange
  <2>2. CASE chan' = Tail(chan) /\ UNCHANGED <<pc, i, vals, exit>>
    BY <2>1, <2>2, <1>t, <1>b, OwnQueues
  <2>3. CASE Head(chan).kind = "frame" /\ Value(Head(chan)) /\ NextTarget
    <3>1. Head(chan).req = i
      BY <2>1, <2>3, <1>t, <1>h DEF Own
    <3> QED
      BY <2>1, <2>3, <3>1, <1>u, <1>x DEF NextTarget, ScanInv
  <2>4. CASE NoData
    BY <2>1, <2>4, <1>d
  <2> QED
    BY <1>15, <2>2, <2>3, <2>4 DEF ReadLong
<1>16. CASE DataTimeout
  BY <1>16, <1>o, <1>d DEF DataTimeout, At, ScanExchange
<1>17. CASE UNCHANGED vars
  <2>1. UNCHANGED <<flight, chan, pc, i, vals, exit>>
    BY <1>17 DEF vars
  <2> QED
    BY <2>1, <1>b, <1>m
<1>18. CASE WrongKind
  BY <1>18, <1>t, WrongKindInCat
<1> QED
  BY <1>1, <1>2, <1>3, <1>4, <1>5, <1>6, <1>7, <1>8, <1>9, <1>10, <1>11, <1>12, <1>13, <1>14, <1>15,
     <1>16, <1>17, <1>18 DEF Next, MasterStep

\* It holds at the start.
LEMMA ScanInit == Init => ScanInv
BY EmptySeq DEF Init, ScanInv, ScanExchange, NoPhantom, Running

\* A patient scan reports only devices that are there, with their own data.
THEOREM NoPhantomHolds == Spec => []NoPhantom
<1>1. ScanInv => NoPhantom
  BY DEF ScanInv
<1> QED
  BY <1>1, BusTypingInit, TypingKept, ScanInit, ScanKept, PTL DEF Spec
-----------------------------------------------------------------------------
\* What is reported for the present target, before and after its exchange.
LEMMA ReportedNow ==
  ASSUME BusTyping, pc # "next"
  PROVE  Reported(i) = {}
<1>1. ASSUME NEW n \in 1 .. Len(vals) PROVE vals[n].target # i
  <2>1. vals \in Seq([target : 1 .. Len(job.targets), frame : Replies])
    BY DEF BusTyping, TypeOK
  <2>2. vals[n] \in [target : 1 .. Len(job.targets), frame : Replies]
    BY <2>1, ElementOfSeq
  <2>3. vals[n].target \in Nat /\ i \in Nat /\ vals[n].target < i
    BY <2>2, Targets DEF BusTyping, Loop
  <2> QED
    BY <2>3
<1> QED
  BY <1>1 DEF Reported

\* What is reported once the present target has a value.
LEMMA ReportedAfter ==
  ASSUME BusTyping, pc # "next", NEW f, Value(f), NEW k
  PROVE  /\ k # i => Reported(k)' = Reported(k)
         /\ k = i => Reported(k)' = {[target |-> i, frame |-> f]}
<1> DEFINE v == [target |-> i, frame |-> f]
<1>1. {vals'[n] : n \in 1 .. Len(vals')} = {vals[n] : n \in 1 .. Len(vals)} \cup {v}
  <2>1. Len(vals) + 1 \in 1 .. Len(vals') /\ \A n \in 1 .. Len(vals) : n \in 1 .. Len(vals')
    <3>1. Len(vals) \in Nat
      BY DEF BusTyping, TypeOK
    <3>2. Len(vals') = Len(vals) + 1
      BY ValueAdded DEF BusTyping
    <3> QED
      BY <3>1, <3>2
  <2> QED
    BY ZenonT(60), <2>1, ValueAdded DEF BusTyping
<1>2. v.target = i
  OBVIOUS
<1> HIDE DEF v
<1>3. k # i => Reported(k)' = Reported(k)
  BY <1>1, <1>2 DEF Reported
<1>4. k = i => Reported(k)' = {v}
  <2>1. Reported(i) = {}
    BY ReportedNow
  <2> QED
    BY <1>1, <1>2, <2>1 DEF Reported
<1> QED
  BY <1>3, <1>4 DEF v

\* One more exchange spoils one more result at most, and none when it does not
\* spoil its own.
LEMMA DamageGrows ==
  ASSUME BusTyping, pc # "next", UNCHANGED busVars, NEW f, vals' = vals \/ Value(f), i' = i + 1
  PROVE  /\ Cardinality(Damaged(i - 1)) \in Nat
         /\ Cardinality(Damaged(i - 1)') \in Nat
         /\ Cardinality(Damaged(i - 1)') <= Cardinality(Damaged(i - 1)) + 1
         /\ (\A j : j = i => ~Spoilt(j)') => Cardinality(Damaged(i - 1)') <= Cardinality(Damaged(i - 1))
<1> DEFINE old == Damaged(i - 1)
           new == Damaged(i - 1)'
<1>1. i \in Nat \ {0} /\ i' - 1 = i
  BY Targets DEF BusTyping
<1>2. IsFiniteSet(1 .. i - 1) /\ IsFiniteSet(1 .. i)
  BY <1>1, FS_Interval
<1>3. old \subseteq 1 .. i - 1 /\ new = {k \in 1 .. i : Spoilt(k)'}
  BY <1>1 DEF Damaged
<1>4. IsFiniteSet(old) /\ IsFiniteSet(new)
  BY <1>2, <1>3, FS_Subset
<1>5. ASSUME NEW k \in 1 .. i, k # i, Spoilt(k)' PROVE k \in old
  <2>1. Reported(k)' = Reported(k)
    <3>1. CASE vals' = vals
      BY <3>1 DEF Reported
    <3>2. CASE Value(f)
      BY <3>2, <1>5, ReportedAfter
    <3> QED
      BY <3>1, <3>2
  <2>2. k \in 1 .. i - 1
    BY <1>1, <1>5
  <2>3. Spoilt(k)
    BY <1>5, <2>1 DEF Spoilt, Primary, busVars
  <2> QED
    BY <2>2, <2>3 DEF Damaged
<1>6. new \subseteq old \cup {i}
  BY <1>3, <1>5
<1>7. i \notin old
  BY <1>1 DEF Damaged
<1> HIDE DEF old, new
<1>8. Cardinality(old) \in Nat /\ Cardinality(new) \in Nat
  BY <1>4, FS_CardinalityType
<1>9. IsFiniteSet(old \cup {i}) /\ Cardinality(old \cup {i}) = Cardinality(old) + 1
  BY <1>4, <1>7, FS_AddElement
<1>10. Cardinality(new) <= Cardinality(old) + 1
  BY <1>6, <1>9, FS_Subset
<1>11. ASSUME \A j : j = i => ~Spoilt(j)' PROVE Cardinality(new) <= Cardinality(old)
  <2>1. new \subseteq old
    BY <1>3, <1>6, <1>11
  <2> QED
    BY <2>1, <1>4, FS_Subset
<1> QED
  BY <1>8, <1>10, <1>11 DEF old, new

\* A queue of one answer.
LEMMA OneAnswer ==
  ASSUME NEW e
  PROVE  Head(<<e>>) = e /\ Tail(<<e>>) = <<>> /\ Append(<<>>, e) = <<e>> /\ <<e>> # <<>>
OBVIOUS

\* Each disturbance spoils the result of the exchange it falls into.
LEMMA DamageKept == BusTyping /\ DamageInv /\ [Next]_vars => DamageInv'
<1>j. ASSUME [Next]_vars PROVE job' = job /\ bus' = bus
  BY <1>j DEF Next, MasterStep, Deliver, Noise, Corrupt, Finish, WrongKind, Gap, Drain, SendNKE, SendNKEFails, ScanAck, CatAck,
         AckTimeout, NoRequest, SendRequest, SendRequestFails, ReadLong, DataTimeout, vars, busVars
<1> SUFFICES ASSUME BusTyping, DamageInv, [Next]_vars, Settled PROVE DamageInv'
  BY <1>j DEF DamageInv, DamageIsLocal, Settled, Scanning
<1>c. job' = job /\ bus' = bus /\ (Settled' = Settled) /\ UNCHANGED busVars
  BY <1>j DEF Settled, Scanning, busVars
<1>t. TypeOK /\ Loop /\ Scanning /\ job.patient
  BY DEF BusTyping, Settled
<1>n. faults \in Nat /\ i \in Nat \ {0}
  BY <1>t, Targets DEF TypeOK
<1> DEFINE D == Cardinality(Damaged(i - 1))
           Dn == Cardinality(Damaged(i - 1)')
<1>D. D \in Nat
  <2>1. IsFiniteSet(1 .. i - 1)
    BY <1>n, FS_Interval
  <2>2. IsFiniteSet(Damaged(i - 1))
    BY <2>1, FS_Subset DEF Damaged
  <2> QED
    BY <2>2, FS_CardinalityType
<1>s. Running => D <= faults /\ (pc # "next" => Undisturbed \/ D < faults)
  BY DEF DamageInv
\* The command goes on with the same results.
<1>w. ASSUME i' = i, vals' = vals, Running', faults' \in Nat, D <= faults', pc' # "next" => Undisturbed' \/ D < faults'
      PROVE  DamageInv'
  <2>1. Damaged(i - 1)' = Damaged(i - 1)
    BY <1>w, <1>c DEF Damaged, Spoilt, Reported, Primary
  <2>2. DamageIsLocal'
    BY <1>w DEF DamageIsLocal, Running
  <2> QED
    BY <1>w, <2>1, <2>2 DEF DamageInv
\* It goes on with the next target.
<1>x. ASSUME i' = i + 1, pc # "next", pc' = "next", NEW f, vals' = vals \/ Value(f), Running', faults' \in Nat,
             D < faults' \/ (D <= faults' /\ \A k : k = i => ~Spoilt(k)')
      PROVE  DamageInv'
  <2>1. Dn \in Nat /\ Dn <= D + 1 /\ ((\A k : k = i => ~Spoilt(k)') => Dn <= D)
    BY <1>x, <1>c, DamageGrows
  <2> HIDE DEF D, Dn
  <2>2. Dn <= faults'
    <3>1. CASE D < faults'
      BY <1>x, <1>D, <2>1, <3>1
    <3>2. CASE D <= faults' /\ \A k : k = i => ~Spoilt(k)'
      <4>1. Dn <= D
        BY <2>1, <3>2
      <4> QED
        BY <1>x, <1>D, <2>1, <3>2, <4>1
    <3> QED
      BY <1>x, <3>1, <3>2
  <2> USE DEF Dn
  <2>3. DamageIsLocal'
    BY <1>x DEF DamageIsLocal, Running
  <2> QED
    BY <1>x, <2>2, <2>3 DEF DamageInv
\* The command ends otherwise than well.
<1>y. ASSUME exit' \notin {"running", "0"} PROVE DamageInv'
  BY <1>y DEF DamageInv, DamageIsLocal, Running
<1> HIDE DEF D, Dn
\* A disturbance.
<1>f. Fault => faults' = faults + 1 /\ faults' \in Nat
  BY <1>n DEF Fault
<1>d. ASSUME Fault, Running, UNCHANGED <<pc, i, vals, exit>> PROVE DamageInv'
  <2>1. D < faults' /\ D <= faults'
    BY <1>d, <1>f, <1>s, <1>D, <1>n
  <2> QED
    BY <1>d, <1>f, <1>w, <2>1 DEF Running
\* An exchange disturbed already goes on.
<1>e. ASSUME Running, D < faults, faults' = faults, i' = i, vals' = vals, Running' PROVE DamageInv'
  BY <1>e, <1>w, <1>D, <1>n
<1>g. ASSUME Running, D < faults, faults' = faults, pc # "next", NextTarget, NEW f, vals' = vals \/ Value(f)
      PROVE  DamageInv'
  BY <1>g, <1>x, <1>n DEF NextTarget, Running
\* An exchange that nothing has disturbed goes on.
<1>u. ASSUME Running, faults' = faults, i' = i, vals' = vals, Undisturbed', exit' = exit PROVE DamageInv'
  BY <1>u, <1>w, <1>s, <1>n DEF Running
<1>p. ASSUME i' = i PROVE (Acks(Primary(i)))' = Acks(Primary(i)) /\ (HasData(Primary(i)))' = HasData(Primary(i))
                          /\ E5' = E5 /\ LongFrame' = LongFrame
  BY <1>p, <1>c DEF Acks, HasData, Primary, E5, LongFrame
<1>k. E5.kind = "E5" /\ LongFrame.kind = "frame" /\ LongFrame # NoFrame
  BY DEF E5, LongFrame, NoFrame
<1>l. UnderWay(E5) \/ UnderWay(LongFrame) => ~Nothing
  BY OneAnswer DEF UnderWay, Nothing
<1>1. CASE Deliver
  <2>1. Running /\ flight # <<>> /\ chan' = Append(chan, Head(flight)) /\ flight' = Tail(flight)
        /\ UNCHANGED <<pc, i, vals, exit>> /\ faults' = faults
    BY <1>1 DEF Deliver
  <2>2. CASE Undisturbed
    <3>1. ASSUME NEW e, UnderWay(e) PROVE flight' = <<>> /\ chan' = <<e>>
      BY <2>1, <3>1, OneAnswer DEF UnderWay
    <3>2. Undisturbed'
      BY <2>1, <2>2, <3>1, <1>p DEF Undisturbed, Nothing, UnderWay
    <3> QED
      BY <2>1, <3>2, <1>u
  <2>3. CASE D < faults
    BY <2>1, <2>3, <1>e DEF Running
  <2>4. CASE pc = "next"
    BY <2>1, <2>4, <1>w, <1>s, <1>n DEF Running
  <2> QED
    BY <2>1, <2>2, <2>3, <2>4, <1>s
<1>2. CASE Noise
  BY <1>2, <1>d DEF Noise
<1>3. CASE Corrupt
  BY <1>3, <1>d DEF Corrupt
<1>4. CASE Finish
  <2>1. Running /\ pc = "next" /\ i > Len(job.targets) /\ exit' = "0" /\ vals' = vals /\ faults' = faults
    BY <1>4 DEF Finish, At
  <2>2. i - 1 = Len(job.targets)
    BY <2>1, <1>t, Targets
  <2>3. {k \in 1 .. Len(job'.targets) : Spoilt(k)'} = Damaged(i - 1)
    BY <2>1, <2>2, <1>c DEF Damaged, Spoilt, Reported, Primary
  <2>4. D <= faults'
    BY <2>1, <1>s
  <2>5. DamageIsLocal'
    BY <2>3, <2>4 DEF DamageIsLocal, D
  <2> QED
    BY <2>1, <2>5 DEF DamageInv, Running
<1>5. CASE Gap
  <2>1. ~Piped => flight = <<>>
    BY <1>t DEF Loop
  <2>2. flight' = <<>> /\ pc' = "drain" /\ vals' = vals /\ i' = i /\ faults' = faults /\ Running /\ exit' = exit
    BY <1>5, <2>1 DEF Gap, Settled, At
  <2>3. Undisturbed'
    BY <2>2 DEF Undisturbed
  <2> QED
    BY <2>2, <2>3, <1>u
<1>6. CASE Drain
  <2>1. Running /\ pc = "drain" /\ flight' = flight /\ i' = i /\ vals' = vals /\ faults' = faults
    BY <1>6 DEF Drain, At
  <2>2. CASE Piped
    <3>1. chan' = <<>> /\ pc' = "nke" /\ exit' = exit
      BY <1>6, <2>2 DEF Drain, Drained
    <3>2. CASE Undisturbed
      <4>1. Undisturbed'
        BY <2>1, <3>1, <3>2 DEF Undisturbed, Nothing
      <4> QED
        BY <2>1, <3>1, <4>1, <1>u
    <3>3. CASE D < faults
      BY <2>1, <3>1, <3>3, <1>e DEF Running
    <3> QED
      BY <2>1, <3>2, <3>3, <1>s
  <2>3. CASE ~Piped
    <3>1. exit' = "panic"
      BY <1>6, <2>3, <1>t DEF Drain
    <3> QED
      BY <3>1, <1>y
  <2> QED
    BY <2>2, <2>3
<1>7. CASE SendNKE
  <2>1. Running /\ pc = "nke" /\ pc' = "ack" /\ chan' = chan /\ i' = i /\ vals' = vals /\ faults' = faults
        /\ exit' = exit
    BY <1>7, <1>t DEF SendNKE, At, Loop
  <2>2. flight' = IF Acks(Primary(i)) THEN Append(flight, E5) ELSE flight
    BY <1>7 DEF SendNKE, Answered, E5
  <2>3. CASE Undisturbed
    <3>1. flight = <<>> /\ chan = <<>>
      BY <2>1, <2>3 DEF Undisturbed, Nothing
    <3>2. flight' = IF Acks(Primary(i)) THEN <<E5>> ELSE <<>>
      BY <2>2, <3>1, OneAnswer
    <3>3. Undisturbed'
      BY <2>1, <3>1, <3>2, <1>p DEF Undisturbed, Nothing, UnderWay
    <3> QED
      BY <2>1, <3>3, <1>u
  <2>4. CASE D < faults
    BY <2>1, <2>4, <1>e DEF Running
  <2> QED
    BY <2>1, <2>3, <2>4, <1>s
<1>8. CASE SendNKEFails
  <2>1. Running /\ pc = "nke" /\ Fault /\ NextTarget /\ vals' = vals
    BY <1>8, <1>t DEF SendNKEFails, At
  <2>2. D < faults'
    BY <2>1, <1>f, <1>s, <1>D, <1>n
  <2> QED
    BY <2>1, <2>2, <1>f, <1>x DEF NextTarget, Running
<1>9. CASE ScanAck
  <2>1. Running /\ pc = "ack" /\ chan # <<>> /\ chan' = Tail(chan) /\ flight' = flight /\ vals' = vals
        /\ faults' = faults
    BY <1>9 DEF ScanAck, At
  <2>2. CASE Undisturbed
    <3>1. Acks(Primary(i)) /\ flight = <<>> /\ chan = <<E5>>
      BY <2>1, <2>2 DEF Undisturbed, Nothing, UnderWay
    <3>2. Head(chan) = E5 /\ chan' = <<>>
      BY <2>1, <3>1, OneAnswer
    <3>3. pc' = "request" /\ i' = i /\ exit' = exit
      BY <1>9, <3>2, <1>k DEF ScanAck
    <3>4. Undisturbed'
      BY <2>1, <3>1, <3>2, <3>3, <1>p DEF Undisturbed, Nothing
    <3> QED
      BY <2>1, <3>3, <3>4, <1>u
  <2>3. CASE D < faults
    <3>1. CASE NextTarget
      BY <2>1, <2>3, <3>1, <1>g
    <3>2. CASE pc' = "request" /\ UNCHANGED <<i, exit>>
      BY <2>1, <2>3, <3>2, <1>e DEF Running
    <3> QED
      BY <1>9, <3>1, <3>2 DEF ScanAck
  <2> QED
    BY <2>1, <2>2, <2>3, <1>s
<1>10. CASE CatAck
  BY <1>10, <1>t DEF CatAck
<1>11. CASE AckTimeout
  <2>1. Running /\ pc = "ack" /\ NextTarget /\ vals' = vals /\ faults' = faults /\ Nothing
    BY <1>11, <1>t DEF AckTimeout, At, TimeUp, Nothing
  <2>2. CASE Undisturbed
    <3>1. ~Acks(Primary(i))
      BY <2>1, <2>2, <1>l DEF Undisturbed
    <3>2. Reported(i) = {}
      BY <2>1, ReportedNow
    <3>3. ASSUME NEW k, k = i PROVE ~Spoilt(k)'
      <4>1. Reported(k)' = {}
        BY <2>1, <3>2, <3>3 DEF Reported
      <4>2. bus'[Primary(k)'] \notin {"ack", "full"}
        BY <3>1, <3>3, <1>c DEF Acks, Primary
      <4> QED
        BY <4>1, <4>2 DEF Spoilt
    <3> QED
      BY <2>1, <3>3, <1>x, <1>s, <1>n DEF NextTarget, Running
  <2>3. CASE D < faults
    BY <2>1, <2>3, <1>g
  <2> QED
    BY <2>1, <2>2, <2>3, <1>s
<1>12. CASE NoRequest
  <2>1. Mode = "probe"
    BY <1>12, <1>t, PresentTarget DEF NoRequest, At
  <2> QED
    BY <1>12, <2>1 DEF NoRequest
<1>13. CASE SendRequest
  <2>1. Running /\ pc = "request" /\ pc' = "data" /\ chan' = chan /\ i' = i /\ vals' = vals /\ faults' = faults
        /\ exit' = exit
    BY <1>13 DEF SendRequest, At
  <2>2. flight' = IF HasData(Primary(i)) THEN Append(flight, LongFrame) ELSE flight
    BY <1>13 DEF SendRequest, Answered, LongFrame
  <2>3. CASE Undisturbed
    <3>1. flight = <<>> /\ chan = <<>> /\ Acks(Primary(i))
      BY <2>1, <2>3 DEF Undisturbed, Nothing
    <3>2. flight' = IF HasData(Primary(i)) THEN <<LongFrame>> ELSE <<>>
      BY <2>2, <3>1, OneAnswer
    <3>3. Undisturbed'
      BY <2>1, <3>1, <3>2, <1>p DEF Undisturbed, Nothing, UnderWay
    <3> QED
      BY <2>1, <3>3, <1>u
  <2>4. CASE D < faults
    BY <2>1, <2>4, <1>e DEF Running
  <2> QED
    BY <2>1, <2>3, <2>4, <1>s
<1>14. CASE SendRequestFails
  <2>1. Running /\ pc = "request" /\ Fault /\ NextTarget /\ Value(NoFrame)
    BY <1>14, <1>t DEF SendRequestFails, At, NoData
  <2>2. D < faults'
    BY <2>1, <1>f, <1>s, <1>D, <1>n
  <2> QED
    BY <2>1, <2>2, <1>f, <1>x DEF NextTarget, Running
<1>15. CASE ReadLong
  <2>1. Running /\ pc = "data" /\ chan # <<>> /\ flight' = flight /\ faults' = faults
    BY <1>15 DEF ReadLong, At
  <2>2. CASE Undisturbed
    <3>1. Acks(Primary(i)) /\ HasData(Primary(i)) /\ chan = <<LongFrame>>
      BY <2>1, <2>2 DEF Undisturbed, Nothing, UnderWay
    <3>2. Head(chan) = LongFrame /\ ~Skips(Head(chan))
      BY <3>1, <1>k, OneAnswer DEF Skips
    <3>3. Value(LongFrame) /\ NextTarget
      BY <1>15, <3>2, <1>k DEF ReadLong
    <3>4. ASSUME NEW k, k = i PROVE ~Spoilt(k)'
      <4>1. Reported(k)' = {[target |-> i, frame |-> LongFrame]}
        BY <2>1, <3>3, <3>4, ReportedAfter
      <4>2. bus'[Primary(k)'] = "full"
        BY <3>1, <3>4, <1>c DEF Acks, HasData, Primary
      <4> QED
        BY <4>1, <4>2, <1>k DEF Spoilt
    <3> QED
      BY <2>1, <3>3, <3>4, <1>x, <1>s, <1>n DEF NextTarget, Running
  <2>3. CASE D < faults
    <3>1. CASE UNCHANGED <<pc, i, vals, exit>>
      BY <2>1, <2>3, <3>1, <1>e DEF Running
    <3>2. CASE Value(Head(chan)) /\ NextTarget
      BY <2>1, <2>3, <3>2, <1>g
    <3>3. CASE NoData
      BY <2>1, <2>3, <3>3, <1>g, <1>t DEF NoData
    <3> QED
      BY <1>15, <3>1, <3>2, <3>3 DEF ReadLong
  <2> QED
    BY <2>1, <2>2, <2>3, <1>s
<1>16. CASE DataTimeout
  <2>1. Running /\ pc = "data" /\ NextTarget /\ Value(NoFrame) /\ faults' = faults /\ Nothing
    BY <1>16, <1>t DEF DataTimeout, At, TimeUp, Nothing, NoData
  <2>2. CASE Undisturbed
    <3>1. Acks(Primary(i)) /\ ~HasData(Primary(i))
      BY <2>1, <2>2, <1>l DEF Undisturbed
    <3>2. ASSUME NEW k, k = i PROVE ~Spoilt(k)'
      <4>1. Reported(k)' = {[target |-> i, frame |-> NoFrame]}
        BY <2>1, <3>2, ReportedAfter
      <4>2. bus'[Primary(k)'] = "ack"
        BY <3>1, <3>2, <1>c DEF Acks, HasData, Primary
      <4> QED
        BY <4>1, <4>2 DEF Spoilt
    <3> QED
      BY <2>1, <3>2, <1>x, <1>s, <1>n DEF NextTarget, Running
  <2>3. CASE D < faults
    BY SMTT(60), <2>1, <2>3, <1>g
  <2> QED
    BY <2>1, <2>2, <2>3, <1>s
<1>17. CASE UNCHANGED vars
  BY <1>17 DEF vars, busVars, DamageInv, DamageIsLocal, Damaged, Spoilt, Reported, Primary, Settled, Scanning, Running,
               Undisturbed, Acks, HasData, UnderWay, Nothing, E5, LongFrame
<1>18. CASE WrongKind
  BY <1>18, <1>t, WrongKindInCat
<1> QED
  BY <1>1, <1>2, <1>3, <1>4, <1>5, <1>6, <1>7, <1>8, <1>9, <1>10, <1>11, <1>12, <1>13, <1>14, <1>15,
     <1>16, <1>17, <1>18 DEF Next, MasterStep

\* It holds at the start.
LEMMA DamageInit == Init => DamageInv
<1> SUFFICES ASSUME Init PROVE DamageInv
  OBVIOUS
<1>1. Damaged(i - 1) = {}
  BY DEF Init, Damaged
<1>2. Cardinality({}) = 0 /\ faults = 0
  BY FS_EmptySet DEF Init
<1>3. Undisturbed
  BY DEF Init, Undisturbed
<1>4. Cardinality(Damaged(i - 1)) <= faults
  BY <1>1, <1>2
<1>5. exit = "running"
  BY DEF Init
<1> QED
  BY <1>3, <1>4, <1>5 DEF DamageInv, DamageIsLocal

\* A disturbance of the bus spoils the result for one address at most.
THEOREM DamageIsLocalHolds == Spec => []DamageIsLocal
<1>1. DamageInv => DamageIsLocal
  BY DEF DamageInv
<1> QED
  BY <1>1, BusTypingInit, TypingKept, DamageInit, DamageKept, PTL DEF Spec
-----------------------------------------------------------------------------
\* cat on an undisturbed bus: no answer is damaged, and the frame that is
\* waited for is under way.
LEMMA IntactQueues ==
  ASSUME NEW s \in Seq(Replies), Intact(s)
  PROVE  /\ Intact(<<>>)
         /\ s # <<>> => Head(s).kind \in {"E5", "frame"} /\ Intact(Tail(s))
         /\ \A n \in 1 .. Len(s) : Intact(SubSeq(s, n + 1, Len(s)))
         /\ \A e \in Replies : e.kind \in {"E5", "frame"} => Intact(Append(s, e))
<1>1. Intact(<<>>)
  BY EmptySeq DEF Intact
<1>2. ASSUME s # <<>> PROVE Head(s).kind \in {"E5", "frame"} /\ Intact(Tail(s))
  <2> DEFINE t == Tail(s)
  <2>1. \A n \in 1 .. Len(t) : n + 1 \in 1 .. Len(s) /\ t[n] = s[n + 1]
    BY <1>2
  <2>2. 1 \in 1 .. Len(s) /\ Head(s) = s[1]
    BY <1>2
  <2> HIDE DEF t
  <2>3. Intact(t)
    BY <2>1 DEF Intact
  <2> QED
    BY <2>2, <2>3 DEF t, Intact
<1>3. ASSUME NEW n \in 1 .. Len(s) PROVE Intact(SubSeq(s, n + 1, Len(s)))
  <2> DEFINE t == SubSeq(s, n + 1, Len(s))
  <2>1. \A m \in 1 .. Len(t) : m + n \in 1 .. Len(s) /\ t[m] = s[m + n]
    OBVIOUS
  <2> HIDE DEF t
  <2>2. Intact(t)
    BY <2>1 DEF Intact
  <2> QED
    BY <2>2 DEF t
<1>4. ASSUME NEW e \in Replies, e.kind \in {"E5", "frame"} PROVE Intact(Append(s, e))
  <2> DEFINE t == Append(s, e)
  <2>1. \A n \in 1 .. Len(t) : (n \in 1 .. Len(s) /\ t[n] = s[n]) \/ t[n] = e
    OBVIOUS
  <2> HIDE DEF t
  <2>2. Intact(t)
    BY <2>1, <1>4 DEF Intact
  <2> QED
    BY <2>2 DEF t
<1> QED
  BY <1>1, <1>2, <1>3, <1>4

\* A frame stays in a queue when something else is cut off, and is there when
\* it has come.
LEMMA FrameStays ==
  ASSUME NEW s \in Seq(Replies)
  PROVE  /\ s # <<>> /\ ~Framed(Head(s)) /\ ~Quiet(s) => ~Quiet(Tail(s))
         /\ \A e : Framed(e) => ~Quiet(Append(s, e))
         /\ \A e : ~Quiet(s) => ~Quiet(Append(s, e))
<1>1. ASSUME s # <<>>, ~Framed(Head(s)), ~Quiet(s) PROVE ~Quiet(Tail(s))
  <2>1. PICK n \in 1 .. Len(s) : Framed(s[n])
    BY <1>1 DEF Quiet
  <2>2. n # 1 /\ n - 1 \in 1 .. Len(Tail(s)) /\ Tail(s)[n - 1] = s[n]
    BY <1>1, <2>1
  <2> QED
    BY <2>1, <2>2 DEF Quiet
<1>2. ASSUME NEW e PROVE /\ Framed(e) => ~Quiet(Append(s, e))
                         /\ ~Quiet(s) => ~Quiet(Append(s, e))
  <2> DEFINE t == Append(s, e)
  <2>1. Len(s) + 1 \in 1 .. Len(t) /\ t[Len(s) + 1] = e
    OBVIOUS
  <2>2. \A n \in 1 .. Len(s) : n \in 1 .. Len(t) /\ t[n] = s[n]
    OBVIOUS
  <2> HIDE DEF t
  <2>3. Framed(e) => ~Quiet(t)
    BY <2>1 DEF Quiet
  <2>4. ~Quiet(s) => ~Quiet(t)
    BY <2>2 DEF Quiet
  <2> QED
    BY <2>3, <2>4 DEF t
<1> QED
  BY <1>1, <1>2

\* Every step of a cat keeps what is known of it.
LEMMA ReadsKept == BusTyping /\ ReadsInv /\ [Next]_vars => ReadsInv'
<1>j. ASSUME BusTyping, [Next]_vars
      PROVE  job' = job /\ bus' = bus /\ (faults' = 0 => faults = 0)
  <2>1. faults \in Nat
    BY <1>j, BusAssumption DEF BusTyping, TypeOK
  <2> QED
    BY <1>j, <2>1 DEF Next, MasterStep, Deliver, Noise, Corrupt, Fault, Finish, WrongKind, Gap, Drain, SendNKE, SendNKEFails,
      ScanAck, CatAck, AckTimeout, NoRequest, SendRequest, SendRequestFails, ReadLong, DataTimeout, vars, busVars
<1> SUFFICES ASSUME BusTyping, ReadsInv, [Next]_vars, AllAnswer, faults' = 0 PROVE ReadsInv'
  BY <1>j DEF ReadsInv, AllAnswer, Scanning, HasData, Primary
<1>t. TypeOK /\ Loop /\ flight \in Seq(Replies) /\ chan \in Seq(Replies) /\ ~Scanning /\ job.patient
  BY DEF BusTyping, TypeOK, AllAnswer
<1>c. job' = job /\ bus' = bus
  BY <1>j
<1>n. i \in Nat \ {0} /\ faults = 0 /\ ~Fault
  BY <1>t, Targets DEF AllAnswer, Fault
<1>r. /\ exit \in {"running", "0"}
      /\ Len(vals) = i - 1
      /\ Intact(flight) /\ Intact(chan)
      /\ Running /\ pc = "data" => ~(Quiet(flight) /\ Quiet(chan))
      /\ exit = "0" => i = Len(job.targets) + 1
  BY DEF ReadsInv
<1>w. ASSUME exit' = "running", Len(vals') = i' - 1, Intact(flight'), Intact(chan'),
             pc' = "data" => ~(Quiet(flight') /\ Quiet(chan'))
      PROVE  ReadsInv'
  BY <1>w DEF ReadsInv, Intact
<1>h. ASSUME NEW s \in Seq(Replies), s # <<>> PROVE 1 \in 1 .. Len(s) /\ Head(s) \in Replies
  BY <1>h
<1>m. ASSUME pc = "request" \/ pc = "data"
      PROVE  Mode = "nke" \/ (Mode \in {"ud1", "ud2"} /\ HasData(Primary(i)))
  BY <1>m, PresentTarget DEF AllAnswer, Mode
<1>a. ASSUME NEW a, NEW kind \in {"E5", "frame"}, Answered(a, kind), pc # "next"
      PROVE  Intact(flight') /\ (a /\ kind = "frame" => ~Quiet(flight'))
  <2> DEFINE e == [kind |-> kind, from |-> Primary(i), req |-> i]
  <2>1. e \in Replies /\ e.kind = kind
    BY <1>a, <1>t, PresentTarget DEF Replies
  <2>2. flight' = IF a THEN Append(flight, e) ELSE flight
    BY <1>a DEF Answered
  <2> HIDE DEF e
  <2>3. CASE a
    <3>1. Intact(flight')
      BY <2>1, <2>2, <2>3, <1>t, <1>r, IntactQueues
    <3>2. kind = "frame" => ~Quiet(flight')
      BY <2>1, <2>2, <2>3, <1>t, FrameStays DEF Framed
    <3> QED
      BY <3>1, <3>2
  <2>4. CASE ~a
    BY <2>2, <2>4, <1>r
  <2> QED
    BY <2>3, <2>4
<1>v. ASSUME NEW f, Value(f), NextTarget PROVE Len(vals') = i' - 1
  <2>1. Len(vals') = Len(vals) + 1
    BY <1>v, <1>t, ValueAdded
  <2>2. i' = i + 1
    BY <1>v DEF NextTarget
  <2> QED
    BY <2>1, <2>2, <1>r, <1>n
<1>1. CASE Deliver
  <2>1. Running /\ flight # <<>> /\ chan' = Append(chan, Head(flight)) /\ flight' = Tail(flight)
        /\ UNCHANGED <<pc, i, vals, exit>>
    BY <1>1 DEF Deliver
  <2>2. Intact(flight') /\ Intact(chan')
    BY <2>1, <1>t, <1>r, <1>h, IntactQueues
  <2>3. ~(Quiet(flight) /\ Quiet(chan)) => ~(Quiet(flight') /\ Quiet(chan'))
    BY <2>1, <1>t, FrameStays
  <2> QED
    BY <2>1, <2>2, <2>3, <1>r, <1>w DEF Running
<1>2. CASE Noise
  BY <1>2, <1>n DEF Noise
<1>3. CASE Corrupt
  BY <1>3, <1>n DEF Corrupt
<1>4. CASE Finish
  <2>1. i = Len(job.targets) + 1
    BY <1>4, <1>t, <1>n, Targets DEF Finish
  <2> QED
    BY <1>4, <2>1, <1>r, <1>c DEF Finish, ReadsInv, Intact, Running
<1>5. CASE Gap
  BY <1>5, <1>r, <1>w DEF Gap, At, Running
<1>6. CASE Drain
  <2>1. Intact(chan')
    BY <1>6, <1>t, <1>r, IntactQueues DEF Drain, Drained
  <2> QED
    BY <1>6, <2>1, <1>t, <1>r, <1>w DEF Drain, At, Running
<1>7. CASE SendNKE
  BY <1>7, <1>a, <1>r, <1>w DEF SendNKE, At, Running
<1>8. CASE SendNKEFails
  BY <1>8, <1>n DEF SendNKEFails
<1>9. CASE ScanAck
  BY <1>9, <1>t DEF ScanAck
<1>10. CASE CatAck
  <2>1. Intact(chan')
    BY <1>10, <1>t, <1>r, IntactQueues DEF CatAck, Drained
  <2> QED
    BY <1>10, <2>1, <1>r, <1>w DEF CatAck, At, Running
<1>11. CASE AckTimeout
  BY <1>11, <1>t, <1>r, <1>w DEF AckTimeout, At, Running
<1>12. CASE NoRequest
  <2>1. Mode # "other"
    BY <1>12, <1>m DEF NoRequest, At
  <2>2. Value(NoFrame) /\ NextTarget
    BY <1>12, <2>1 DEF NoRequest
  <2>3. Len(vals') = i' - 1
    BY <2>2, <1>v
  <2> QED
    BY <1>12, <2>2, <2>3, <1>r, <1>w DEF NoRequest, At, Running, NextTarget
<1>13. CASE SendRequest
  <2>1. HasData(Primary(i))
    BY <1>13, <1>m DEF SendRequest, At
  <2>2. Intact(flight') /\ ~Quiet(flight')
    BY <1>13, <2>1, <1>a DEF SendRequest, At
  <2> QED
    BY <1>13, <2>2, <1>r, <1>w DEF SendRequest, At, Running
<1>14. CASE SendRequestFails
  BY <1>14, <1>n DEF SendRequestFails
<1>15. CASE ReadLong
  <2>1. Running /\ pc = "data" /\ chan # <<>> /\ flight' = flight
    BY <1>15 DEF ReadLong, At
  <2>2. Head(chan).kind \in {"E5", "frame"} /\ Intact(Tail(chan))
    BY <2>1, <1>t, <1>r, IntactQueues
  <2>3. CASE Head(chan).kind = "frame"
    <3>1. ~Skips(Head(chan))
      BY <2>3 DEF Skips
    <3>2. PICK n \in 1 .. IF Piped THEN 1 ELSE Len(chan) : chan' = SubSeq(chan, n + 1, Len(chan))
      BY <1>15, <2>3, <3>1 DEF ReadLong
    <3>3. n \in 1 .. Len(chan)
      BY <2>1, <3>2, <1>t
    <3>4. Intact(chan')
      BY <3>2, <3>3, <1>t, <1>r, IntactQueues
    <3>5. Value(Head(chan)) /\ NextTarget
      BY <1>15, <2>3, <3>1 DEF ReadLong
    <3>6. Len(vals') = i' - 1
      BY <3>5, <1>v
    <3> QED
      BY <2>1, <3>4, <3>5, <3>6, <1>r, <1>w DEF NextTarget, Running
  <2>4. CASE Head(chan).kind = "E5"
    <3>1. Skips(Head(chan)) /\ ~Framed(Head(chan))
      BY <2>4 DEF Skips, Framed
    <3>2. chan' = Tail(chan) /\ UNCHANGED <<pc, i, vals, exit>>
      BY <1>15, <2>4, <3>1 DEF ReadLong
    <3>3. ~Quiet(chan) => ~Quiet(chan')
      BY <2>1, <3>1, <3>2, <1>t, FrameStays
    <3> QED
      BY <2>1, <2>2, <3>2, <3>3, <1>r, <1>w DEF Running
  <2> QED
    BY <2>2, <2>3, <2>4
<1>16. CASE DataTimeout
  <2>1. flight = <<>> /\ chan = <<>> /\ Running /\ pc = "data"
    BY <1>16, <1>t DEF DataTimeout, At, TimeUp
  <2> QED
    BY <2>1, <1>r, QuietEmpty
<1>17. CASE UNCHANGED vars
  BY <1>17, <1>r, <1>c DEF vars, ReadsInv, Running, Intact, Quiet
<1>18. CASE WrongKind
  BY <1>18, WrongKindInCat DEF AllAnswer, Mode
<1> QED
  BY <1>1, <1>2, <1>3, <1>4, <1>5, <1>6, <1>7, <1>8, <1>9, <1>10, <1>11, <1>12, <1>13, <1>14, <1>15,
     <1>16, <1>17, <1>18 DEF Next, MasterStep

\* It holds at the start.
LEMMA ReadsInit == Init => ReadsInv
BY EmptySeq DEF Init, ReadsInv, Intact

\* On an undisturbed bus a patient cat reads every device that sends data,
\* over serial and over TCP, whether it acknowledges or not.
THEOREM CatReadsAllHolds == Spec => []CatReadsAll
<1>1. BusTyping /\ ReadsInv => CatReadsAll
  <2> SUFFICES ASSUME BusTyping, ReadsInv, AllAnswer, exit # "running"
               PROVE  exit = "0" /\ Len(vals) = Len(job.targets)
    BY DEF CatReadsAll, AllAnswer
  <2>1. exit = "0" /\ i = Len(job.targets) + 1 /\ Len(vals) = i - 1
    BY DEF ReadsInv
  <2>2. Len(job.targets) \in Nat
    BY Targets DEF BusTyping
  <2> QED
    BY <2>1, <2>2
<1> QED
  BY <1>1, BusTypingInit, TypingKept, ReadsInit, ReadsKept, PTL DEF Spec
=============================================================================
