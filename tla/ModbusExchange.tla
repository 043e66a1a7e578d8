--------------------------- MODULE ModbusExchange ---------------------------
(***************************************************************************)
(* pc cat and pc set on Modbus: runSet of cmd/pc/set.go and runCat of      *)
(* cmd/pc/cat.go over Read, Write and exchange of                          *)
(* pkg/proto/modbus/client.go.  One client works through the operations of *)
(* a command on one device, over a serial line or TCP, and stops at the    *)
(* first error.  A response is read in parts, and what was read so far     *)
(* tells how long the next part is: rx is the line as a sequence of bytes. *)
(* Nothing is read before a request but what earlier exchanges left.       *)
(***************************************************************************)
EXTENDS Integers, Sequences

CONSTANTS
  Jobs,       \* what the user may ask for: command, transport, operations
  Unit,       \* the unit id of the URI and of the device
  Holding,    \* what the device's holding registers contain first
  Input,      \* what its input registers contain
  CRC(_),     \* the CRC of a sequence of bytes
  MaxFaults   \* bound: disturbances in a behaviour

Byte == 0 .. 255
Word == 0 .. 65535
fcReadHolding == 3
fcReadInput == 4
fcWriteSingle == 6
fcWriteMultiple == 16
mbapHeaderLen == 7

Reads == {fcReadHolding, fcReadInput}
Writes == {fcWriteSingle, fcWriteMultiple}

\* An argument of the command, with the registers that a write sends.  Those
\* that Read or Write rejects have fc 0.
IsOp(op) ==
  /\ op.fc \in Reads \cup Writes \cup {0}
  /\ op.addr \in Word
  /\ op.count \in Word
  /\ op.words \in Seq(Word)
  /\ op.fc \in Writes => Len(op.words) = op.count
  /\ op.fc = fcWriteSingle => op.count = 1

\* A command is patient when its timeouts outlast every response, which
\* depends on its URI, its length and the device.
IsJob(j) ==
  /\ j.cmd \in {"cat", "set"}
  /\ j.net \in {"rtu", "tcp"}
  /\ j.patient \in BOOLEAN
  /\ Len(j.ops) \in Nat
  /\ \A k \in 1 .. Len(j.ops) :
       /\ IsOp(j.ops[k])
       /\ j.ops[k].fc \in (IF j.cmd = "cat" THEN Reads ELSE Writes) \cup {0}

ASSUME ModbusAssumption ==
  /\ \A j \in Jobs : IsJob(j)
  /\ Unit \in 1 .. 247
  /\ \A a \in DOMAIN Holding : Holding[a] \in Word
  /\ \A a \in DOMAIN Input : Input[a] \in Word
  /\ MaxFaults \in Nat

VARIABLES
  job,      \* never changes
  stage,    \* which part of which message is next
  i,        \* the loop variable of the command
  got,      \* what has been read of the response
  rx,       \* what has arrived and has not been read
  values,   \* what Read has collected; for set, what was reported OK
  status,   \* "running", or how the command ended
  request,  \* the request on its way to the device, or <<>>
  regs,     \* the device's holding registers
  log,      \* the writes it has executed
  faults    \* disturbances so far

masterVars == <<stage, i, got, values, status>>
deviceVars == <<request, regs, log>>
vars == <<job, masterVars, rx, deviceVars, faults>>

Init ==
  /\ job \in Jobs
  /\ stage = "send"
  /\ i = 1
  /\ got = <<>>
  /\ rx = <<>>
  /\ values = <<>>
  /\ status = "running"
  /\ request = <<>>
  /\ regs = Holding
  /\ log = <<>>
  /\ faults = 0

Op == job.ops[i]
Serial == job.net = "rtu"

\* What Read and Write send; anything else they reject.
Acceptable(op) ==
  CASE op.fc \in Reads          -> op.count \in 1 .. 125
    [] op.fc = fcWriteMultiple  -> op.count \in 1 .. 123
    [] OTHER                    -> op.fc = fcWriteSingle
-----------------------------------------------------------------------------
(* Messages.                                                               *)

\* binary.BigEndian.PutUint16 and Uint16.
PutUint16(n) == <<n \div 256, n % 256>>
Uint16(s, k) == s[k] * 256 + s[k + 1]
WordBytes(words) ==
  [n \in 1 .. 2 * Len(words) |->
    IF n % 2 = 1 THEN words[(n + 1) \div 2] \div 256 ELSE words[n \div 2] % 256]

\* The request for an operation.
PDU(op) ==
  <<op.fc>> \o PutUint16(op.addr) \o
    CASE op.fc \in Reads          -> PutUint16(op.count)
      [] op.fc = fcWriteSingle    -> PutUint16(op.words[1])
      [] op.fc = fcWriteMultiple  -> PutUint16(op.count) \o <<2 * op.count>> \o WordBytes(op.words)

\* The CRC goes over the line with its low byte first.
WithCRC(s) == s \o <<CRC(s) % 256, CRC(s) \div 256>>

\* Variant with a bug: damaged frames are good enough.
verifyCRC_Length(frame) == Len(frame) >= 3

verifyCRC(frame) ==
  Len(frame) >= 3 /\ frame = WithCRC(SubSeq(frame, 1, Len(frame) - 2))

\* The whole message.  Nobody looks at the transaction id: it is the index, in
\* two bytes.
ADU(pdu) ==
  IF Serial
  THEN WithCRC(<<Unit>> \o pdu)
  ELSE PutUint16(i % 65536) \o PutUint16(0) \o PutUint16(1 + Len(pdu)) \o <<Unit>> \o pdu
-----------------------------------------------------------------------------
(* More variants with a bug, named after what they stand in for.           *)

\* The CRC is expected in the response of a write, where it has been removed.
Matches_WithCRC(resp) ==
  /\ Len(resp) >= IF Op.fc \in Reads THEN 2 ELSE 7
  /\ resp[1] = Op.fc
  /\ Op.fc \in Reads => Len(resp) >= 2 + resp[2]

\* set goes on with the next pair after an error.
Fail_Continues ==
  /\ stage' = "send"
  /\ i' = i + 1
  /\ UNCHANGED <<values, status>>

\* The next response is appended to the last.
Send_KeepsBuffer ==
  /\ status = "running" /\ stage = "send" /\ i <= Len(job.ops)
  /\ Acceptable(Op)
  /\ request' = ADU(PDU(Op))
  /\ stage' = "header"
  /\ UNCHANGED <<job, i, got, rx, values, status, regs, log, faults>>

\* Without the deadline in readFullFromPort and readFullWithCtx.
Timeout_Never == FALSE /\ UNCHANGED vars
-----------------------------------------------------------------------------
(* The device: it ignores what is not for it and refuses registers it does *)
(* not have.                                                               *)

\* The function code and what follows it in a message from the client.
Payload(adu) == IF Serial THEN SubSeq(adu, 2, Len(adu) - 2) ELSE SubSeq(adu, 8, Len(adu))

Heard(adu) ==
  IF Serial
  THEN adu[1] = Unit /\ verifyCRC(adu)
  ELSE Uint16(adu, 3) = 0 /\ Uint16(adu, 5) = Len(adu) - 6 /\ adu[7] = Unit

Contents(fc) == IF fc = fcReadInput THEN Input ELSE regs

Addressed(pdu) ==
  Uint16(pdu, 2) .. Uint16(pdu, 2) + (IF pdu[1] = fcWriteSingle THEN 1 ELSE Uint16(pdu, 4)) - 1

Has(pdu) == Addressed(pdu) \subseteq DOMAIN Contents(pdu[1])

\* The registers that a read returns, those that a write sends.
Asked(pdu) == [k \in 1 .. Uint16(pdu, 4) |-> Contents(pdu[1])[Uint16(pdu, 2) + k - 1]]
Sent(pdu) ==
  IF pdu[1] = fcWriteSingle
  THEN <<Uint16(pdu, 4)>>
  ELSE [k \in 1 .. pdu[6] \div 2 |-> Uint16(pdu, 5 + 2 * k)]

Answer(pdu) ==
  IF ~Has(pdu)
  THEN <<pdu[1] + 128, 2>>
  ELSE IF pdu[1] \in Reads
       THEN <<pdu[1], 2 * Uint16(pdu, 4)>> \o WordBytes(Asked(pdu))
       ELSE SubSeq(pdu, 1, 5)

Framed(adu, pdu) ==
  IF Serial
  THEN WithCRC(<<adu[1]>> \o pdu)
  ELSE SubSeq(adu, 1, 4) \o PutUint16(1 + Len(pdu)) \o <<adu[7]>> \o pdu

Execute(pdu) ==
  IF pdu[1] \in Writes /\ Has(pdu)
  THEN LET base == Uint16(pdu, 2)
           words == Sent(pdu)
       IN /\ regs' = [a \in DOMAIN regs |->
                        IF a \in base .. base + Len(words) - 1 THEN words[a - base + 1] ELSE regs[a]]
          /\ log' = Append(log, [addr |-> base, words |-> words])
  ELSE UNCHANGED <<regs, log>>

Respond(response) == rx' = IF status = "running" THEN rx \o response ELSE rx

Serve ==
  /\ request # <<>> /\ Heard(request)
  /\ Execute(Payload(request))
  /\ Respond(Framed(request, Answer(Payload(request))))
  /\ request' = <<>>
  /\ UNCHANGED <<job, masterVars, faults>>

Fault == faults < MaxFaults /\ faults' = faults + 1

\* A request that the device does not get, or that it ignores.
Lose ==
  /\ Fault
  /\ request # <<>>
  /\ request' = <<>>
  /\ UNCHANGED <<job, masterVars, rx, regs, log>>

\* On a serial line a byte of the response is wrong, or its last ones are lost.
Damaged(s) ==
  {[s EXCEPT ![k] = (s[k] + d) % 256] : k \in DOMAIN s, d \in {1, 128}} \cup
  {SubSeq(s, 1, k) : k \in 0 .. Len(s) - 1}

ServeDamaged ==
  /\ Fault
  /\ Serial
  /\ request # <<>> /\ Heard(request)
  /\ Execute(Payload(request))
  /\ \E r \in Damaged(Framed(request, Answer(Payload(request)))) : Respond(r)
  /\ request' = <<>>
  /\ UNCHANGED <<job, masterVars>>
-----------------------------------------------------------------------------
(* The loop of Read or runSet.                                             *)

\* The command ends: Read returns no values with an error, set has printed
\* its OKs.
Fail ==
  /\ status' = "error"
  /\ values' = IF job.cmd = "cat" THEN <<>> ELSE values
  /\ UNCHANGED <<stage, i>>

At(part) == status = "running" /\ stage = part

Finish ==
  /\ At("send") /\ i > Len(job.ops)
  /\ status' = "ok"
  /\ UNCHANGED <<job, stage, i, got, rx, values, deviceVars, faults>>

\* A pair is parsed when its turn comes.
Reject ==
  /\ At("send") /\ i <= Len(job.ops)
  /\ ~Acceptable(Op)
  /\ Fail
  /\ UNCHANGED <<job, got, rx, deviceVars, faults>>

\* An earlier request is out of the way: its response has been read.
Send ==
  /\ At("send") /\ i <= Len(job.ops)
  /\ Acceptable(Op)
  /\ request' = ADU(PDU(Op))
  /\ stage' = "header"
  /\ got' = <<>>
  /\ UNCHANGED <<job, i, rx, values, status, regs, log, faults>>

\* An error from the port or the connection, with the request sent or not.
SendFails ==
  /\ At("send") /\ i <= Len(job.ops)
  /\ Acceptable(Op)
  /\ Fault
  /\ request' \in {request, ADU(PDU(Op))}
  /\ Fail
  /\ UNCHANGED <<job, got, rx, regs, log>>
-----------------------------------------------------------------------------
(* Reading the response.                                                   *)

\* How many bytes the next part has.
Need ==
  CASE stage = "header"    -> IF Serial THEN 2 ELSE mbapHeaderLen
    [] stage = "count"     -> 1
    [] stage = "data"      -> got[3] + 2
    [] stage = "exception" -> 1 + 2
    [] stage = "echo"      -> 4 + 2
    [] stage = "body"      -> Uint16(got, 5)

Waiting == status = "running" /\ stage # "send"
Full == Len(rx) >= Need
Sofar == got \o SubSeq(rx, 1, Need)

Take ==
  /\ got' = Sofar
  /\ rx' = SubSeq(rx, Need + 1, Len(rx))
  /\ UNCHANGED <<job, deviceVars, faults>>

Continue(part) == stage' = part /\ UNCHANGED <<i, values, status>>

Header ==
  /\ At("header") /\ Full
  /\ Take
  /\ IF Serial
     THEN LET fn == Sofar[2] IN
          \/ Sofar[1] # Unit /\ Fail
          \/ Sofar[1] = Unit /\ fn >= 128 /\ Continue("exception")
          \/ Sofar[1] = Unit /\ fn \in Reads /\ Continue("count")
          \/ Sofar[1] = Unit /\ fn \in Writes /\ Continue("echo")
          \/ Sofar[1] = Unit /\ fn < 128 /\ fn \notin Reads \cup Writes /\ Fail
     ELSE IF Uint16(Sofar, 3) # 0 \/ Uint16(Sofar, 5) = 0 THEN Fail ELSE Continue("body")

ByteCount ==
  /\ At("count") /\ Full
  /\ Take
  /\ Continue("data")

\* What exchange returns when all parts are there, <<>> when it is an error.
\* Over TCP the first byte after the header is dropped as the unit.
pduResp ==
  IF Serial
  THEN IF verifyCRC(Sofar) THEN SubSeq(Sofar, 2, Len(Sofar) - 2) ELSE <<>>
  ELSE SubSeq(Sofar, mbapHeaderLen + 2, Len(Sofar))

\* The checks of readRegisters, writeSingleRegister and writeMultipleRegisters.
\* The address and the value of an echo are compared for the log only.
Matches(resp) ==
  /\ Len(resp) >= IF Op.fc \in Reads THEN 2 ELSE 5
  /\ resp[1] = Op.fc
  /\ Op.fc \in Reads => Len(resp) >= 2 + resp[2]

Body ==
  /\ stage \in {"data", "exception", "echo", "body"}
  /\ Waiting /\ Full
  /\ Take
  /\ IF Matches(pduResp)
     THEN /\ values' = Append(values, IF Op.fc \in Reads THEN SubSeq(pduResp, 3, 2 + pduResp[2]) ELSE <<>>)
          /\ i' = i + 1
          /\ stage' = "send"
          /\ UNCHANGED status
     ELSE Fail

\* The deadline of the part or of the command.  What has arrived of the part
\* is dropped with the connection.
Timeout ==
  /\ Waiting /\ ~Full
  /\ job.patient => request = <<>>
  /\ Fail
  /\ UNCHANGED <<job, got, rx, deviceVars, faults>>
-----------------------------------------------------------------------------
Command == Finish \/ Reject \/ Send \/ Header \/ ByteCount \/ Body \/ Timeout
Next == Command \/ SendFails \/ Serve \/ Lose \/ ServeDamaged
Spec == Init /\ [][Next]_vars

\* The next step is a write to the serial port, which has no deadline; one to a
\* connection has.
Writing == At("send") /\ i <= Len(job.ops) /\ Acceptable(Op) /\ Serial

\* Timers fire, and Read returns what has arrived; a write to the serial port need
\* not return.
FairSpec == Spec /\ WF_vars(~Writing /\ Command) /\ WF_vars(Serve)
-----------------------------------------------------------------------------
(* Properties.                                                             *)

\* Types; no part of an earlier response is taken for the next one, and the
\* loop counts its results (the buffers and the loops of client.go).
TypeOK ==
  /\ job \in Jobs
  /\ stage \in {"send", "header", "count", "data", "exception", "echo", "body"}
  /\ i \in 1 .. Len(job.ops) + 1
  /\ {got, rx, request} \subseteq Seq(Byte)
  /\ stage = "header" /\ status = "running" => got = <<>>
  /\ status \in {"running", "ok", "error"}
  /\ values \in Seq(Seq(Byte))
  /\ Len(values) = i - 1 \/ (job.cmd = "cat" /\ status = "error" /\ values = <<>>)
  /\ DOMAIN regs = DOMAIN Holding /\ \A a \in DOMAIN regs : regs[a] \in Word
  /\ log \in Seq([addr : Word, words : Seq(Word)])
  /\ faults \in 0 .. MaxFaults

\* However a set ends, the device has executed a prefix of its pairs, each once,
\* with the given address and value: all that were reported OK and at most one more.
SetIsPrefix ==
  /\ Len(values) <= Len(log) \/ job.cmd = "cat"
  /\ Len(log) <= Len(values) + 1
  /\ \A k \in 1 .. Len(log) :
       /\ job.cmd = "set"
       /\ log[k] = [addr |-> job.ops[k].addr, words |-> job.ops[k].words]
  /\ status = "ok" /\ job.cmd = "set" => Len(log) = Len(job.ops)

\* Whatever happens to the responses on the line, a cat that succeeds prints for
\* every argument exactly the registers it names.
OwnRegisters ==
  job.cmd = "cat" =>
    \A k \in 1 .. Len(values) :
      LET op == job.ops[k] IN
      values[k] = WordBytes([n \in 1 .. op.count |-> Contents(op.fc)[op.addr + n - 1]])

\* What OwnRegisters asks of the CRC: damage to the response to a read makes no
\* frame that passes for another one.
Answered(op) ==
  LET contents == IF op.fc = fcReadInput THEN Input ELSE Holding IN
  IF op.addr .. op.addr + op.count - 1 \subseteq DOMAIN contents
  THEN <<op.fc, 2 * op.count>> \o WordBytes([n \in 1 .. op.count |-> contents[op.addr + n - 1]])
  ELSE <<op.fc + 128, 2>>

Passes(s, op) ==
  /\ Len(s) >= 5 /\ s[1] = Unit /\ s[2] = op.fc
  /\ Len(s) >= 5 + s[3]
  /\ SubSeq(s, 1, 5 + s[3]) = WithCRC(SubSeq(s, 1, 3 + s[3]))

CRCDetects ==
  \A j \in Jobs : j.cmd = "cat" /\ j.net = "rtu" =>
    \A k \in 1 .. Len(j.ops) : Acceptable(j.ops[k]) =>
      \A s \in Damaged(WithCRC(<<Unit>> \o Answered(j.ops[k]))) : ~Passes(s, j.ops[k])

\* A reason for a command to fail.
Refused == ~Acceptable(Op) \/ ~Has(PDU(Op))
Cause == faults > 0 \/ (i <= Len(job.ops) /\ Refused)

\* Over a serial line a command that waits long enough fails only when the line
\* was disturbed or the argument it stopped at was refused.
ErrorHasCause == status = "error" /\ Serial /\ job.patient => Cause

\* README: "Modbus TCP and RTU are supported."
Supported == status = "error" /\ job.patient => Cause

\* Every command ends, whatever the device does, unless a write to the serial
\* port hangs.
Ends == <>(status # "running") \/ <>[]Writing
=============================================================================
