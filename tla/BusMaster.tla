------------------------------ MODULE BusMaster ------------------------------
(***************************************************************************)
(* pc scan and pc cat on an M-Bus: runScan of cmd/pc/scan.go, and Read and *)
(* ProbeAddress of pkg/proto/mbus/client.go.  One master asks the devices  *)
(* of a bus, one target after the other.  Each exchange is SND_NKE, which  *)
(* a device acknowledges with one byte E5, then a request for its data,    *)
(* which it answers with a long frame.  Answers may come late: nothing in  *)
(* an E5 tells what it answers, and nobody looks at the address in a frame.*)
(*                                                                         *)
(* What the master receives is a queue: the channel of a single pipe       *)
(* reader on a serial port (the Stream that PipeReader implements), the    *)
(* socket's buffer over TCP.  An answer is one element of it; FrameReader  *)
(* has the bytes of a frame.                                               *)
(***************************************************************************)
EXTENDS Naturals, Sequences, FiniteSets

CONSTANTS
  AddrMod,    \* number of values of the address byte, 256 in the code
  Jobs,       \* what the user may ask for: command, transport and targets
  Buses,      \* what each primary address answers
  MaxFaults   \* bound: disturbances of the bus in a behaviour

Primaries == 0 .. AddrMod - 1
Answers == {"none", "ack", "data", "full"}
Modes == {"probe", "nke", "ud1", "ud2", "other", "foreign"}

\* A scan probes its addresses; cat gives each target a mode, "other" if Read does
\* not know it, and "foreign" if the target is of a kind that is not mbus.  A command is
\* patient when its timeouts outlast every answer, and its gaps settle the bus
\* when they do: both depend on its flags, its URI and the devices.
IsJob(j) ==
  /\ j.cmd \in {"scan", "cat"}
  /\ j.net \in {"rtu", "tcp"}
  /\ {j.patient, j.settles} \subseteq BOOLEAN
  /\ j.targets \in Seq([addr : Nat, mode : Modes]) \ {<<>>}
  /\ \A k \in 1 .. Len(j.targets) : (j.targets[k].mode = "probe") <=> (j.cmd = "scan")

ASSUME BusAssumption ==
  /\ AddrMod \in Nat \ {0}
  /\ \A j \in Jobs : IsJob(j)
  /\ Buses \subseteq [Primaries -> Answers]
  /\ MaxFaults \in Nat

VARIABLES
  job,     \* never changes
  bus,     \* never changes
  flight,  \* answers on their way
  chan,    \* what has arrived and nobody has taken
  faults,  \* disturbances so far
  pc,      \* where the master is
  i,       \* its loop variable
  vals,    \* the hits of a scan, the values of cat
  exit     \* "running", or how the command ended

busVars == <<job, bus>>
vars == <<busVars, flight, chan, faults, pc, i, vals, exit>>

NoFrame == [kind |-> "no", from |-> 0, req |-> 0]
Junk == [kind |-> "junk", from |-> 0, req |-> 0]

Init ==
  /\ job \in Jobs
  /\ bus \in Buses
  /\ flight = <<>>
  /\ chan = <<>>
  /\ faults = 0
  /\ pc = "next"
  /\ i = 1
  /\ vals = <<>>
  /\ exit = "running"

\* The address byte of a frame to target k.
Primary(k) == job.targets[k].addr % AddrMod

Mode == job.targets[i].mode
Scanning == job.cmd = "scan"
Piped == job.net = "rtu"

Acks(p) == bus[p] \in {"ack", "full"}
HasData(p) == bus[p] \in {"data", "full"}
-----------------------------------------------------------------------------
(* Variants with a bug, named after what they stand in for.                *)

\* Only the gap protects an exchange from what came before it.
Drained_Nothing == chan

\* The next exchange begins at once.
Gap_Missing ==
  /\ exit = "running" /\ pc = "next"
  /\ i <= Len(job.targets) /\ job.targets[i].mode # "foreign"
  /\ pc' = "drain"
  /\ UNCHANGED <<busVars, flight, chan, faults, i, vals, exit>>

\* An error comes with the values read before it.
ReadError_Partial ==
  /\ exit' = "error"
  /\ UNCHANGED <<pc, i, vals>>

\* cat reads the next target after an error.
ReadError_Continues ==
  /\ pc' = "next"
  /\ i' = i + 1
  /\ UNCHANGED <<vals, exit>>

\* What precedes the frame is an error.
Skips_Nothing(a) == FALSE

\* Without the 500 ms of its own, the wait for an E5 in cat.
AckTimeout_Never == FALSE /\ UNCHANGED vars
-----------------------------------------------------------------------------
(* The bus.                                                                *)

Running == exit = "running"

\* A request has reached the device at target i.
Answered(answers, kind) ==
  flight' = IF answers
            THEN Append(flight, [kind |-> kind, from |-> Primary(i), req |-> i])
            ELSE flight

Deliver ==
  /\ Running
  /\ flight # <<>>
  /\ chan' = Append(chan, Head(flight))
  /\ flight' = Tail(flight)
  /\ UNCHANGED <<busVars, faults, pc, i, vals, exit>>

Fault == faults < MaxFaults /\ faults' = faults + 1

\* A byte nobody sent, neither E5 nor the start of a frame.
Noise ==
  /\ Running
  /\ Fault
  /\ chan' = Append(chan, Junk)
  /\ UNCHANGED <<busVars, flight, pc, i, vals, exit>>

\* An answer is damaged: a frame keeps its header and fails its checks.
Corrupt ==
  /\ Running
  /\ Fault
  /\ flight # <<>>
  /\ chan' = Append(chan, IF Head(flight).kind = "frame"
                          THEN [Head(flight) EXCEPT !.kind = "bad"] ELSE Junk)
  /\ flight' = Tail(flight)
  /\ UNCHANGED <<busVars, pc, i, vals, exit>>
-----------------------------------------------------------------------------
(* The loop over the targets.                                              *)

At(label) == Running /\ pc = label

\* Every way to go on with the next target, or with none.
NextTarget ==
  /\ i' = i + 1
  /\ pc' = "next"
  /\ UNCHANGED exit

Value(f) == vals' = Append(vals, [target |-> i, frame |-> f])

\* Read returns no values with an error, and cat prints none.
Fail ==
  /\ exit' = "error"
  /\ vals' = <<>>
  /\ UNCHANGED <<pc, i>>

Finish ==
  /\ At("next")
  /\ i > Len(job.targets)
  /\ exit' = "0"
  /\ UNCHANGED <<busVars, flight, chan, faults, pc, i, vals>>

\* Read refuses a target of another kind before it sends anything for it.
WrongKind ==
  /\ At("next")
  /\ i <= Len(job.targets) /\ Mode = "foreign"
  /\ Fail
  /\ UNCHANGED <<busVars, flight, chan, faults>>

\* The gap between exchanges; over TCP it is 0, and in front of the first there
\* is none.
Gap ==
  /\ At("next")
  /\ i <= Len(job.targets) /\ Mode # "foreign"
  /\ job.settles /\ Piped => flight = <<>>
  /\ pc' = "drain"
  /\ UNCHANGED <<busVars, flight, chan, faults, i, vals, exit>>

Drained == <<>>

\* What the channel holds is dropped.  There is no channel over TCP: Read
\* goes on without, ProbeAddress dereferences nil.
Drain ==
  /\ At("drain")
  /\ \/ /\ Piped
        /\ chan' = Drained
        /\ pc' = "nke"
        /\ UNCHANGED exit
     \/ /\ ~Piped /\ ~Scanning
        /\ pc' = "nke"
        /\ UNCHANGED <<chan, exit>>
     \/ /\ ~Piped /\ Scanning
        /\ exit' = "panic"
        /\ UNCHANGED <<chan, pc>>
  /\ UNCHANGED <<busVars, flight, faults, i, vals>>
-----------------------------------------------------------------------------
(* SND_NKE and its acknowledgement.                                        *)

\* Over TCP nobody waits for the E5.
SendNKE ==
  /\ At("nke")
  /\ Answered(Acks(Primary(i)), "E5")
  /\ pc' = IF Piped THEN "ack" ELSE "request"
  /\ UNCHANGED <<busVars, chan, faults, i, vals, exit>>

\* sendShort fails, though the device may have got the frame.  A scan goes
\* on with the next address; Read tries its request all the same.
SendNKEFails ==
  /\ At("nke")
  /\ Fault
  /\ \/ Answered(Acks(Primary(i)), "E5")
     \/ UNCHANGED flight
  /\ \/ Scanning /\ NextTarget
     \/ ~Scanning /\ pc' = "request" /\ UNCHANGED <<i, exit>>
  /\ UNCHANGED <<busVars, chan, vals>>

\* The first byte is taken for the answer.
ScanAck ==
  /\ At("ack") /\ Scanning
  /\ chan # <<>>
  /\ chan' = Tail(chan)
  /\ \/ /\ Head(chan).kind = "E5"
        /\ pc' = "request"
        /\ UNCHANGED <<i, exit>>
     \/ /\ Head(chan).kind # "E5"
        /\ NextTarget
  /\ UNCHANGED <<busVars, flight, faults, vals>>

\* Read goes on in any case, and drops the rest after a wrong byte.
CatAck ==
  /\ At("ack") /\ ~Scanning
  /\ chan # <<>>
  /\ chan' = IF Head(chan).kind = "E5" THEN Tail(chan) ELSE Drained
  /\ pc' = "request"
  /\ UNCHANGED <<busVars, flight, faults, i, vals, exit>>

\* No answer is left to wait for.
TimeUp == job.patient => flight = <<>> /\ chan = <<>>

AckTimeout ==
  /\ At("ack")
  /\ TimeUp
  /\ \/ Scanning /\ NextTarget
     \/ ~Scanning /\ pc' = "request" /\ UNCHANGED <<i, exit>>
  /\ UNCHANGED <<busVars, flight, chan, faults, vals>>
-----------------------------------------------------------------------------
(* The request and the frame.                                              *)

\* Mode nke asks for nothing; a mode that Read does not know is an error.
NoRequest ==
  /\ At("request")
  /\ \/ Mode = "nke" /\ Value(NoFrame) /\ NextTarget
     \/ Mode = "other" /\ Fail
  /\ UNCHANGED <<busVars, flight, chan, faults>>

SendRequest ==
  /\ At("request")
  /\ Mode \in {"probe", "ud1", "ud2"}
  /\ Answered(HasData(Primary(i)), "frame")
  /\ pc' = "data"
  /\ UNCHANGED <<busVars, chan, faults, i, vals, exit>>

\* What becomes of an exchange without a frame.
ReadError == Fail
NoData == IF Scanning THEN Value(NoFrame) /\ NextTarget ELSE ReadError

SendRequestFails ==
  /\ At("request")
  /\ Mode \in {"probe", "ud1", "ud2"}
  /\ Fault
  /\ \/ Answered(HasData(Primary(i)), "frame")
     \/ UNCHANGED flight
  /\ NoData
  /\ UNCHANGED <<busVars, chan>>

\* readLong looks for the start of a frame.
Skips(a) == a.kind \notin {"frame", "bad"}

\* Over TCP it reads through a bufio.Reader of its own, and what that has
\* buffered after the frame is lost.
ReadLong ==
  /\ At("data")
  /\ chan # <<>>
  /\ \/ /\ Skips(Head(chan))
        /\ chan' = Tail(chan)
        /\ UNCHANGED <<pc, i, vals, exit>>
     \/ /\ Head(chan).kind = "frame"
        /\ \E n \in 1 .. IF Piped THEN 1 ELSE Len(chan) :
             chan' = SubSeq(chan, n + 1, Len(chan))
        /\ Value(Head(chan))
        /\ NextTarget
     \/ /\ Head(chan).kind # "frame" /\ ~Skips(Head(chan))
        /\ chan' = Tail(chan)
        /\ NoData
  /\ UNCHANGED <<busVars, flight, faults>>

DataTimeout ==
  /\ At("data")
  /\ TimeUp
  /\ NoData
  /\ UNCHANGED <<busVars, flight, chan, faults>>

MasterStep ==
  \/ Finish
  \/ WrongKind
  \/ Gap
  \/ Drain
  \/ SendNKE
  \/ SendNKEFails
  \/ ScanAck
  \/ CatAck
  \/ AckTimeout
  \/ NoRequest
  \/ SendRequest
  \/ SendRequestFails
  \/ ReadLong
  \/ DataTimeout

Next == Deliver \/ Noise \/ Corrupt \/ MasterStep

Spec == Init /\ [][Next]_vars

\* The next step is a write to the serial port, which has no deadline: a driver
\* with no room for the bytes may keep it for ever.  (The deadline that writeAll
\* gives a socket ends a write over TCP.)
Writing ==
  /\ Running /\ Piped
  /\ \/ pc = "nke"
     \/ pc = "request" /\ Mode \in {"probe", "ud1", "ud2"}

\* Answers arrive, timers fire, and the command runs; a write to the serial port
\* need not return.
FairSpec == Spec /\ WF_vars(Deliver) /\ WF_vars(~Writing /\ MasterStep)
-----------------------------------------------------------------------------
(* Properties.                                                             *)

Replies == [kind : {"no", "junk", "E5", "frame", "bad"}, from : Primaries, req : Nat]

\* The variables have their types, and a command that fails has no values.
TypeOK ==
  /\ job \in Jobs
  /\ bus \in Buses
  /\ flight \in Seq(Replies)
  /\ chan \in Seq(Replies)
  /\ faults \in 0 .. MaxFaults
  /\ pc \in {"next", "drain", "nke", "ack", "request", "data"}
  /\ i \in 1 .. Len(job.targets) + 1
  /\ vals \in Seq([target : 1 .. Len(job.targets), frame : Replies])
  /\ exit \in {"running", "0", "error", "panic"}
  /\ exit = "error" => vals = <<>>

Reported(k) == {v \in {vals[n] : n \in 1 .. Len(vals)} : v.target = k}

\* A patient scan reports no device that is not there, and no data of a
\* device that sends none, even when noise makes it leave an exchange before its answer
\* has come: gap and drain keep that answer from the next address.
NoPhantom ==
  Scanning /\ job.patient /\ job.settles => \A k \in 1 .. Len(vals) :
    /\ Acks(Primary(vals[k].target))
    /\ vals[k].frame # NoFrame => vals[k].frame.req = vals[k].target

\* A disturbance of the bus spoils the result for one address at most.
Spoilt(k) ==
  CASE bus[Primary(k)] = "ack"  -> \A v \in Reported(k) : v.frame # NoFrame
    [] bus[Primary(k)] = "full" -> \A v \in Reported(k) : v.frame = NoFrame
    [] OTHER                    -> Reported(k) # {}

DamageIsLocal ==
  Scanning /\ job.patient /\ job.settles /\ exit = "0" =>
    Cardinality({k \in 1 .. Len(job.targets) : Spoilt(k)}) <= faults

\* However late the answers come, a frame that cat prints for a target is
\* the answer to the request for that target: no frame is left over from an
\* earlier one, and modes with no frame print none.
OwnFrame ==
  ~Scanning => \A k \in 1 .. Len(vals) :
    IF job.targets[vals[k].target].mode = "nke"
    THEN vals[k].frame = NoFrame
    ELSE vals[k].frame.kind = "frame" /\ vals[k].frame.req = vals[k].target

\* On an undisturbed bus a patient cat reads every device that sends data, also one
\* that does not acknowledge SND_NKE, over serial and over TCP.
CatReadsAll ==
  /\ ~Scanning /\ job.patient /\ exit # "running" /\ faults = 0
  /\ \A k \in 1 .. Len(job.targets) :
       \/ job.targets[k].mode = "nke"
       \/ job.targets[k].mode \in {"ud1", "ud2"} /\ HasData(Primary(k))
  => exit = "0" /\ Len(vals) = Len(job.targets)

\* Every command ends, whatever the devices answer, unless a write to the serial
\* port hangs.
Ends == <>(exit # "running") \/ <>[]Writing

\* "pc scan <mbus-uri>": no panic.
NoPanic == exit # "panic"
=============================================================================
