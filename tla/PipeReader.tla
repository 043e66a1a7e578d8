----------------------------- MODULE PipeReader -----------------------------
(***************************************************************************)
(* The background reader of a serial M-Bus port, pkg/proto/mbus/client.go. *)
(*                                                                         *)
(* A client with an open serial port runs a goroutine that copies what the *)
(* port delivers into a channel, one byte at a time; the caller takes the  *)
(* bytes from the channel.  StartPipeReader can be called again while a    *)
(* reader runs (diagnose does), and RestartPipeReader cancels the reader   *)
(* that the client knows and starts another, so several readers can be     *)
(* alive on one port.                                                      *)
(*                                                                         *)
(* The caller is the most general sequential one: it opens the port, then  *)
(* starts, restarts, takes bytes and closes in any order.  Bytes are       *)
(* numbered by arrival; their values do not matter here.                   *)
(***************************************************************************)
EXTENDS Naturals, Sequences

CONSTANTS
  MaxReaders,   \* bound: readers started in a behaviour
  MaxBytes,     \* bound: bytes that the bus delivers in a behaviour
  ChanCap,      \* capacity of the channel, 4096 in the code
  BufCap,       \* length of the read buffer, 256 in the code
  ReadTimeout,  \* whether the driver supports SetReadTimeout
  CanUnplug     \* whether a Read of an open port may fail

ASSUME PipeAssumption ==
  /\ MaxReaders \in Nat \ {0}
  /\ MaxBytes \in Nat
  /\ ChanCap \in Nat \ {0}
  /\ BufCap \in Nat \ {0}
  /\ ReadTimeout \in BOOLEAN
  /\ CanUnplug \in BOOLEAN

Readers == 1 .. MaxReaders
Bytes == 1 .. MaxBytes
nil == 0

VARIABLES
  port,       \* "new" before Open, then "open" until Close makes it "closed"
  arrived,    \* number of bytes the bus has delivered
  rx,         \* receive queue of the serial driver
  started,    \* number of readers started
  pc,         \* where each reader goroutine is
  buf,        \* what a reader has read and not pushed yet: buf[i..n-1]
  ch,         \* its channel
  done,       \* whether its done channel is closed
  pipeRd,     \* the reader the client takes bytes from, or nil
  pipCancel,  \* the reader whose done channel pipCancel closes, or nil
  last        \* the last byte the caller removed from a channel

readerVars == <<pc, buf, ch>>
clientVars == <<port, started, done, pipeRd, pipCancel>>
vars == <<port, arrived, rx, started, pc, buf, ch, done, pipeRd, pipCancel, last>>

Init ==
  /\ port = "new"
  /\ arrived = 0
  /\ rx = <<>>
  /\ started = 0
  /\ pc = [r \in Readers |-> "off"]
  /\ buf = [r \in Readers |-> <<>>]
  /\ ch = [r \in Readers |-> <<>>]
  /\ done = [r \in Readers |-> FALSE]
  /\ pipeRd = nil
  /\ pipCancel = nil
  /\ last = 0
-----------------------------------------------------------------------------
(* Variants with a bug.  Each has the name of the definition it stands in  *)
(* for and of the mistake, and breaks one of the properties below.         *)

\* A buffered channel that never blocks its sender.
HasRoom_Unbounded(r) == TRUE

\* The loop goes back to Read without its select on done.
AfterPush_NoCheck(r) == IF Tail(buf[r]) = <<>> THEN "read" ELSE "push"

\* select with a default: a byte is dropped when the channel is full.
ReaderPush_DropWhenFull(r) ==
  /\ pc[r] = "push"
  /\ ch' = IF Len(ch[r]) < ChanCap
           THEN [ch EXCEPT ![r] = Append(@, Head(buf[r]))]
           ELSE ch
  /\ buf' = [buf EXCEPT ![r] = Tail(@)]
  /\ pc' = [pc EXCEPT ![r] = IF Tail(buf[r]) = <<>> THEN "check" ELSE "push"]
  /\ UNCHANGED <<clientVars, arrived, rx, last>>

\* The buffer is pushed from its end.
ReaderPush_Backwards(r) ==
  /\ pc[r] = "push"
  /\ Len(ch[r]) < ChanCap
  /\ ch' = [ch EXCEPT ![r] = Append(@, buf[r][Len(buf[r])])]
  /\ buf' = [buf EXCEPT ![r] = SubSeq(@, 1, Len(@) - 1)]
  /\ pc' = [pc EXCEPT ![r] = IF Tail(buf[r]) = <<>> THEN "check" ELSE "push"]
  /\ UNCHANGED <<clientVars, arrived, rx, last>>

\* A plain send to the channel, outside a select.
ReaderAbandon_Never(r) == FALSE /\ UNCHANGED vars

\* The select at the top of the loop has no default.
ReaderCheck_NoDefault(r) ==
  /\ pc[r] = "check"
  /\ done[r]
  /\ pc' = [pc EXCEPT ![r] = "exit"]
  /\ UNCHANGED <<clientVars, arrived, rx, buf, ch, last>>
-----------------------------------------------------------------------------
(* The bus and the caller.                                                 *)

Arrive ==
  /\ port = "open"
  /\ arrived < MaxBytes
  /\ arrived' = arrived + 1
  /\ rx' = Append(rx, arrived + 1)
  /\ UNCHANGED <<clientVars, readerVars, last>>

\* The body of StartPipeReader: a new goroutine, its channels, and the
\* client pointing at them.  Whatever the client pointed at is forgotten.
Launch ==
  /\ started < MaxReaders
  /\ started' = started + 1
  /\ pc' = [pc EXCEPT ![started + 1] = "check"]
  /\ pipeRd' = started + 1
  /\ pipCancel' = started + 1

Cancel(r) == done' = IF r = nil THEN done ELSE [done EXCEPT ![r] = TRUE]

Open ==
  /\ port = "new"
  /\ port' = "open"
  /\ Launch
  /\ UNCHANGED <<arrived, rx, buf, ch, done, last>>

StartPipeReader ==
  /\ port = "open"
  /\ Launch
  /\ UNCHANGED <<port, arrived, rx, buf, ch, done, last>>

RestartPipeReader ==
  /\ port = "open"
  /\ Cancel(pipCancel)
  /\ Launch
  /\ UNCHANGED <<port, arrived, rx, buf, ch, last>>

Close ==
  /\ port = "open"
  /\ port' = "closed"
  /\ Cancel(pipCancel)
  /\ pipeRd' = nil
  /\ pipCancel' = nil
  /\ UNCHANGED <<arrived, rx, started, readerVars, last>>

\* A byte leaves the channel of r: in readByte, or in a turn of drain.
TakeFrom(r) ==
  /\ ch[r] # <<>>
  /\ last' = Head(ch[r])
  /\ ch' = [ch EXCEPT ![r] = Tail(@)]

ReadByte ==
  /\ pipeRd # nil
  /\ TakeFrom(pipeRd)
  /\ UNCHANGED <<clientVars, arrived, rx, pc, buf>>
-----------------------------------------------------------------------------
(* The goroutine of a reader.                                              *)

\* The select at the top of its loop.
ReaderCheck(r) ==
  /\ pc[r] = "check"
  /\ pc' = [pc EXCEPT ![r] = IF done[r] THEN "exit" ELSE "read"]
  /\ UNCHANGED <<clientVars, arrived, rx, buf, ch, last>>

Chunk == IF Len(rx) < BufCap THEN Len(rx) ELSE BufCap

\* Read returns the bytes that are there, as many as the buffer holds.
ReaderRead(r) ==
  /\ pc[r] = "read"
  /\ port = "open"
  /\ rx # <<>>
  /\ buf' = [buf EXCEPT ![r] = SubSeq(rx, 1, Chunk)]
  /\ rx' = SubSeq(rx, Chunk + 1, Len(rx))
  /\ pc' = [pc EXCEPT ![r] = "push"]
  /\ UNCHANGED <<clientVars, arrived, ch, last>>

\* Read returns 0 bytes and no error.
ReaderTimeout(r) ==
  /\ pc[r] = "read"
  /\ port = "open"
  /\ ReadTimeout
  /\ rx = <<>>
  /\ pc' = [pc EXCEPT ![r] = "check"]
  /\ UNCHANGED <<clientVars, arrived, rx, buf, ch, last>>

\* Read fails: the port is closed, or the adapter is gone.
ReaderFail(r) ==
  /\ pc[r] = "read"
  /\ port = "closed" \/ CanUnplug
  /\ pc' = [pc EXCEPT ![r] = "exit"]
  /\ UNCHANGED <<clientVars, arrived, rx, buf, ch, last>>

HasRoom(r) == Len(ch[r]) < ChanCap

AfterPush(r) == IF Tail(buf[r]) = <<>> THEN "check" ELSE "push"

ReaderPush(r) ==
  /\ pc[r] = "push"
  /\ HasRoom(r)
  /\ ch' = [ch EXCEPT ![r] = Append(@, Head(buf[r]))]
  /\ buf' = [buf EXCEPT ![r] = Tail(@)]
  /\ pc' = [pc EXCEPT ![r] = AfterPush(r)]
  /\ UNCHANGED <<clientVars, arrived, rx, last>>

\* The other case of the same select: the rest of the buffer is dropped.
\* When both cases are ready, Go picks either.
ReaderAbandon(r) ==
  /\ pc[r] = "push"
  /\ done[r]
  /\ buf' = [buf EXCEPT ![r] = <<>>]
  /\ pc' = [pc EXCEPT ![r] = "exit"]
  /\ UNCHANGED <<clientVars, arrived, rx, ch, last>>

ReaderStep(r) ==
  \/ ReaderCheck(r)
  \/ ReaderRead(r)
  \/ ReaderTimeout(r)
  \/ ReaderFail(r)
  \/ ReaderPush(r)
  \/ ReaderAbandon(r)

Next ==
  \/ Arrive
  \/ Open
  \/ StartPipeReader
  \/ RestartPipeReader
  \/ Close
  \/ ReadByte
  \/ \E r \in Readers : ReaderStep(r)

Spec == Init /\ [][Next]_vars

\* What a reader does when the adapter stays where it is.
ReaderGoesOn(r) == ReaderStep(r) /\ ~(ReaderFail(r) /\ port = "open")

\* The Go scheduler runs every goroutine that can run; nothing has to fail.
FairSpec == Spec /\ \A r \in Readers : WF_vars(ReaderGoesOn(r))
-----------------------------------------------------------------------------
(* Properties.                                                             *)

Content(s) == {s[i] : i \in 1 .. Len(s)}

\* The variables have their types; a channel never holds more than its
\* capacity, a reader never more than its buffer, and a reader has something
\* to push exactly when it is at the push.
TypeOK ==
  /\ port \in {"new", "open", "closed"}
  /\ arrived \in 0 .. MaxBytes
  /\ rx \in Seq(Bytes)
  /\ started \in 0 .. MaxReaders
  /\ pc \in [Readers -> {"off", "check", "read", "push", "exit"}]
  /\ buf \in [Readers -> Seq(Bytes)]
  /\ ch \in [Readers -> Seq(Bytes)]
  /\ done \in [Readers -> BOOLEAN]
  /\ pipeRd \in 0 .. started
  /\ pipCancel \in 0 .. started
  /\ last \in 0 .. MaxBytes
  /\ \A r \in Readers :
       /\ Len(ch[r]) <= ChanCap
       /\ Len(buf[r]) <= BufCap
       /\ pc[r] = "push" <=> buf[r] # <<>>

\* While the port is open and its first reader is the only one, no byte is
\* lost, doubled or moved on its way: what the driver, the reader and the
\* channel hold is exactly what has arrived after the byte taken last.
Lossless ==
  port = "open" /\ started = 1 =>
    ch[1] \o buf[1] \o rx = [i \in 1 .. (arrived - last) |-> last + i]

\* A cancelled reader may finish the Read it is in, and so keep one more
\* chunk from its successor, but it never goes back to the port.
CancelledReadsOnce ==
  [][\A r \in Readers : done[r] /\ pc'[r] = "read" => pc[r] = "read"]_vars

\* The bytes that the caller can still get.
Available ==
  Content(rx) \cup
  (IF pipeRd = nil THEN {} ELSE Content(buf[pipeRd]) \cup Content(ch[pipeRd]))

\* Whatever the caller does with its readers, the bytes it takes come in the
\* order of arrival and none comes twice: the readers implement ByteStream.
\* A restart or a second reader can only lose bytes.
Stream == INSTANCE ByteStream WITH sent <- arrived, queue <- Available, last <- last

StreamSpec == Stream!Spec

\* A cancelled reader stops, even when it is waiting for room in a channel
\* that nobody reads any more (the driver must honour SetReadTimeout).
CancelStops == \A r \in Readers : done[r] ~> pc[r] = "exit"

\* What the bus delivers does not stay in the driver: some reader takes it,
\* unless the port is closed, a Read has failed, or a reader waits for room
\* in its channel.
Delivery ==
  \A b \in Bytes :
    b \in Content(rx) ~>
      \/ b \notin Content(rx)
      \/ port = "closed"
      \/ \E r \in Readers : Len(ch[r]) = ChanCap \/ (pc[r] = "exit" /\ ~done[r])
=============================================================================
