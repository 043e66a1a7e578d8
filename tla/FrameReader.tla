---------------------------- MODULE FrameReader -----------------------------
(***************************************************************************)
(* readLong of pkg/proto/mbus/client.go: how an M-Bus long frame           *)
(*     68 L L 68 payload checksum 16                                       *)
(* is picked out of what comes from the bus, one byte at a time.  The code *)
(* has it twice, over the channel of a PipeReader and over a bufio.Reader, *)
(* with the same statements.  The bus may send anything; the call ends     *)
(* with a frame, with an error, or when its context or the stream ends.    *)
(*                                                                         *)
(* The code's bytes are 0 .. 255 with 68 and 16 hexadecimal; here the      *)
(* number of byte values and both markers are parameters.                  *)
(***************************************************************************)
EXTENDS Integers, Sequences, SequencesExt

CONSTANTS
  ByteMod,  \* number of byte values, 256 in the code
  Start,    \* the byte that starts a frame and ends its header, 0x68
  Stop,     \* the byte that ends a frame, 0x16
  MaxLen    \* bound: bytes that come during the call

ASSUME FrameAssumption ==
  /\ ByteMod \in Nat \ {0}
  /\ Start \in 0 .. ByteMod - 1
  /\ Stop \in 0 .. ByteMod - 1
  /\ MaxLen \in Nat

Byte == 0 .. ByteMod - 1

VARIABLES
  got,      \* the bytes read by this call
  st,       \* what the next byte is taken for, or how the call ended
  l1, l2,   \* the two length bytes
  payload,
  cs,       \* the checksum byte
  out,      \* the frame returned
  mark      \* auxiliary: where in got the current header starts

vars == <<got, st, l1, l2, payload, cs, out, mark>>

Init ==
  /\ got = <<>>
  /\ st = "hunt"
  /\ l1 = 0
  /\ l2 = 0
  /\ payload = <<>>
  /\ cs = 0
  /\ out = <<>>
  /\ mark = 0

\* The checksum: a sum of bytes in a byte.
lrc(s) == FoldSeq(LAMBDA b, sum : (sum + b) % ByteMod, 0, s)
-----------------------------------------------------------------------------
(* Variants with a bug, named after what they stand in for.                *)

\* The length bytes are not compared.
HeaderFits_LengthsUnchecked(b) == b = Start

\* A header that does not fit ends the call.
AfterBadHeader_Error == "error"

\* The payload of a frame that ends right is not checked.
ChecksumFits_Always == TRUE

\* A loop that reads a first payload byte before it looks at the length.
AfterHeader_Payload == "payload"

\* The second start byte is missing from the frame that is returned.
Frame_OneStart == <<Start, l1, l1>> \o payload \o <<cs, Stop>>
-----------------------------------------------------------------------------
Take(b) == got' = Append(got, b)

Hunt(b) ==
  /\ st = "hunt"
  /\ Take(b)
  /\ st' = IF b = Start THEN "l1" ELSE "hunt"
  /\ mark' = IF b = Start THEN Len(got) + 1 ELSE mark
  /\ UNCHANGED <<l1, l2, payload, cs, out>>

FirstLength(b) ==
  /\ st = "l1"
  /\ Take(b)
  /\ l1' = b
  /\ st' = "l2"
  /\ UNCHANGED <<l2, payload, cs, out, mark>>

SecondLength(b) ==
  /\ st = "l2"
  /\ Take(b)
  /\ l2' = b
  /\ st' = "start2"
  /\ UNCHANGED <<l1, payload, cs, out, mark>>

HeaderFits(b) == b = Start /\ l1 = l2

AfterHeader == IF l1 = 0 THEN "cs" ELSE "payload"

\* The three bytes after a 68 are gone, whatever they were.
AfterBadHeader == "hunt"

SecondStart(b) ==
  /\ st = "start2"
  /\ Take(b)
  /\ payload' = <<>>
  /\ st' = IF HeaderFits(b) THEN AfterHeader ELSE AfterBadHeader
  /\ UNCHANGED <<l1, l2, cs, out, mark>>

Payload(b) ==
  /\ st = "payload"
  /\ Take(b)
  /\ payload' = Append(payload, b)
  /\ st' = IF Len(payload) + 1 = l1 THEN "cs" ELSE "payload"
  /\ UNCHANGED <<l1, l2, cs, out, mark>>

Checksum(b) ==
  /\ st = "cs"
  /\ Take(b)
  /\ cs' = b
  /\ st' = "end"
  /\ UNCHANGED <<l1, l2, payload, out, mark>>

ChecksumFits == lrc(payload) = cs

\* The frame is put together again from its parts.
Frame == <<Start, l1, l1, Start>> \o payload \o <<cs, Stop>>

End(b) ==
  /\ st = "end"
  /\ Take(b)
  /\ \/ /\ b = Stop /\ ChecksumFits
        /\ st' = "ok"
        /\ out' = Frame
     \/ /\ ~(b = Stop /\ ChecksumFits)
        /\ st' = "error"
        /\ UNCHANGED out
  /\ UNCHANGED <<l1, l2, payload, cs, mark>>

Reading == st \notin {"ok", "error", "stopped"}

\* The context is done, or the stream ends.
GiveUp ==
  /\ Reading
  /\ st' = "stopped"
  /\ UNCHANGED <<got, l1, l2, payload, cs, out, mark>>

ReadStep(b) ==
  \/ Hunt(b)
  \/ FirstLength(b)
  \/ SecondLength(b)
  \/ SecondStart(b)
  \/ Payload(b)
  \/ Checksum(b)
  \/ End(b)

Next ==
  \/ Len(got) < MaxLen /\ \E b \in Byte : ReadStep(b)
  \/ GiveUp

Spec == Init /\ [][Next]_vars
-----------------------------------------------------------------------------
(* The checks of DecodeFrame, which gets what readLong returns.            *)

\* Its verdict on the framing; "payload" is decoded further, by its CI byte.
DecodeFrame(f) ==
  IF Len(f) < 6 THEN "too short"
  ELSE IF f[1] # Start \/ f[4] # Start \/ f[Len(f)] # Stop THEN "invalid markers"
  ELSE IF f[2] # f[3] THEN "length mismatch"
  ELSE IF 4 + f[2] + 2 > Len(f) THEN "length inconsistent"
  ELSE IF f[2] < 3 THEN "payload too short"
  ELSE "payload"

\* A long frame, as EN 13757-2 and the code have it.
IsFrame(f) ==
  /\ Len(f) >= 6
  /\ f[1] = Start /\ f[4] = Start /\ f[Len(f)] = Stop
  /\ f[2] = f[3] /\ Len(f) = f[2] + 6
  /\ lrc(SubSeq(f, 5, Len(f) - 2)) = f[Len(f) - 1]
-----------------------------------------------------------------------------
(* Properties.                                                             *)

\* The variables have their types, and a payload is never longer than its
\* header says.
TypeOK ==
  /\ got \in Seq(Byte)
  /\ st \in {"hunt", "l1", "l2", "start2", "payload", "cs", "end", "ok", "error", "stopped"}
  /\ l1 \in Byte
  /\ l2 \in Byte
  /\ payload \in Seq(Byte)
  /\ cs \in Byte
  /\ out \in Seq(Byte)
  /\ mark \in 0 .. Len(got)
  /\ st \in {"payload", "cs", "end"} => l1 = l2 /\ Len(payload) <= l1

\* What the call returns is a frame that was on the bus just so: its last
\* bytes, none of them missing, none put in between.
Sound ==
  st = "ok" => /\ mark >= 1
               /\ out = SubSeq(got, mark, Len(got))
               /\ IsFrame(out)

\* DecodeFrame has nothing to say against the framing of what readLong
\* returns; only the payload may be too short for it.
Decodable == st = "ok" => DecodeFrame(out) \in {"payload too short", "payload"}

\* A frame after noise that does not contain the start byte is found: unless
\* the call is given up, it returns that frame with the frame's last byte.
\* (A start byte in the noise can hide a frame: see Hidden in the README.)
FrameFound ==
  \A i \in 1 .. Len(got) :
    (/\ \A j \in 1 .. i - 1 : got[j] # Start
     /\ IsFrame(SubSeq(got, i, Len(got))))
    => st = "stopped" \/ (st = "ok" /\ out = SubSeq(got, i, Len(got)))

\* Only a frame with a good header can end the call with an error: noise, a
\* stray start byte or two lengths that differ do not.
ErrorNeedsHeader ==
  st = "error" =>
    \E i \in 1 .. Len(got) :
      /\ got[i] = Start
      /\ Len(got) = i + got[i + 1] + 5
      /\ got[i + 1] = got[i + 2]
      /\ got[i + 3] = Start
      /\ ~IsFrame(SubSeq(got, i, Len(got)))
=============================================================================
