---------------------------- MODULE MCSequential ----------------------------
(***************************************************************************)
(* The sequential parts of pc, each by itself, in one run: which of them   *)
(* takes its steps is chosen at the start, and the others do not move.     *)
(***************************************************************************)
EXTENDS FrameReader, RecordParser, RegisterCodec, CommandLine, AddressParser, Release

CONSTANT Parts  \* which parts are run

VARIABLE part

MCvars == <<part, vars, parserVars, codecVars, lineVars, addrVars, releaseVars>>
-----------------------------------------------------------------------------
(* What meters send.  Each item is written down from the definition of the *)
(* record that it stands for, and so the other way round than the parser   *)
(* reads it.                                                               *)

\* n bytes of a number below 2^24, least significant first, two's complement.
LittleEndian(x, n) == [i \in 1 .. n |-> IF i > 3 THEN IF x < 0 THEN 255 ELSE 0
                                        ELSE (x \div 256^(i - 1)) % 256]
\* n bytes of two digits each, of a number below 10^8.
Digits(x, n) == [i \in 1 .. n |-> IF i > 4 THEN 0
                                  ELSE ((x \div 100^(i - 1)) % 10)
                                       + 16 * ((x \div (10 * 100^(i - 1))) % 10)]

\* The DIF with its extensions: storage numbers have their lowest bit in the
\* DIF and four in each DIFE, tariffs two in each DIFE.
Dib(df, fn, storage, tariff, difes) ==
  [i \in 1 .. difes + 1 |->
    (IF i <= difes THEN 128 ELSE 0) +
    IF i = 1 THEN df + 16 * fn + 64 * (storage % 2)
    ELSE 2 * ((storage \div (2 * 16^(i - 2))) % 16) + 32 * ((tariff \div 4^(i - 2)) % 4)]

Item(fn, storage, tariff, bytes, known, value) ==
  [bytes |-> bytes,
   shows |-> <<[fn |-> fn, storage |-> storage % StorageMod, tariff |-> tariff,
                known |-> known, value |-> value]>>]
Simple(df, vib, raw, known, value) == Item(0, 0, 0, <<df>> \o vib \o raw, known, value)

Items == {
  [bytes |-> <<47>>, shows |-> <<>>],
  \* energy, 1 byte, negative; and a maximum of storage 13, tariff 6, one VIFE
  Simple(1, <<3>>, LittleEndian(-2, 1), TRUE, Val("number", <<-2, 1, 0>>)),
  Item(1, 13, 6, Dib(2, 1, 13, 6, 2) \o <<147, 59>> \o LittleEndian(-300, 2),
       TRUE, Val("number", <<-300, 1, -3>>)),
  \* a storage number wider than the code's
  Item(3, 1490, 0, Dib(0, 3, 1490, 0, 3) \o <<255, 129, 2>>, TRUE, Val("none", <<>>)),
  Simple(3, <<253, 25>>, LittleEndian(-65537, 3), TRUE, Val("number", <<-65537, 1, 0>>)),
  Simple(4, <<253, 201, 129, 1>>, LittleEndian(70000, 4), TRUE, Val("number", <<70000, 1, 0>>)),
  Simple(6, <<251, 1>>, LittleEndian(-70000, 6), TRUE, Val("number", <<-70000, 1, 6>>)),
  Simple(7, <<123>>, LittleEndian(-1, 8), FALSE, Val("number", <<-1, 1, 0>>)),
  \* digits
  Simple(9, <<62>>, Digits(47, 1), TRUE, Val("number", <<47, 1, 0>>)),
  Simple(14, <<253, 37>>, Digits(1234567, 6), TRUE, Val("number", <<1234567, 60, 0>>)),
  \* floats, finite and not
  Simple(5, <<43>>, <<0, 0, 192, 63>>, TRUE, Val("float", <<0, 0, 192, 63, 1, 0>>)),
  Simple(5, <<43>>, <<0, 0, 128, 255>>, TRUE, Val("error", <<0, 0, 128, 255>>)),
  \* dates: 24 December 2023, and 31 May 2063, 23:59, in summer time
  Simple(2, <<108>>, LittleEndian(24 + 32 * 12 + 512 * 23, 2), TRUE, Val("date", <<23, 12, 24>>)),
  Simple(4, <<109>>, <<59 + 64, 23, 31 + 32 * 7, 5 + 16 * 7>>, TRUE,
         Val("datetime", <<63, 5, 31, 23, 59>>)),
  \* text "AB", back to front and padded; and no text
  Simple(13, <<253, 14>>, <<3, 0, 66, 65>>, TRUE, Val("text", <<65, 66>>)),
  Simple(13, <<253, 15>>, <<0>>, TRUE, Val("none", <<>>)) }

\* A text as long as a length byte with the highest bit says.
LongText == Simple(13, <<253, 14>>, <<128>> \o [i \in 1 .. 128 |-> 65 + (i % 2)], TRUE,
                   Val("text", [i \in 1 .. 128 |-> 66 - (i % 2)]))

Marks == { [bytes |-> <<m, 2, 3>>, shows |-> <<>>] : m \in {15, 31} }

HeadBytes == <<120, 86, 52, 18, 45, 44, 1, 6, 85, 0, 0, 0>>
HeadMeant == [id |-> <<18, 52, 86, 120>>, mfr |-> <<75, 65, 77>>,
         version |-> 1, medium |-> 6, access |-> 85, status |-> 0]

Sent(ci, items) ==
  [items |-> items, head |-> HeadMeant,
   bytes |-> <<ci>> \o HeadBytes \o FlattenSeq([i \in DOMAIN items |-> items[i].bytes])]

Meters == { Sent(122, <<>>), Sent(114, <<>>) }
          \cup { Sent(114, <<i, j>>) : i \in Items, j \in Items \cup Marks }
          \cup { Sent(114, <<LongText, j>>) : j \in Items }
          \cup { Sent(114, <<i, j, k>>) : i, j, k \in {x \in Items : Len(x.bytes) <= 5} }

\* What has been written down by hand is what the standard says.
ASSUME MetersKeepToStandard /\ \A t \in Meters : Before2064(t)
-----------------------------------------------------------------------------
(* Registers.  With four byte values, two registers hold 0 .. 255.  A float *)
(* has a sign, an exponent from 0 to 6 and four bits behind the point: all *)
(* halves up to 16 have one, and from 16 on (32 halves) not all integers.  *)

FormatNames ==
  {"", "unknown", "u16", "s16", "u32", "u32le", "u32ws", "u32bs", "u32wbs",
   "s32", "s32le", "s32ws", "f32", "f32be", "f32le", "f32ws", "f32bs", "f32wbs",
   "f32abcd", "f32cdab", "f32badc", "f32dcba"}
MCSpecs == [format : FormatNames, count : 0 .. 2]

MCInf == 7 * 16
MCMagnitude == [n \in 0 .. MCInf |-> LET e == n \div 16
                                         m == n % 16
                                     IN IF e = 0 THEN m ELSE (16 + m) * 2^(e - 1)]

NumText(form, num) == [form |-> form, num |-> num, ten |-> num]
\* Around zero, around the limits of every format, and what is between them.
MCTexts ==
  {NumText(f, n) : f \in {"hex", "dec"}, n \in {0, 14, 30, 32, 110, 510, 512}}
  \cup {NumText(f, n) : f \in {"expr", "hexexpr"},
          n \in {-257, -256, -61, -60, -9, -1, 5, 30, 31, 33, 35, 61, 253, 254, 255,
                 509, 510, 511, 512}}
  \* around the greatest float, from which 1008 is the halfway point to the next
  \cup {NumText("expr", n) : n \in {-1009, -1008, -1007, -992, 976, 991, 1007, 1008, 2000}}
  \cup {NumText("bad", 0), NumText("nan", 0)}
  \* 010 and 017, that Go reads as eight and fifteen
  \cup {[form |-> "dec", num |-> 16, ten |-> 20], [form |-> "dec", num |-> 30, ten |-> 34]}
MCContents == {<<0, 1, 2, 3>>, <<3, 2, 1, 0>>, <<1, 3, 0, 2>>, <<2, 0, 3, 1>>}
-----------------------------------------------------------------------------
(* Command lines of up to three items.                                     *)

It(form, name, val) == [form |-> form, name |-> name, val |-> val]
MCInts == ("0" :> 0) @@ ("2" :> 2) @@ ("5" :> 5) @@ ("7" :> 7) @@ ("251" :> 251) @@ ("-3" :> -3)
MCUpper == ("o" :> "O") @@ ("even" :> "EVEN")
MCUris == ("rtu" :> [scheme |-> "mbus+rtu", path |-> "/dev/ttyUSB0"])
          @@ ("tcp" :> [scheme |-> "mbus+tcp", path |-> ""])
          @@ ("bare" :> [scheme |-> "mbus+rtu", path |-> ""])
BothItems ==
  {It("uri", "", "rtu"), It("bool", "json", ""), It("bool", "q", ""),
   It("eq", "quiet", "false"), It("eq", "json", "x"), It("sep", "timeout", "2s"),
   It("bool", "timeout", "")}
ScanItems ==
  {It("sep", "from", "5"), It("sep", "from", "-3"), It("eq", "from", "7"),
   It("sep", "to", "5"), It("sep", "to", "251"), It("bool", "from", "")}
DiagnoseItems ==
  {It("sep", "address", "7"), It("eq", "address", "0"), It("sep", "baud", "-3"),
   It("sep", "parity", "o"), It("eq", "parity", "even"), It("bool", "parity", ""),
   It("eq", "stop", "2"), It("sep", "data", "7"), It("eq", "data", "0"), It("sep", "form", "5"),
   It("uri", "", "tcp"), It("uri", "", "bare")}
UpTo(n, S) == UNION {[1 .. m -> S] : m \in 0 .. n}
MCLines ==
  [cmd : {"scan"}, items : UpTo(3, BothItems \cup ScanItems)]
  \cup [cmd : {"diagnose"}, items : UpTo(3, BothItems \cup DiagnoseItems)]
-----------------------------------------------------------------------------
(* Addresses: every order of up to four tokens behind the kind, and more   *)
(* behind a count.                                                         *)

MCDecimals == ("0" :> 0) @@ ("2" :> 2) @@ ("65535" :> 65535) @@ ("65536" :> 65536)
Separators == {"@", "$", ":", "="}
AddrTokens == Separators \cup DOMAIN MCDecimals \cup {"u16"}
\* Two runs of digits or letters would be one.
Separated(s) == \A m \in 1 .. Len(s) - 1 : s[m] \in Separators \/ s[m + 1] \in Separators
Behind == {s \in UpTo(4, AddrTokens) : Separated(s)}
BehindCount ==
  {<<"2", ":", d>> \o s : d \in DOMAIN MCDecimals,
     s \in {t \in [1 .. 3 -> Separators \cup {"u16", "2"}] : t[1] \in Separators /\ Separated(t)}}
MCTyped ==
  [cmd : {"cat", "set"},
   tokens : {<<"holding", "/">> \o s : s \in Behind \cup BehindCount}
            \cup {<<"mbus", "/">> \o s : s \in {t \in Behind : Len(t) <= 3}}
            \cup {<<>>, <<"holding">>, <<"pump", "/", "2">>, <<"/", "2">>, <<"mbus", "2">>}]
-----------------------------------------------------------------------------
(* Systems: three names of two lock files, and two processes.              *)

MCLockPaths == <<"/var/lock/LCK..p", "/var/spool/lock/LCK..p", "/var/run/lock/LCK..p">>
MCFileOf == ("/var/lock/LCK..p" :> "lock") @@ ("/var/spool/lock/LCK..p" :> "spool")
            @@ ("/var/run/lock/LCK..p" :> "lock")
MCHolders == {"ours", "root's"}
MCSystems ==
  [locks : [{"lock", "spool"} -> {"absent", "own", "root", "stuck"}],
   held : SUBSET MCHolders, seen : {{"ours"}},
   opens : BOOLEAN, lsof : BOOLEAN, fuser : BOOLEAN, sudo : BOOLEAN, active : {0, 1}]
-----------------------------------------------------------------------------
(* A part that is not run stays in one of its initial states.              *)

SomeTelegram == Sent(122, <<>>)
SomeSpec == [format |-> "u16", count |-> 0]
SomeRegs == <<0, 1, 2, 3>>
SomeLine == [cmd |-> "scan", items |-> <<>>]
SomeTyped == [cmd |-> "cat", tokens |-> <<>>]
SomeSystem == CHOOSE x \in MCSystems : TRUE

Idle(p) == part \in Parts \ {p}

MCInit ==
  /\ part \in Parts
  /\ Init
  /\ \/ part = "records" /\ ParserInit
     \/ /\ Idle("records") /\ telegram = SomeTelegram /\ data = SomeTelegram.bytes
        /\ ParserStart
  /\ \/ part = "registers" /\ CodecInit
     \/ Idle("registers") /\ spec = SomeSpec /\ text = NoText /\ regs = SomeRegs /\ CodecInit
  /\ \/ part = "line" /\ LineInit
     \/ Idle("line") /\ line = SomeLine /\ LineStart
  /\ \/ part = "address" /\ AddrInit
     \/ Idle("address") /\ typed = SomeTyped /\ AddrStart
  /\ \/ part = "release" /\ ReleaseInit
     \/ Idle("release") /\ sys = SomeSystem /\ ReleaseStart

MCNext ==
  \/ /\ part = "frame" /\ Next
     /\ UNCHANGED <<part, parserVars, codecVars, lineVars, addrVars, releaseVars>>
  \/ /\ part = "records" /\ ParserNext
     /\ UNCHANGED <<part, vars, codecVars, lineVars, addrVars, releaseVars>>
  \/ /\ part = "registers" /\ CodecNext
     /\ UNCHANGED <<part, vars, parserVars, lineVars, addrVars, releaseVars>>
  \/ /\ part = "line" /\ LineNext
     /\ UNCHANGED <<part, vars, parserVars, codecVars, addrVars, releaseVars>>
  \/ /\ part = "address" /\ AddrNext
     /\ UNCHANGED <<part, vars, parserVars, codecVars, lineVars, releaseVars>>
  \/ /\ part = "release" /\ ReleaseNext
     /\ UNCHANGED <<part, vars, parserVars, codecVars, lineVars, addrVars>>

MCSpec == MCInit /\ [][MCNext]_MCvars
=============================================================================
