# A TLA+ model of pc, the fieldbus commander

`pc` is a command-line tool for Modbus and wired M-Bus (repository `pdat-cz/pc`, Go).
This directory holds TLA+ modules translated from its source, TLC configurations that
check them on small instances, and proofs for TLAPS. Paths below are relative to the
repository; `client.go` without a directory is `pkg/proto/mbus/client.go`.

## 1. Inventory

### Components

| component | source | state | operations |
|---|---|---|---|
| pipe reader | `client.go` 19-96, 230-243, 517-526 | `port`, `pipeRd`, `pipCancel`; per reader a channel `ch` (4096), a `done` channel, a buffer (256) | `Open`, `StartPipeReader`, `RestartPipeReader`, `Close`, `readByte`, `drain`, the reader goroutine |
| frame reader | `client.go` 97-134, 411-462, 502-508 | position in the frame, `l1`, `l2`, payload | both `readLong`, `lrc` |
| M-Bus master | `client.go` 139-161, 311-374, `cmd/pc/scan.go`, `cmd/pc/cat.go` | loop variable, hits or values, the queue of what was received | `ProbeAddress`, `Client.Read`, `runScan`, `runCat` |
| diagnose | `cmd/pc/diagnose.go`, `client.go` 248-268, 531-636 | mode of the port, results, count, four kinds of goroutine | `runTestsWithLockedPort`, `testConfigWithClient`, `Diagnose`, `ReconfigureSerial`, the signal handler |
| M-Bus decoder | `pkg/proto/mbus/decode.go` | none (pure): position, record under construction | `DecodeFrame`, `parseRecords`, VIF tables, `decodeValue` |
| Modbus client | `pkg/proto/modbus/client.go` | connection, transaction id, deadlines | `exchangeTCP`, `exchangeRTU`, reads, writes, register codecs, value expressions |
| addresses | `pkg/addr/parse.go`, `pkg/proto/proto.go` | none (pure) | `ParseReadSpec`, `ParseURI` |
| set | `cmd/pc/set.go` | position in the list of pairs | `runSet` |
| arguments | `cmd/pc/main.go`, `scan.go` 23-44, `diagnose.go` 39-148 | none: position in the arguments | `splitArgs`, dispatch, flags and checks, `buildTestConfigs` |
| release | `cmd/pc/release.go` | success flag, count of lock files | `removeLockFiles`, `openAndClose`, `findProcesses...`, `checkSystemdServices` |
| TUI, scripts | `internal/tui/app.go`, `install.sh`, ... | none | stub, packaging |

### How they interact

`scan`, `cat` and `diagnose` call the M-Bus client. On a serial port the client has a
goroutine that copies bytes from the port into a channel; the caller's goroutine takes them
from there, one by one, and puts frames together (`readLong`), which `DecodeFrame` then takes
apart. Over TCP the caller reads from the connection. `diagnose` adds a goroutine per test and
one for signals; all of them share the client's fields without a lock. `cat` and `set` on
Modbus URIs call the Modbus client, which has one exchange at a time.

### What is hard, and what makes each part correct

* **Pipe reader**: readers that outlive their cancellation, two readers on one port, blocking
  sends, a port closed under a reader. Correct when no byte is lost, doubled or reordered with
  one reader; when any number of readers can only lose bytes; when a cancelled reader stops.
* **Frame reader**: noise, stray start bytes, damaged headers. Correct when it returns only
  what was on the bus as a frame, and finds a frame that harmless noise precedes.
* **M-Bus master**: an E5 says nothing of what it answers and nobody checks the address in a
  frame, so late answers must not be credited to the next target.
* **Diagnose**: interleavings of main, test, signal goroutine and readers; tests that hang; a
  port whose mode changes; signals at any moment. Correct when it reports only what the device did,
  ends, and releases the port.
* **Record parser**: lengths and extension chains come from outside, a telegram may end anywhere.
  Correct when the records that came in full are returned as the meter meant them, and it ends.
* **Number formats**: four tables (encode, decode, bytes shown, count). Correct when they agree
  with one another and with the README.
* **Arguments and addresses**: two parsers in a row that know different things; separators in any
  order. Correct when what runs is what was typed.
* **Release**: other programs go on between its steps. Correct when its count and its summary are
  true of the system.
* **Modbus exchange**: late responses, deadlines, partial reads, a list of writes of which one
  fails.

`PROJECT.json` lists every hazard with its line and the properties that cover it.

## 2. Modules

| module | models | extends |
|---|---|---|
| `ByteStream` | abstract: what a reader of the bus may rely on (bytes in order, each at most once, some may be lost) | |
| `PipeReader` | the client of a serial port and its reader goroutines | |
| `PipeReaderProofs` | theorems about it | `PipeReader` |
| `FrameReader` | `readLong`, and the framing checks of `DecodeFrame` | |
| `RecordParser` | `parseRecords` and `decodeValue`: header, records, values | |
| `DecoderProofs` | theorems about these two | `FrameReader`, `RecordParser`, `FlattenTheorems` |
| `RegisterCodec` | `set` from text to registers, `cat` from registers to number and bytes | |
| `AddressParser` | `runSet` and `ParseReadSpec`: a pair, an address | |
| `SetCatProofs` | theorems about these two | `RegisterCodec`, `AddressParser`, `FlattenTheorems` |
| `CommandLine` | `splitArgs`, `flag.Parse`, the checks of `scan` and `diagnose`, `buildTestConfigs`, the modes set | |
| `Release` | `release` beside programs that end and remove their lock files | |
| `CommandProofs` | theorems about these two | `CommandLine`, `Release`, `FlattenTheorems` |
| `FlattenTheorems` | what `FlattenSeq` makes of sequences of any length, for the proofs | |
| `BusMaster` | `scan` and `cat` as a master on a bus of devices | |
| `BusMasterProofs` | theorems about it | `BusMaster` |
| `Diagnose` | `diagnose`: main, tests, signal goroutine, device, over the readers | `PipeReader` |
| `DiagnoseProofs` | theorems about it | `Diagnose`, `PipeReaderProofs` |
| `ModbusExchange` | `cat` and `set` on a Modbus device: requests, responses in parts, errors | |
| `ModbusExchangeProofs` | theorems about it | `ModbusExchange` |
| `ModbusCRC` | `crc16Modbus`, a constant of `ModbusExchange` | |
| `MC...` | the instances that TLC checks; `MCSequential` has the sequential parts side by side | |

`Diagnose` composes the readers of `PipeReader` with the rest of the command: it reuses their
actions (`Launch`, `Cancel`, `TakeFrom`, `ReaderStep`) and splits `Close` and
`RestartPipeReader` into their single accesses to the client, because another goroutine can
run between them. `BusMaster` sits on the abstraction: its queue `chan` is the `Stream` of
`PipeReader` in the case of one reader (where `Lossless` holds), and one element of it stands
for the bytes that `FrameReader` treats one by one.

Each module has, before its actions, *variants with a bug* (`ReaderPush_DropWhenFull`, ...):
plausible mistakes in one definition. With the variant in the place of its definition, TLC
finds the property that `PROJECT.json` ("mutants") names violated.

### Correspondence with the code

`PROJECT.json` ("map") has the lines of every definition. In short:

* `PipeReader`: `pc[r]` is the place of a reader goroutine: `check` is the select on `done`,
  `read` the blocking `Read`, `push` the select that sends. `Launch` is the body of
  `StartPipeReader`. A byte is its number in the order of arrival. `ReaderTimeout` is a `Read`
  that returns nothing after the read timeout of the driver. The caller is the most general
  sequential one. `Open` is the successful case; a client whose `Open` fails is not used.
* `FrameReader`: one action per byte that the code reads; `st` says which `ReadByte` is next.
  `got` and `mark` are auxiliary: all bytes read, and where the current header begins. The
  number of byte values and both markers are constants. The payload is read byte by byte in
  one copy of the code and with `io.ReadFull` in the other: the same bytes.
* `BusMaster`: one loop over targets for both commands. `Gap`, `Drain`, `SendNKE`, then
  `ScanAck` or `CatAck`, `SendRequest`, `ReadLong` follow the code. `drain` is one step: its
  loop ends at a moment when the channel is empty, and that moment is the step. A disturbance
  (`faults`) is a byte of noise, a damaged answer, or a write that fails. Noise is neither E5
  nor a start byte; a noise byte E5 is indistinguishable from an acknowledgement for this
  protocol. Devices answer a request at most once. `WrongKind` is the refusal of a target that is not
  `mbus`, before anything is sent for it.
* `Diagnose`: `mpc` is the place of main, `tpc[c]` that of the test of configuration `c`,
  `spc` that of the signal goroutine, `cl` and `loc` the progress of a call of `Close` or
  `RestartPipeReader`. An answer (E5 or frame) is one byte of `PipeReader`; it is junk when the
  mode has changed since its request was sent. A signal (`Interrupt`) arrives at any moment and any
  number of times: between `Notify` and `Return` it waits in `sigChan` (`queued`, room for one), before
  and after that it does what it does by default and kills the process; `SigReceive` is its receipt,
  which may come later and also after `signal.Stop` (a closed channel still gives what is in it),
  and `SigGone` the end of the goroutine on an empty closed channel. The fields of the client are
  read and written one by one, `Close` clearing `pipeRd` and `pipCancel` in two steps.
  `Fallback` is the path without a pipe reader (`client.go` 561-636), collapsed to one step: it
  can only be taken when the signal goroutine has begun to close the client, its result is any that the
  device allows, and it may hang in a write; the requests it sends, and the goroutines it leaves
  behind, are left out. Accesses to the shared fields are taken as atomic and sequentially consistent;
  Go promises less to a program with data races.

* `ModbusExchange`: `Send` is `exchange` up to the write, `Header`, `ByteCount` and `Body` are one call
  of `readFull...` each with the checks that follow it, `Timeout` its deadline or that of the
  command. Bytes are numbers, and the CRC is that of the code (`ModbusCRC`, with a known request as
  an assumption). The device (external) parses requests by the protocol: a request that is put
  together wrongly does something else than the argument says. What `Read` and `Write` reject
  (a malformed pair, a kind they do not know) is an operation with function code 0; how values
  become registers is `RegisterCodec`. `values` is the result of `Read`, and the OKs of `set`.
* `RecordParser`: one action per byte or part that `parseRecords` consumes; `step` is its place,
  `rec` the local variables of the loop, `cur` the last byte of a chain. `sweight` and `tweight` are
  2 to the power of the code's shifts, so that a shift out of the word is a weight of zero. A VIF
  is `vi`: known or not, how the value is read, and the factor. Names of quantities and units,
  and how a number is printed, are left out; a float is kept as its bytes. `telegram` is
  what the meter meant, and no action looks at it. `TelegramSent` and what it is made of say what a
  meter sends, and translate nothing.
* `RegisterCodec`: `SetTwo` and `SetOne` are the two cases of `Write`, `Cat` is `Read` and the line that
  `runCat` prints. A text comes with what it denotes (`num`, and `ten` for its digits in base ten), so
  that `evalExpr` is not modelled. Numbers are counted in halves. Which of them have a float is a
  constant: `Magnitude[n]` is the number whose bits are `n`, in rising order, and `Inf` the bits of the
  infinity. `Float32bits` rounds to the nearest of them, halfway to even bits, and to the infinity
  from halfway beyond the greatest float on, as `float32(f64)` does (16777217 becomes 16777216).
* `AddressParser`: a text is a sequence of tokens. `SplitPair` is the search for `=` in `runSet`,
  `ParseReadSpec` and `RefuseSpec` the two outcomes of that function.
* `CommandLine`: `Split...` are the branches of the loop of `splitArgs`, `Parse...` those of
  `flag.Parse` (external), `Check` the tests of `runScan` and `runDiagnose` up to the opening of the
  port, `Build` is `buildTestConfigs`. `ModeOf(i)` is the mode of the port in test `i`: by `Open` for the
  first, by `ReconfigureSerial` for the rest. `-n` as a value of its own begins with a dash, and is
  an argument like that.
* `Release`: `Stat` and `RemoveLock` are the body of the innermost loop of `removeLockFiles`, with other
  programs between them; then one action per step of `runRelease`. `lsof`, `fuser` and `sudo` work or
  do not, for the whole command. The model lets programs end and files vanish; it does not let a
  program start, or take the port, meanwhile.

## 3. Runs

| run | configuration | shows |
|---|---|---|
| `pipe` | 3 readers, 4 bytes, channel of 1, buffer of 2, Reads may fail | types and bounds; `Lossless`; `CancelledReadsOnce`; `StreamSpec` (refinement of `ByteStream`); `CancelStops` and `Delivery` under fairness |
| `sequential` | frames: 4 byte values, start 3, stop 2, streams of up to 9 bytes | `Sound`, `Decodable`, `FrameFound`, `ErrorNeedsHeader` |
| | telegrams of up to 3 items of 16 kinds, end marks, and a text of 128 bytes, cut off anywhere | `ParserTypeOK`, `RecordsComplete`, `HeaderRead`, `StepsForward` |
| | 22 formats, 3 counts, 65 texts of numbers, 4 contents of two registers | `SetThenCat`, `DocumentedOrder`, `BytesShown`, `CountSuffices` |
| | command lines of up to 3 of 13 items for `scan`, 19 for `diagnose` | `LineUnderstood`, `ConfigsTested` |
| | addresses: every order of up to 4 tokens behind the kind, 6 with a count | `SpecExact` |
| | 3 names of 2 lock files, 2 processes, every system | `LocksAccounted`, `VerdictHonest` |
| `bus` | a scan of 3 addresses and cat with up to 3 targets of every mode and another kind, serial and TCP, every bus of 3 devices of 4 kinds, 2 disturbances | `NoPhantom`, `DamageIsLocal`, `OwnFrame`, `CatReadsAll`, `Ends` |
| `diag_prompt` | 3 configurations, 12 devices, one mode may be refused, writes may hang | `NoFalsePositive`, `CountMatches` |
| `diag_interrupt` | 2 configurations, 2 devices, the same, and signals at any moment, once or more | types and results, `ExitReleases`, `Terminates` |
| `diag_panic` | Ctrl+C | **violated**: `NoPanic` |
| `diag_two_readers` | no disturbance at all | **violated**: `WorkingConfigFound` |
| `diag_quiet` | `--quiet` | **violated**: `CountMatches` |
| `bus_scan_tcp` | a scan over TCP | **violated**: `NoPanic` |
| `modbus` | 6 reads and 3 sets of up to 3 operations, serial and TCP, 2 disturbances | `SetIsPrefix`, `OwnRegisters`, `ErrorHasCause`, `Ends` |
| `modbus_tcp` | a read over TCP, no disturbance | **violated**: `Supported` |
| `flags` | the same command lines | **violated**: `FlagsAnywhere` |

The sequential parts share a run: `MCInit` chooses one of them, which takes its steps, while the
others stay in an initial state.

### Bounds, and why they are enough

* `pipe`: three readers are the one in use, a cancelled one and a forgotten one; a channel of
  one byte with a buffer of two makes a reader block in the middle of a chunk; four bytes give
  two chunks. The theorems of section 5 cover every value.
* `sequential`, frames: nine bytes hold a frame with a payload of up to three bytes, or noise, a header that
  does not fit and a short frame. With four byte values the markers can also be lengths,
  payload and checksum.
* `sequential`, telegrams: two items give every kind of record every kind of successor; three short
  ones add a record whose neighbours are both under way. Every item is written down from what it
  means, the other way round than the parser reads it. `StorageMod` is 256 so that the last of three
  DIFEs is shifted half out of it, as the sixteenth of the code is out of 64 bits; `TariffMod` 64 is
  not exceeded. The text of 128 bytes has a length with the highest bit set.
* `sequential`, registers: with four byte values (`Radix`) a register holds 0 to 15 and two hold 0 to 255;
  the floats have four bits behind the point and exponents from 0 to 6, so that from 16 on not every
  integer has one, and 1008 halves are halfway from the greatest float to the next. The four bytes of
  `Contents` differ, so that no two orders look alike; texts are around zero, around each limit and
  between two floats, with halves to round.
* `sequential`, command lines: a mistake about a value concerns a flag, the argument behind it and one
  that is lost by it: three items, where an item with a value is two arguments.
* `sequential`, addresses: four tokens (three behind `mbus`) have every pair of separators in both orders with a number or
  a name between them.
* `sequential`, release: one file with two names and one with one; one process that everybody sees
  and one that only root does.
* `bus`: three addresses give a disturbed exchange a successor, and that one again; two
  disturbances can hit one exchange or two. `cat` has an address twice, so that a stale frame of
  the same device is told from the right one.
* `diag_*`: two configurations have one change of mode, three also a change after a refused
  one. The devices of `diag_prompt` answer in every way in the first two configurations
  and keep silent in the third, where an answer left over from the second is wrong, or work in the third. `MaxReaders` and `MaxBytes` are large enough never to disable an action
  (`DiagnoseAssumption`); the channel never fills (4096 in the code).

* `modbus`: every function code is followed by another one and meets registers that exist and
  that do not; every byte of every response is damaged in two ways (one is the exception bit), and
  every response is cut off everywhere. A second disturbance can hit the next operation.
  The register values are such that bytes of data can pass for function codes and counts.

Deadlock is not checked: each of these systems stops (a process ends, a bound is reached).

### Assumptions that properties depend on

* `Prompt` (`diag_prompt`, `diag_interrupt`) and `job.patient` (`bus`): a timeout fires only
  when no answer is under way. With shorter timeouts an E5 that comes late is taken for the
  next answer; the protocol gives the program nothing to tell them apart. No property says what happens
  then: the hazard of an E5 after the timeout of its probe is assumed away. `bus` checks
  `OwnFrame` and `Ends` without it, and restricts `NoPhantom`, `DamageIsLocal` and `CatReadsAll` to
  patient jobs. Without `Prompt`, TLC finds a phantom handshake in `diagnose`.
* `job.settles`: the gap between two probes of a scan outlasts the answers under way. Nothing
  in `cat` is checked under it.
* `LateWrites` FALSE: a write that hangs past the hard timeout does not complete afterwards.
  With TRUE, TLC finds `NoFalsePositive` violated: the request reaches the device while main
  prepares the next configuration, `SetMode` leaves the acknowledgement in the driver, and the
  next test reads it.
* `ModbusExchange` starts each command on a silent line: the response of a command that gave up
  is not read by the next one. The URI's `timeout` is positive; with `timeout=0s` a serial `Read`
  has no timeout (`pkg/proto/modbus/client.go:152`) and the deadline is never looked at. The
  device echoes what it executes.
* `job.patient` in `modbus`: as above; only `ErrorHasCause` is restricted to it.
* `MetersKeepToStandard` (`RecordParser`): what meters send is built by the definition of the telegram
  (`TelegramSent`): a header, then items, each a filler or a record whose bytes mean what `shows` says;
  manufacturer data at the end. All of it is stated the other way round than the parser
  works: a value by the bytes that encode it (`ValueSent`: two's complement, decimal digits, dates of types
  G and F with seven bits of year each, text back to front), a number from all its digits at once, places in
  the item instead of a state. Two things come from the code: the tables of VIFs (the standard is not part of
  the repository), and a float is its bytes. Excluded is what the code
  does not take apart: texts from 192 bytes on, the VIF 0x7C with its plain text, a date in a field too
  short for it, and digits above 9. `RecordsComplete` and `HeaderRead` are proved from this, and TLC evaluates it on the
  telegrams of `sequential`. No theorem on the safety of the parser rests on it.
* `DatesBefore2064`: the meters send no date of type F from 2064 on; `RecordsComplete` is proved from
  it too, see section 4.
* `CRCDetects` (`ModbusExchange`): damage to the response to a read makes no frame that passes for
  another one. `OwnRegisters` rests on it over a serial line. `MCModbusExchange` assumes it of the
  CRC of the code and every damage of its runs, so that TLC evaluates it there; no CRC
  detects every damage.
* `Release`: nobody takes the port while it runs, or puts a lock file there. Otherwise no summary
  could be true.
* Writes: a write to the serial port has no deadline (`client.go:389-409`, and `port.Write` of the Modbus
  client), so it may hang for ever. `Ends` of `BusMaster` and `ModbusExchange` therefore says that a command
  ends or hangs in such a write (`<>[]Writing`), and nothing else keeps it. Writes over TCP have a
  deadline. In `diagnose` a test may hang in its write, and `Terminates` holds all the same, because of the
  hard timeout.
* No model has a clock: that a part of a Modbus response is awaited for 5 s and not for the timeout of
  the URI makes no difference to any property.
* `ReadTimeout` TRUE: the driver has `SetReadTimeout`, as go.bug.st/serial does. Otherwise a
  cancelled reader stays in `Read` until a byte comes, and `CancelStops` does not hold.

### Fairness

`PipeReader`: weak fairness of each reader goroutine: the Go scheduler runs it, and its `Read`
returns, at the latest by timeout (`ReaderGoesOn`: a `Read` may fail on an open port, but nothing
rests on it). Nothing is assumed of the caller, who may never read.
`BusMaster`: weak fairness of the delivery of answers and of the master, whose timers fire, except
where its next step is a write to the serial port (`Writing`).
`ModbusExchange`: weak fairness of the command, with the same exception, and of the device.
The sequential parts have no fairness: `StepsForward` is an action property.
`Diagnose`: weak fairness of delivery, main, the signal goroutine, every reader and every test
that does not hang in a write; a hung write may last for ever, and nobody has to press Ctrl+C.

### Hidden frames

`FrameFound` speaks of noise without the start byte. After a stray 68 both `readLong` loops
take the next three bytes for the rest of a header and, when they do not fit, drop all four: a
frame that begins among those three bytes is lost. The same happens to a frame after a damaged
header. The caller then times out and the next exchange begins with an empty channel; `bus`
counts this as a disturbance of one exchange.

## 4. Findings

* **Two readers** (`diag_two_readers`): `Open` starts a reader (`client.go:223`) and
  `runTestsWithLockedPort` another (`cmd/pc/diagnose.go:200`). The first can no longer be cancelled
  and takes answers away: the working configuration is reported as failed. The comment at
  `client.go:34` promises one goroutine.
* **Ctrl+C** (`diag_panic`): the signal goroutine closes the client while others use it; a nil
  dereference or a double close ends the process with a panic.
* **--quiet** (`diag_quiet`): successes are counted only when progress is printed.
* **scan over TCP** (`bus_scan_tcp`): `ProbeAddress` needs the pipe reader that `Open` starts for
  serial ports only.
* **Modbus TCP** (`modbus_tcp`): the length in the header counts the unit id, which the code has
  already read with the header (`pkg/proto/modbus/client.go:515-530`). Every exchange with a server
  that counts as the protocol says waits for one more byte and fails after 5 s. The write of a
  `set` has been executed by then: `modbus` checks `SetIsPrefix` over TCP too. As no exchange over
  TCP gets there, the code after it is only modelled, not exercised.
* **Flags before the URI** (`flags`): `splitArgs` does not know which flags have a value, so that
  `pc scan --json <uri>` and the usage example of `cmd/pc/main.go:141` have no URI. `LineUnderstood` says
  that nothing else goes wrong: a well-formed line runs as typed unless its URI stands right behind
  a boolean flag (or a negative number), and then it is refused.

Disagreements that no run shows violated, because a property states exactly what the code does instead:

* **Ctrl+C in two windows** (`ExitReleases`): `signal.Notify` comes after `Open`
  (`cmd/pc/diagnose.go:165-177`), and the deferred `signal.Stop`, which restores the default action, runs before
  the deferred `Close` (lines 168-181). A signal in one of these windows kills the process with the port
  open, where `README.adoc:370-372` says that Ctrl+C and SIGTERM release the port and only SIGKILL can
  leave it locked. The property names the windows and holds everywhere else: take the disjunct
  with `"killed"` out of it, and TLC shows the first window after two steps.
* **Test matrix** (`ConfigsTested`): `buildTestConfigs` has ten rates (`cmd/pc/diagnose.go:110`), in ascending
  order, which makes 120 combinations; `README.adoc:217-223` lists six, "ordered by likelihood", and 72
  combinations. The property says that all of the README's matrix that the flags leave open is
  tested, once, and nothing that the flags exclude. It does not restrict the rates without a flag.
* **M-Bus addresses** (`SpecExact`): `README.adoc:97-105` has primary addresses from 1 to 250 and no
  count; `ParseReadSpec` has one grammar for all kinds, takes any 16 bits and a count, and `mbus/257` asks the
  device 1 (`pkg/proto/mbus/client.go:317`).
* **Rounding** (`SetThenCat`): "the result is rounded to the nearest integer" (`README.adoc:511`, which goes
  on with the limits of u16) holds for one register; `uint32(f64)` and `int32(f64)` cut the fraction off
  (`pkg/proto/modbus/client.go:295`). The property has a case for each.
* **Year of type F** (`DatesBefore2064`): the comment at `decode.go:743` has seven bits of year, line 744 takes
  six: 2064 is shown as 2000. The meters of the model send seven bits, and no date of type F after 2063;
  with a later one TLC shows `RecordsComplete` violated.

Observations that no run is about, because no document of the repository says otherwise, or
because the output alone is concerned:

* `release` reports "should now be available for use" when all it did was to list a process or a
  service that uses the port; and it removes the lock files of programs that run.
* `diagnose` tests a parity that is not one of E, O, N as even, and any number of stop bits but 2 as
  1, and reports them under the name given (`ConfigsTested` leaves those out). `--baud -3` means all
  rates. The matrix of the output shows rates up to 9600 only, and marks what was not tested as a
  timeout.
* An address may have `$` in the place of `@`: a comment in `pkg/addr/parse.go` has it, the README has not.
* README: default timeout 1.5 s (`README.adoc:209`), in the code 500 ms (`cmd/pc/diagnose.go:46`).
* `set` reads `010` as ten for one register and as eight for two; it refuses negative numbers for s16, and writes an unknown format as u16. A float
  that is too great is written as an infinity, which `cat` then fails on.
* `parseRecords` returns a record without data even if its chain of VIFEs was cut off, takes digits
  above 9 in BCD for what they are (0xF in the highest place is no sign to it), does not consume the
  text of VIF 0x7C, and takes a length byte of 0xC0 and more for a length. Its error for integers of 5, 7 or
  more bytes appears for data of variable length under a VIF that is not text, which meters are
  not taken to send.

## 5. Proofs

All theorems hold for every value of the constants that the named assumptions of the modules
allow (`PipeAssumption`, `BusAssumption`, ...): that constants are numbers, sequences, records
and Booleans of the kind the code has, and bounds of the model never bite. Three of them say
more, and TLC evaluates them on its instances: `CodecAssumption` that a radix is even (as 256 is), that a
number in decimal or hexadecimal digits is an integer (numbers are counted in halves), that the
bits of floats rise with the numbers they stand for, and that they leave room for the sign; `AddressAssumption` that a separator is not a decimal number;
`LineAssumption` that a line is one of `scan` or `diagnose` with items of the four forms;
`DiagnoseAssumption` that there are more readers than configurations. Theorems that hold only of some runs of
the program say so in an `ASSUME` of their own: `CRCIsWord` (`crc16Modbus` returns a `uint16`),
`CRCDetects`, `MetersKeepToStandard`, `DatesBefore2064`, `~Quiet`, `Prompt` and `~LateWrites`, see section 3.

Sequences of any length need induction. It is done with sets of numbers: a set that has 0, and with
every number below m the next one, has all numbers up to m, as the least one outside shows
(`LeastOf`, `UpToInduction` in `FlattenTheorems`).

**`PipeReaderProofs`**

* `TypeCorrect`. `TypeOK` is not inductive by itself: that a reader which has not been started
  has done nothing (`Unstarted`) is needed for `Launch` to start a fresh one. `IInv` is both.
* `CancelledReadsOnceHolds`: the action property from `IInv`; the only step into `read` is the
  select at the top of the loop, which looks at `done`.
* `OrderHolds`: the bytes in each buffer and channel increase, and every byte in a channel is
  below those in its buffer, which are below those in the driver. It carries the
  refinement.
* `Refinement`: `Spec => StreamSpec`. Each step maps to one of `ByteStream`: `Arrive` to `Send`,
  `ReadByte` to `Take`, a reader that takes bytes which its successor would have got, abandons
  them, or is replaced to `Lose`, the rest to a stutter. By `Order` the head of the channel is
  the least of `Available`, which is what `Take` asks for.
* `LosslessHolds`: needs in addition that with one reader on an open port that reader is the one
  the client knows and is not cancelled (`OnlyReader`).

**`FlattenTheorems`**

* Lemmas only. `FlattenSeq` is defined by a recursive function: `FlattenParts` says that every part of
  the sequence is found in the whole from an offset on, `FlattenNext` what one part more adds, and
  `FlattenLists` that parts which list disjoint sets list their union, each element once.

**`DecoderProofs`**, `FrameReader`

* `FrameTypeCorrect`, `SoundHolds`, `DecodableHolds`. The invariant `Segment` says, for every place
  of the loop, that the variables spell out what was read since `mark`: after the
  second length `68 l1 l2`, in the payload `68 l l 68 payload`, and so on. Each byte extends both
  sides. `PartsMakeFrame` turns the last segment into a frame. The checksum is used only as a
  function of the payload, so nothing about its recursion is needed.
* `ErrorNeedsHeaderHolds`: the segment behind an error has a header and is no frame.
* `FrameFoundHolds`: `FrameFound` is not inductive, because it speaks of the frame when it is complete.
  `FirstHeader` speaks of the first start byte of the stream from when it is read: it is
  the `mark` of the segment under way, or its segment has been left for a reason that makes it no
  prefix of a frame (`Spoilt`).

**`DecoderProofs`**, `RecordParser`

* `ParserTypeCorrect`, `ParserMovesOn`, for any telegram of bytes and any widths. `ParserTypeOK` is not
  inductive: that `Header` stays inside the data needs the test of the length in
  `ControlInformation`, and the numbers of a record under construction bound those of the records
  (`ParserIInv`). That `Value` never goes back rests on the length byte having no sign.
* `RecordsCompleteHolds`, for any telegram that keeps to the standard and has no type F date beyond 2063,
  cut off anywhere. That `decodeValue` gives back the value that the bytes were made from (`ValueSent`) is shown kind
  by kind (`IntegerIsRead`, `DigitsAreRead`, ...); `NumberIs` and `RestIs` are inductions over the digits of a number
  of any length. `RecordsComplete`
  speaks of the end; `RecordsIInv` says at every byte where the parser is in what was meant. `Items`
  places the items one behind the other in the data. At the head of the loop the parser is at the
  beginning of an item and the records are what the items before it show (`Between`), or the data
  have ended in the VIFEs of a record without data (`CutShort`). Inside a record it is at the byte i
  of an item (`Inside`), and what it has of the record is right. For the storage number and the tariff
  this is an equation on what is still to come (`InDifes`): the number so far, plus its weight times the number
  of the remaining digits, is the one that is meant, modulo the width. `ModKeeps` shows that it
  does not matter that the code loses what is shifted out of the word at every byte.
* `HeaderReadHolds`: the header is whole where it is read, and `Letters` that the three letters of
  the manufacturer come out of their two bytes again.

**`CommandProofs`**, `CommandLine`

* `LineUnderstoodHolds`, for lines of any length. `Layout` places the items of the line in the arguments.
  `splitArgs` has one choice to make that matters: whether it takes the URI for a value (`Taken`), and
  `Sorted` says in both cases what its two lists hold. `flag.Parse` is between two items (`ParsedTo`), and each
  setting is what the last item in front of it says (`MeantBefore`). A line that ends in an error
  of the flag package, or has lost an argument, would leave both.
* `ConfigsTestedHolds`, for any settings: the README's matrix is covered, the flags are obeyed, nothing is
  tested twice. `CombinedLists` says that four loops inside one another list
  every combination of four lists once, and `TablesAreLists` that the tables of the code are such lists.

**`CommandProofs`**, `Release`

* `ReleaseCounts`, `ReleaseVerdict`, for any list of names, files, processes and systems, with any of
  them going between two steps. `Counted` says that the count is at most the number of files gone,
  and less by one while a file is being removed, whether or not it has vanished by itself
  (`Gone \cup {File}`); `Summed` carries what each step found to the summary, over the processes that
  end after they were looked for. Both need `OnlyLess`: nothing comes into being.

**`BusMasterProofs`**, for any jobs, buses of devices and number of disturbances

* `BusTypeCorrect`: `TypeOK` with where the master is and that results belong to earlier targets
  (`Loop`).
* `OwnFrameHolds`, without any assumption on timeouts. Nothing in `OwnFrame` forbids that a frame stays in the
  channel; `OneFrame` does: between exchanges no frame is under way, and within one at most that of
  the exchange, because every way in which a `cat` goes on without it ends the command.
* `NoPhantomHolds`: a patient scan begins each exchange on an empty line, meets nothing but
  noise and its own answers in it, and asks for data only when the device has acknowledged
  (`ScanExchange`).
* `DamageIsLocalHolds`: the invariant counts. An exchange that nothing has disturbed (`Undisturbed`:
  exactly the answer that the code expects next is under way) does not spoil its result; the spoilt
  results are at most as many as the faults, and fewer while the present exchange is disturbed
  (`DamageInv`).
* `CatReadsAllHolds`: without faults and with targets that answer, nothing but whole answers is under
  way, and when a frame is awaited there is one (`ReadsInv`): no path to an error is open.

**`ModbusExchangeProofs`**, for any jobs, registers, unit, CRC and number of disturbances

* `ModbusTypeCorrect`: `TypeOK` with what the parts of a response that have been read say about the next
  one (`Parts`), and that a request under way is that of an argument (`Requested`). That no part of
  an earlier response is in the buffer is part of `TypeOK`.
* `SetIsPrefixHolds`: the device is at most one pair ahead of the OKs, and not ahead before the request
  of the present pair is executed (`Accounted`). That no OK comes for a request that was lost or refused
  needs `InStep`, see the next theorem.
* `OwnRegistersHolds`: `InStep` says that what has been read and what has arrived are together the
  response to the present request, a damaged form of it, or nothing. A damaged one fails one of the
  checks of the code by `CRCDetects`.
* `ErrorHasCauseHolds`: without faults every check of the code succeeds on `Reply`, for every
  function code and for exceptions.

**`DiagnoseProofs`**, for any number of configurations and any device

* `DiagnoseTypeCorrect`: over the `IInv` of `PipeReaderProofs`. Each step of `Diagnose` is, on the
  variables of `PipeReader`, a stutter or one of a few steps, which weaken what `PipeReader` asks
  of its caller (`Launches`, `Takes`, `Cancels`, ...): another goroutine can run between the parts of
  `Close`. `CancelTyping` and its like are shared by the two modules.
* `ExitReleasesHolds`: who is past the closing of the port in `main` or in the signal goroutine
  has closed it (`PortInv`); the port is not opened again, and exit 1 comes before it is open. Signals may
  come at any moment; that the process is killed with the port open is confined to the two windows.
* `CountMatchesHolds`: `successCount` is the cardinality of the successes among the results so far. Not with
  `--quiet`: see section 4.
* `NoFalsePositiveHolds`: main waits for one test at a time, in the mode of its configuration, and earlier
  tests are done or hang (`OneTest`); only the newest reader serves a test (`Newest`); at most
  one answer is on its way, and none when no test awaits one (`LineQuiet`), so that none crosses a change
  of mode; hence all that can be read was sent in the present mode (`AllFresh`).

**`SetCatProofs`**, for any radix, contents, number to set, and any text of tokens

* `SetThenCatHolds`, `DocumentedOrderHolds`, `BytesShownHolds`, `CountSufficesHolds`. `PutOfValue` and `ValueOfPut` say that
  positional notation is invertible, `OrdersUndo` that each order of bytes is its own inverse, and
  `TablesAgree` that the formats that `set` and `cat` know have the same orders. `CodecInv` carries
  from `set` to `cat` that the registers hold the encoding of the text. `SetThenCat` does not say that every
  number is printed again: a float is printed as the nearest one there is, for any table of floats, and the
  infinity only comes of a number beyond the greatest one.
* `SpecExactHolds`, for one grammar of all kinds, that of the README for Modbus with `$` besides `@`: it is not
  the README's grammar for M-Bus, see section 4. `AddrInv` keeps that the typed text is the address, the first `=`, and the value. What
  remains is that the parser inverts the grammar. `AcceptedIsText` puts an accepted text together again
  from its parts; `TextIsAccepted` shows of a text of the grammar that each search for a separator finds
  the one that the grammar put there (`FirstAfter`), because no part in front of it has one.

**Model-checked only**: all liveness (`CancelStops`, `Delivery`, `Ends`, `Terminates`): fairness
is out of the prover's reach. Every invariant and action property of the passing runs is a theorem.

## 6. What is left

Eight hazards of `PROJECT.json` have no property; each says there why. Nearest to what there is:
a request of one command that is answered in the next one (`ModbusExchange` begins on a silent line), and
a device that does not echo what it was told to write.

### Not modelled, and why

* Formatting and output of all commands, names of quantities, units and media, the bits that `cat`
  prints, `showDriverInfo`: text without consequence.
* `ParseURI`, `atoiDefault`, the dispatch of `main`: defaults and a switch.
* `evalExpr` (arithmetic on floats) and the suggestion of similar device names when `Open` fails
  (`closestDevice`, `levenshteinLimited`): the first is replaced by what a text denotes, the second
  changes an error message only. `Open` of the Modbus client is the successful case.
* `FlushBuffers`: nothing calls it.
* The TUI stub, scripts and packaging.
