------------------------------ MODULE Diagnose ------------------------------
(***************************************************************************)
(* pc diagnose: runTestsWithLockedPort of cmd/pc/diagnose.go over the      *)
(* client of pkg/proto/mbus.  One serial port is opened once; for every    *)
(* configuration main sets the port's mode, restarts the pipe reader and   *)
(* runs a test in a goroutine of its own.  The goroutines are              *)
(*   main         the loop of runTestsWithLockedPort                       *)
(*   sig          waits for a signal, closes the client, exits with 130    *)
(*   test c       testConfigWithClient, Diagnose and ProbeAddress          *)
(*   reader r     see PipeReader; Open and StartPipeReader start one each, *)
(*                so that two of them read the port from the beginning     *)
(* They share the client's fields pipeRd and pipCancel without a lock.     *)
(* Their accesses are atomic and sequentially consistent here.  A signal    *)
(* is the user's Ctrl+C (or SIGTERM): while main has it notified it waits  *)
(* in sigChan, before and after that it kills the process.                 *)
(*                                                                         *)
(* A reply of the device is one byte of PipeReader: an E5, or a long frame *)
(* taken as a whole.  A reply that arrives in another mode than that of    *)
(* its request is junk.                                                    *)
(***************************************************************************)
EXTENDS PipeReader, FiniteSets

CONSTANTS
  NConfigs,      \* number of serial configurations to test
  Devices,       \* what the device may answer in each configuration
  MayReject,     \* configurations that SetMode may refuse
  Quiet,         \* the flag --quiet
  Prompt,        \* whether a test waits long enough for every answer
  CanHang,       \* whether a write to the port may hang
  LateWrites,    \* whether a write that hangs may still complete
  CanInterrupt   \* whether the user presses Ctrl+C, once or many times

Configs == 1 .. NConfigs
Answers == {"none", "ack", "full"}

ASSUME DiagnoseAssumption ==
  /\ NConfigs \in Nat \ {0}
  /\ Devices \subseteq [Configs -> Answers]
  /\ MayReject \subseteq Configs
  /\ {Quiet, Prompt, CanHang, LateWrites, CanInterrupt} \subseteq BOOLEAN
  /\ MaxReaders > NConfigs    \* the bounds of PipeReader never bite:
  /\ MaxBytes >= 2 * NConfigs \* two replies to a test at most

Closers == {"main", "sig"}

VARIABLES
  device,        \* what it answers in each configuration; never changes
  mode,          \* the configuration the port is set to
  replies,       \* replies on their way, each with its mode
  wire,          \* what the bytes are that have arrived: wire[b]
  mpc,           \* where main is
  cfg,           \* its loop variable
  results,       \* its results, in order
  successCount,
  tpc,           \* where each test goroutine is
  tpr,           \* pr, the reader that ProbeAddress loaded
  outcome,       \* the result of a test
  spc,           \* where sig is
  queued,        \* sigChan holds a signal (it has room for one)
  cl,            \* where a call of Close, or of its twin at the start of
                 \* RestartPipeReader, is
  loc,           \* the reader whose done channel that call closes
  exit           \* "running", or how the process ended

mainVars == <<mpc, cfg, results, successCount>>
testVars == <<tpc, tpr, outcome>>
lineVars == <<mode, replies, wire>>
closeVars == <<spc, queued, cl, loc>>
diagVars == <<device, lineVars, mainVars, testVars, closeVars, exit>>
allVars == <<vars, diagVars>>

Outcome(h, d) == [handshake |-> h, data |-> d]
NoAnswer == Outcome(FALSE, FALSE)

DiagnoseInit ==
  /\ Init
  /\ device \in Devices
  /\ mode = 1
  /\ replies = <<>>
  /\ wire = <<>>
  /\ mpc = "open"
  /\ cfg = 1
  /\ results = <<>>
  /\ successCount = 0
  /\ tpc = [c \in Configs |-> "off"]
  /\ tpr = [c \in Configs |-> nil]
  /\ outcome = [c \in Configs |-> NoAnswer]
  /\ spc = "off"
  /\ queued = FALSE
  /\ cl = [a \in Closers |-> "idle"]
  /\ loc = [a \in Closers |-> nil]
  /\ exit = "running"
-----------------------------------------------------------------------------
(* Variants with a bug, named after what they stand in for.                *)

\* The port keeps its old mode.
ModeAfter_Unchanged(c) == mode

\* A test that got an E5 and no data counts as a success.
Counted_Partial(o) == o.handshake

\* A configuration that could not be set is reported and tested all the same.
ReconfigureFails_NoContinue ==
  /\ mpc = "next" /\ 1 < cfg /\ cfg <= NConfigs
  /\ cfg \in MayReject \/ port = "closed"
  /\ results' = Append(results, [config |-> cfg, outcome |-> NoAnswer])
  /\ mpc' = "restart"
  /\ cl' = [cl EXCEPT !["main"] = "check"]
  /\ UNCHANGED <<vars, device, lineVars, testVars, spc, queued, loc, exit, cfg, successCount>>

\* sig exits without waiting for port.Close.
SigExit_Early ==
  /\ spc = "closing"
  /\ exit' = "130"
  /\ UNCHANGED <<vars, device, lineVars, mainVars, testVars, closeVars>>

\* main waits for the result only.
HardTimeout_Never == FALSE /\ UNCHANGED allVars
-----------------------------------------------------------------------------
(* The device, and the port when it delivers.                              *)

\* The device answers a request that reached it in a mode it understands.
Answer(kind) == replies' = Append(replies, [kind |-> kind, mode |-> mode])

Deliver ==
  /\ replies # <<>>
  /\ Arrive
  /\ wire' = Append(wire, IF Head(replies).mode = mode THEN Head(replies).kind ELSE "junk")
  /\ replies' = Tail(replies)
  /\ UNCHANGED <<device, mode, mainVars, testVars, closeVars, exit>>
-----------------------------------------------------------------------------
(* Close, as a sequence of its accesses to the client.  RestartPipeReader  *)
(* begins with the same statements.                                        *)

At(a, label) == exit = "running" /\ cl[a] = label
Goto(a, label) == cl' = [cl EXCEPT ![a] = label]

CloserCheck(a) ==
  /\ At(a, "check")
  /\ Goto(a, IF pipCancel = nil THEN "end" ELSE "call")
  /\ UNCHANGED <<vars, device, lineVars, mainVars, testVars, spc, queued, loc, exit>>

\* c.pipCancel() loads the field again, and panics when it is nil by now.
CloserCall(a) ==
  /\ At(a, "call")
  /\ IF pipCancel = nil
     THEN exit' = "panic" /\ UNCHANGED <<cl, loc>>
     ELSE Goto(a, "select") /\ loc' = [loc EXCEPT ![a] = pipCancel] /\ UNCHANGED exit
  /\ UNCHANGED <<vars, device, lineVars, mainVars, testVars, spc, queued>>

CloserSelect(a) ==
  /\ At(a, "select")
  /\ Goto(a, IF done[loc[a]] THEN "clear" ELSE "close")
  /\ UNCHANGED <<vars, device, lineVars, mainVars, testVars, spc, queued, loc, exit>>

\* Closing a closed channel panics.
CloserClose(a) ==
  /\ At(a, "close")
  /\ IF done[loc[a]]
     THEN exit' = "panic" /\ UNCHANGED <<done, cl>>
     ELSE Cancel(loc[a]) /\ Goto(a, "clear") /\ UNCHANGED exit
  /\ UNCHANGED <<port, arrived, rx, started, readerVars, pipeRd, pipCancel, last>>
  /\ UNCHANGED <<device, lineVars, mainVars, testVars, spc, queued, loc>>

CloserClearReader(a) ==
  /\ At(a, "clear")
  /\ pipeRd' = nil
  /\ Goto(a, "forget")
  /\ UNCHANGED <<port, arrived, rx, started, readerVars, done, pipCancel, last>>
  /\ UNCHANGED <<device, lineVars, mainVars, testVars, spc, queued, loc, exit>>

CloserClearCancel(a) ==
  /\ At(a, "forget")
  /\ pipCancel' = nil
  /\ Goto(a, "end")
  /\ UNCHANGED <<port, arrived, rx, started, readerVars, done, pipeRd, last>>
  /\ UNCHANGED <<device, lineVars, mainVars, testVars, spc, queued, loc, exit>>

CloserStep(a) ==
  \/ CloserCheck(a)
  \/ CloserCall(a)
  \/ CloserSelect(a)
  \/ CloserClose(a)
  \/ CloserClearReader(a)
  \/ CloserClearCancel(a)

\* The last statement of Close.
ClosePort(a) ==
  /\ At(a, "end")
  /\ port' = "closed"
  /\ Goto(a, "idle")
  /\ UNCHANGED <<arrived, rx, started, readerVars, done, pipeRd, pipCancel, last>>
-----------------------------------------------------------------------------
(* main                                                                    *)

OpenClient ==
  /\ mpc = "open"
  /\ Open
  /\ mpc' = "notify"
  /\ UNCHANGED <<device, lineVars, cfg, results, successCount, testVars, closeVars, exit>>

\* serial.Open refuses: the device is not there, or busy.
OpenFails ==
  /\ mpc = "open"
  /\ exit' = "1"
  /\ UNCHANGED <<vars, device, lineVars, mainVars, testVars, closeVars>>

\* signal.Notify, and the goroutine that waits for it.
Notify ==
  /\ mpc = "notify"
  /\ mpc' = "start"
  /\ spc' = "wait"
  /\ UNCHANGED <<vars, device, lineVars, cfg, results, successCount, testVars, queued, cl, loc, exit>>

\* The second reader.  The first keeps running: nobody can cancel it now.
StartReader ==
  /\ mpc = "start"
  /\ Launch
  /\ mpc' = "next"
  /\ UNCHANGED <<port, arrived, rx, buf, ch, done, last>>
  /\ UNCHANGED <<device, lineVars, cfg, results, successCount, testVars, closeVars, exit>>

\* The first configuration is the one the port was opened with.
FirstConfig ==
  /\ mpc = "next" /\ cfg = 1
  /\ mpc' = "spawn"
  /\ UNCHANGED <<vars, device, lineVars, cfg, results, successCount, testVars, closeVars, exit>>

ModeAfter(c) == c

Reconfigure ==
  /\ mpc = "next" /\ 1 < cfg /\ cfg <= NConfigs
  /\ port = "open"
  /\ mode' = ModeAfter(cfg)
  /\ mpc' = "restart"
  /\ Goto("main", "check")
  /\ UNCHANGED <<vars, device, replies, wire, cfg, results, successCount, testVars, spc, queued, loc, exit>>

ReconfigureFails ==
  /\ mpc = "next" /\ 1 < cfg /\ cfg <= NConfigs
  /\ cfg \in MayReject \/ port = "closed"
  /\ results' = Append(results, [config |-> cfg, outcome |-> NoAnswer])
  /\ cfg' = cfg + 1
  /\ UNCHANGED <<vars, device, lineVars, testVars, closeVars, exit, mpc, successCount>>

\* The end of RestartPipeReader.
Relaunch ==
  /\ mpc = "restart"
  /\ At("main", "end")
  /\ Goto("main", "idle")
  /\ Launch
  /\ mpc' = "spawn"
  /\ UNCHANGED <<port, arrived, rx, buf, ch, done, last>>
  /\ UNCHANGED <<device, lineVars, cfg, results, successCount, testVars, spc, queued, loc, exit>>

Spawn ==
  /\ mpc = "spawn"
  /\ tpc' = [tpc EXCEPT ![cfg] = "start"]
  /\ mpc' = "wait"
  /\ UNCHANGED <<vars, device, lineVars, cfg, results, successCount, tpr, outcome, closeVars, exit>>

Counted(o) == o.handshake /\ o.data

\* What follows the select on resultChan and the timer.  The count is kept
\* only where progress is printed.
Record(o) ==
  /\ results' = Append(results, [config |-> cfg, outcome |-> o])
  /\ successCount' = IF ~Quiet /\ Counted(o) THEN successCount + 1 ELSE successCount
  /\ cfg' = cfg + 1
  /\ mpc' = "next"

TakeResult ==
  /\ mpc = "wait"
  /\ tpc[cfg] = "done"
  /\ Record(outcome[cfg])
  /\ UNCHANGED <<vars, device, lineVars, testVars, closeVars, exit>>

\* A test that hangs in a write.
Hangs(c) == tpc[c] \in {"hung nke", "hung ud2", "hung fallback"}

\* The timer fires a second after the test's own timeout: only a test that
\* hangs is that late.
HardTimeout ==
  /\ mpc = "wait"
  /\ Hangs(cfg)
  /\ Record(NoAnswer)
  /\ UNCHANGED <<vars, device, lineVars, testVars, closeVars, exit>>

\* The deferred calls, the last one first: signal.Stop and the close of
\* sigChan, then Close.
Return ==
  /\ mpc = "next" /\ cfg > NConfigs
  /\ mpc' = "return"
  /\ Goto("main", "check")
  /\ UNCHANGED <<vars, device, lineVars, cfg, results, successCount, testVars, spc, queued, loc, exit>>

MainClosePort ==
  /\ mpc = "return"
  /\ ClosePort("main")
  /\ mpc' = "output"
  /\ UNCHANGED <<device, lineVars, cfg, results, successCount, testVars, spc, queued, loc, exit>>

Output ==
  /\ mpc = "output"
  /\ exit' = "0"
  /\ UNCHANGED <<vars, device, lineVars, mainVars, testVars, closeVars>>

MainStep ==
  \/ OpenClient
  \/ Notify
  \/ OpenFails
  \/ StartReader
  \/ FirstConfig
  \/ Reconfigure
  \/ ReconfigureFails
  \/ Relaunch
  \/ Spawn
  \/ TakeResult
  \/ HardTimeout
  \/ Return
  \/ MainClosePort
  \/ Output
  \/ mpc \in {"restart", "return"} /\ CloserStep("main")
-----------------------------------------------------------------------------
(* Signals and sig                                                         *)

\* Between Notify and Stop a signal is sent to sigChan, or dropped when one
\* is there; otherwise it does what it does by default.
Handled == mpc \notin {"open", "notify", "return", "output"}

Interrupt ==
  /\ CanInterrupt
  /\ IF Handled
     THEN queued' = TRUE /\ UNCHANGED exit
     ELSE exit' = "killed" /\ UNCHANGED queued
  /\ UNCHANGED <<vars, device, lineVars, mainVars, testVars, spc, cl, loc>>

\* A closed channel still gives what is in it.
SigReceive ==
  /\ spc = "wait"
  /\ queued
  /\ queued' = FALSE
  /\ spc' = "closing"
  /\ Goto("sig", "check")
  /\ UNCHANGED <<vars, device, lineVars, mainVars, testVars, loc, exit>>

SigGone ==
  /\ spc = "wait"
  /\ ~queued /\ mpc \in {"return", "output"}
  /\ spc' = "gone"
  /\ UNCHANGED <<vars, device, lineVars, mainVars, testVars, queued, cl, loc, exit>>

SigClosePort ==
  /\ spc = "closing"
  /\ ClosePort("sig")
  /\ spc' = "closed"
  /\ UNCHANGED <<device, lineVars, mainVars, testVars, queued, loc, exit>>

SigExit ==
  /\ spc = "closed"
  /\ exit' = "130"
  /\ UNCHANGED <<vars, device, lineVars, mainVars, testVars, closeVars>>

SigStep ==
  \/ SigReceive
  \/ SigGone
  \/ SigClosePort
  \/ SigExit
  \/ CloserStep("sig")
-----------------------------------------------------------------------------
(* The test of configuration c.                                            *)

TestGoto(c, label) == tpc' = [tpc EXCEPT ![c] = label]

\* Its result goes to a channel of its own with room for it, so a test that
\* main has given up neither blocks nor answers for a later one.
Finish(c, o) ==
  /\ TestGoto(c, "done")
  /\ outcome' = [outcome EXCEPT ![c] = o]

\* Diagnose looks at c.pipeRd to choose its path ...
DiagStart(c) ==
  /\ tpc[c] = "start"
  /\ TestGoto(c, IF pipeRd = nil THEN "fallback" ELSE "load")
  /\ UNCHANGED <<vars, device, lineVars, mainVars, tpr, outcome, closeVars, exit>>

\* ... and ProbeAddress loads it again.  Draining a nil reader panics.
LoadReader(c) ==
  /\ tpc[c] = "load"
  /\ IF pipeRd = nil
     THEN exit' = "panic" /\ UNCHANGED <<tpc, tpr>>
     ELSE TestGoto(c, "drain") /\ tpr' = [tpr EXCEPT ![c] = pipeRd] /\ UNCHANGED exit
  /\ UNCHANGED <<vars, device, lineVars, mainVars, outcome, closeVars>>

Drain(c) ==
  /\ tpc[c] = "drain"
  /\ TakeFrom(tpr[c])
  /\ UNCHANGED <<port, arrived, rx, started, pc, buf, done, pipeRd, pipCancel>>
  /\ UNCHANGED <<device, lineVars, mainVars, testVars, closeVars, exit>>

DrainEnds(c) ==
  /\ tpc[c] = "drain"
  /\ ch[tpr[c]] = <<>>
  /\ TestGoto(c, "nke")
  /\ UNCHANGED <<vars, device, lineVars, mainVars, tpr, outcome, closeVars, exit>>

\* SND_NKE: a device that understands the mode acknowledges it.
SendNKE(c) ==
  /\ tpc[c] = "nke" \/ (LateWrites /\ tpc[c] = "hung nke")
  /\ port = "open"
  /\ IF device[mode] # "none" THEN Answer("E5") ELSE UNCHANGED replies
  /\ TestGoto(c, "ack")
  /\ UNCHANGED <<vars, device, mode, wire, mainVars, tpr, outcome, closeVars, exit>>

\* REQ_UD2: some devices do not answer it.
SendUD2(c) ==
  /\ tpc[c] = "ud2" \/ (LateWrites /\ tpc[c] = "hung ud2")
  /\ port = "open"
  /\ IF device[mode] = "full" THEN Answer("frame") ELSE UNCHANGED replies
  /\ TestGoto(c, "data")
  /\ UNCHANGED <<vars, device, mode, wire, mainVars, tpr, outcome, closeVars, exit>>

WriteFails(c) ==
  /\ tpc[c] \in {"nke", "hung nke", "ud2", "hung ud2"}
  /\ port = "closed"
  /\ Finish(c, Outcome(tpc[c] \in {"ud2", "hung ud2"}, FALSE))
  /\ UNCHANGED <<vars, device, lineVars, mainVars, tpr, closeVars, exit>>

\* The port has no write timeout.
WriteHangs(c) ==
  /\ CanHang
  /\ \/ tpc[c] = "nke" /\ TestGoto(c, "hung nke")
     \/ tpc[c] = "ud2" /\ TestGoto(c, "hung ud2")
     \/ tpc[c] = "fallback" /\ TestGoto(c, "hung fallback")
  /\ UNCHANGED <<vars, device, lineVars, mainVars, tpr, outcome, closeVars, exit>>

\* The byte after SND_NKE decides; readLong skips what is not a frame.
Receive(c) ==
  /\ tpc[c] \in {"ack", "data"}
  /\ TakeFrom(tpr[c])
  /\ LET kind == wire[Head(ch[tpr[c]])]
     IN  \/ /\ tpc[c] = "ack" /\ kind = "E5"
            /\ TestGoto(c, "ud2") /\ UNCHANGED outcome
         \/ /\ tpc[c] = "ack" /\ kind # "E5"
            /\ Finish(c, NoAnswer)
         \/ /\ tpc[c] = "data" /\ kind = "frame"
            /\ Finish(c, Outcome(TRUE, TRUE))
         \/ /\ tpc[c] = "data" /\ kind # "frame"
            /\ UNCHANGED <<tpc, outcome>>
  /\ UNCHANGED <<port, arrived, rx, started, pc, buf, done, pipeRd, pipCancel>>
  /\ UNCHANGED <<device, lineVars, mainVars, tpr, closeVars, exit>>

\* Something that c waits for may still come.
InFlight(c) ==
  \/ port = "open" /\ (replies # <<>> \/ rx # <<>>)
  \/ buf[tpr[c]] # <<>>
  \/ ch[tpr[c]] # <<>>

CtxDone(c) ==
  /\ tpc[c] \in {"ack", "data"}
  /\ Prompt => ~InFlight(c)
  /\ Finish(c, Outcome(tpc[c] = "data", FALSE))
  /\ UNCHANGED <<vars, device, lineVars, mainVars, tpr, closeVars, exit>>

\* trySendNKE and tryRequestUD2, as one step with every result that the
\* device's mode allows.  The bytes that they put on the wire and take off it
\* are left out: pipeRd is nil here only when sig is past the middle of Close
\* and is about to close the port.
Fallback(c) ==
  /\ tpc[c] = "fallback" \/ (LateWrites /\ tpc[c] = "hung fallback")
  /\ \E o \in {NoAnswer, Outcome(TRUE, FALSE), Outcome(FALSE, TRUE), Outcome(TRUE, TRUE)} :
       /\ o.handshake => device[mode] # "none"
       /\ o.data => device[mode] = "full"
       /\ Finish(c, o)
  /\ UNCHANGED <<vars, device, lineVars, mainVars, tpr, closeVars, exit>>

\* It hung in the first write, or in the second one with its E5.
FallbackFails(c) ==
  /\ tpc[c] = "hung fallback"
  /\ port = "closed"
  /\ \E h \in BOOLEAN :
       /\ h => device[c] # "none"
       /\ Finish(c, Outcome(h, FALSE))
  /\ UNCHANGED <<vars, device, lineVars, mainVars, tpr, closeVars, exit>>

TestStep(c) ==
  \/ DiagStart(c)
  \/ LoadReader(c)
  \/ Drain(c)
  \/ DrainEnds(c)
  \/ SendNKE(c)
  \/ SendUD2(c)
  \/ WriteFails(c)
  \/ WriteHangs(c)
  \/ Receive(c)
  \/ CtxDone(c)
  \/ Fallback(c)
  \/ FallbackFails(c)
-----------------------------------------------------------------------------
ReaderRuns(r) == ReaderStep(r) /\ UNCHANGED diagVars

\* The process ends as soon as exit is set.
DiagnoseNext ==
  /\ exit = "running"
  /\ \/ Deliver
     \/ MainStep
     \/ Interrupt
     \/ SigStep
     \/ \E c \in Configs : TestStep(c)
     \/ \E r \in Readers : ReaderRuns(r)

DiagnoseSpec == DiagnoseInit /\ [][DiagnoseNext]_allVars

\* The device answers, every goroutine that can run does, and timers fire.
\* Nothing says that a hung write ends.
Running(A) == exit = "running" /\ A

FairDiagnose ==
  /\ DiagnoseSpec
  /\ WF_allVars(Running(Deliver))
  /\ WF_allVars(Running(MainStep))
  /\ WF_allVars(Running(SigStep))
  /\ \A c \in Configs : WF_allVars(Running(~Hangs(c) /\ TestStep(c)))
  /\ \A r \in Readers : WF_allVars(Running(ReaderRuns(r)))
-----------------------------------------------------------------------------
(* Properties.                                                             *)

\* The variables have their types; main has one result for each
\* configuration it has passed, in their order, even where SetMode failed or
\* the test hung.
DiagnoseTypeOK ==
  /\ TypeOK
  /\ device \in Devices
  /\ mode \in Configs
  /\ \A i \in DOMAIN replies : replies[i] \in [kind : {"E5", "frame"}, mode : Configs]
  /\ Len(wire) = arrived /\ \A b \in DOMAIN wire : wire[b] \in {"E5", "frame", "junk"}
  /\ mpc \in {"open", "notify", "start", "next", "restart", "spawn", "wait", "return", "output"}
  /\ cfg \in 1 .. NConfigs + 1
  /\ Len(results) = cfg - 1
  /\ \A i \in DOMAIN results : results[i].config = i
  /\ successCount \in 0 .. NConfigs
  /\ tpr \in [Configs -> 0 .. MaxReaders]
  /\ outcome \in [Configs -> [handshake : BOOLEAN, data : BOOLEAN]]
  /\ spc \in {"off", "wait", "closing", "closed", "gone"}
  /\ queued \in BOOLEAN
  /\ loc \in [Closers -> 0 .. MaxReaders]
  /\ exit \in {"running", "0", "1", "130", "killed", "panic"}

\* When the timeout covers every answer, nothing is reported of a
\* configuration that the device does not do in it: no E5 or frame reaches
\* the test of another configuration than the one it answered in, in spite of
\* bytes left in the driver, of the reader nobody cancels, and of tests that
\* hang and are given up (as long as a hung write does not complete later).
NoFalsePositive ==
  \A i \in DOMAIN results :
    /\ results[i].outcome.handshake => device[i] # "none"
    /\ results[i].outcome.data => device[i] = "full"

\* successCount is the number of results that are a success, where progress
\* is printed: it is what the summary and success_count of --json are made of.
CountMatches ==
  LET Successes == {i \in DOMAIN results : results[i].outcome = Outcome(TRUE, TRUE)}
  IN  exit = "0" => successCount = Cardinality(Successes)

\* The process never ends with the port open, whatever the tests, sig and
\* the signals do: not after the last test, not by os.Exit while main closes
\* the port too, and by a signal only in the two windows in which signals are
\* not notified though the port is open: before Notify, and after Stop, which
\* the deferred calls run before Close.  (A panic also leaves it open.)
ExitReleases ==
  port = "open" =>
    \/ exit \in {"running", "panic"}
    \/ exit = "killed" /\ mpc \in {"notify", "return"}

\* "Press Ctrl+C to safely abort and release the port": no goroutine panics.
NoPanic == exit # "panic"

\* The command finds the configuration that the device responds to.
WorkingConfigFound ==
  exit = "0" => \A i \in DOMAIN results :
    device[i] = "full" => results[i].outcome = Outcome(TRUE, TRUE)

\* The command ends, whatever hangs.
Terminates == <>(exit # "running")
=============================================================================
