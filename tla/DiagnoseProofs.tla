--------------------------- MODULE DiagnoseProofs ---------------------------
(***************************************************************************)
(* Theorems about Diagnose, for any number of configurations, any device,  *)
(* and readers as PipeReader has them.                                     *)
(***************************************************************************)
EXTENDS Diagnose, PipeReaderProofs, FiniteSetTheorems

USE DEF Readers, nil

Kinds == {"E5", "frame", "junk"}
Replies == [kind : {"E5", "frame"}, mode : Configs]
Outcomes == [handshake : BOOLEAN, data : BOOLEAN]
Labels == {"off", "start", "load", "fallback", "drain", "nke", "hung nke", "ack", "ud2", "hung ud2", "data",
           "hung fallback", "done"}
Loaded == {"drain", "nke", "hung nke", "ack", "ud2", "hung ud2", "data"}
Results == Seq([config : Configs, outcome : Outcomes])

\* The device and the line.
LineTyped ==
  /\ device \in Devices
  /\ mode \in Configs
  /\ replies \in Seq(Replies)
  /\ wire \in Seq(Kinds)
  /\ Len(wire) = arrived

\* The loop: Open comes first, and the results and the count are of the
\* configurations before cfg.
MainTyped ==
  /\ mpc = "open" <=> port = "new"
  /\ mpc \in {"open", "notify", "start", "next", "restart", "spawn", "wait", "return", "output"}
  /\ cfg \in 1 .. NConfigs + 1
  /\ mpc \in {"restart", "spawn", "wait"} => cfg <= NConfigs
  /\ results \in Results
  /\ Len(results) = cfg - 1
  /\ \A k \in 1 .. Len(results) : results[k].config = k
  /\ successCount \in Nat /\ successCount < cfg

\* The tests: what has loaded a reader has loaded one that was started.
TestsTyped ==
  /\ tpc \in [Configs -> Labels]
  /\ outcome \in [Configs -> Outcomes]
  /\ tpr \in [Configs -> Nat]
  /\ \A c \in Configs : tpr[c] <= started /\ (tpc[c] \in Loaded => tpr[c] # nil)

\* The calls of Close, of which the same can be said, and the end of the process.
CloseTyped ==
  /\ spc \in {"off", "wait", "closing", "closed", "gone"} /\ queued \in BOOLEAN
  /\ mpc = "open" => spc = "off"
  /\ cl \in [Closers -> {"idle", "check", "call", "select", "close", "clear", "forget", "end"}]
  /\ loc \in [Closers -> Nat]
  /\ \A a \in Closers : loc[a] <= started /\ (cl[a] \in {"select", "close"} => loc[a] # nil)
  /\ exit \in {"running", "0", "1", "130", "killed", "panic"}

DiagnoseTyping == IInv /\ LineTyped /\ MainTyped /\ TestsTyped /\ CloseTyped
-----------------------------------------------------------------------------
(* The pipe reader under diagnose.                                         *)

\* Where the variables of PipeReader are concerned, every step of diagnose is one of
\* these.
Quiescent == UNCHANGED vars
Launches == mpc # "open" /\ mpc' # "wait" /\ Launch /\ UNCHANGED <<port, arrived, rx, buf, ch, done, last>>
Takes(c) ==
  /\ tpc[c] \in Loaded
  /\ TakeFrom(tpr[c])
  /\ UNCHANGED <<port, arrived, rx, started, pc, buf, done, pipeRd, pipCancel>>
Cancels(a) ==
  /\ cl[a] = "close"
  /\ Cancel(loc[a])
  /\ UNCHANGED <<port, arrived, rx, started, readerVars, pipeRd, pipCancel, last>>
Forgets ==
  /\ pipeRd' \in {nil, pipeRd} /\ pipCancel' \in {nil, pipCancel}
  /\ UNCHANGED <<port, arrived, rx, started, readerVars, done, last>>
Shuts ==
  /\ port' = "closed"
  /\ UNCHANGED <<arrived, rx, started, readerVars, done, pipeRd, pipCancel, last>>

\* Each step is one of them, by its actions.
LEMMA PipeSteps ==
  ASSUME [DiagnoseNext]_allVars
  PROVE  \/ Quiescent
         \/ Deliver
         \/ Open /\ mpc = "open" /\ mpc' # "wait"
         \/ Launches
         \/ \E c \in Configs : Takes(c)
         \/ \E a \in Closers : Cancels(a)
         \/ Forgets
         \/ Shuts
         \/ \E r \in Readers : ReaderStep(r)
<1>1. CASE UNCHANGED allVars
  BY <1>1 DEF allVars, Quiescent
<1>2. CASE MainStep
  <2>1. CASE OpenClient \/ StartReader \/ Relaunch \/ MainClosePort
    BY <2>1 DEF OpenClient, Notify, StartReader, Relaunch, MainClosePort, ClosePort, Launches, Shuts
  <2>2. CASE Notify \/ OpenFails \/ FirstConfig \/ Reconfigure \/ ReconfigureFails \/ Spawn \/ TakeResult \/ HardTimeout
             \/ Return \/ Output
    BY <2>2 DEF Notify, OpenFails, FirstConfig, Reconfigure, ReconfigureFails, Spawn, TakeResult, HardTimeout, Return,
                Output, Quiescent
  <2>3. CASE CloserStep("main")
    BY <2>3 DEF CloserStep, CloserCheck, CloserCall, CloserSelect, CloserClose, CloserClearReader, CloserClearCancel, Closers, At,
                Quiescent, Cancels, Forgets, vars, readerVars
  <2> QED
    BY <1>2, <2>1, <2>2, <2>3 DEF MainStep
<1>3. CASE Interrupt \/ SigStep
  BY <1>3 DEF Interrupt, SigStep, SigReceive, SigGone, SigClosePort, SigExit, ClosePort, Shuts, CloserStep, CloserCheck, CloserCall,
              CloserSelect, CloserClose, CloserClearReader, CloserClearCancel, Closers, At, Quiescent, Cancels, Forgets, vars, readerVars
<1>4. ASSUME NEW c \in Configs, TestStep(c)
      PROVE  Quiescent \/ Takes(c)
  BY <1>4 DEF TestStep, DiagStart, LoadReader, Drain, DrainEnds, SendNKE, SendUD2, WriteFails, WriteHangs, Receive,
              CtxDone, Fallback, FallbackFails, Quiescent, Takes, Loaded
<1> QED
  BY <1>1, <1>2, <1>3, <1>4 DEF DiagnoseNext, ReaderRuns

\* They keep the types of PipeReader.
LEMMA PipeTyping ==
  ASSUME PipeAssumption, DiagnoseTyping, [DiagnoseNext]_allVars
  PROVE  IInv'
<1>0. IInv /\ MainTyped /\ TestsTyped /\ CloseTyped
  BY DEF DiagnoseTyping
<1>1. CASE Quiescent \/ Deliver \/ Open \/ (\E r \in Readers : ReaderStep(r))
  <2>1. [Next]_vars
    BY <1>1 DEF Quiescent, Deliver, Next
  <2> QED
    BY <1>0, <2>1, Typing
<1> USE DEF IInv, TypeOK, Unstarted
<1>2. CASE Launches
  <2>1. port # "new" /\ started \in Nat
    BY <1>0, <1>2 DEF Launches, MainTyped
  <2>2. \A q \in Readers : q > started' => ~done'[q]
    BY <1>0, <1>2, <2>1 DEF Launches, Launch
  <2>3. Launch /\ UNCHANGED <<port, arrived, rx, buf, ch, done, last>>
    BY <1>2 DEF Launches
  <2> QED
    BY <1>0, <2>1, <2>2, <2>3, LaunchTyping
<1>3. ASSUME NEW c \in Configs, Takes(c) PROVE IInv'
  <2> DEFINE r == tpr[c]
  <2>1. r \in Readers /\ r <= started /\ ch[r] \in Seq(Bytes) /\ ch[r] # <<>>
    BY <1>0, <1>3 DEF Takes, TakeFrom, TestsTyped
  <2>2. ch' = [ch EXCEPT ![r] = Tail(ch[r])] /\ last' = Head(ch[r])
    BY <1>3 DEF Takes, TakeFrom
  <2>3. UNCHANGED <<port, arrived, rx, started, pc, buf, done, pipeRd, pipCancel>>
    BY <1>3 DEF Takes
  <2> HIDE DEF r
  <2>4. Head(ch[r]) \in Bytes /\ Tail(ch[r]) \in Seq(Bytes) /\ Len(Tail(ch[r])) <= Len(ch[r])
    BY <2>1, TailFacts
  <2>5. last' \in 0 .. MaxBytes
    BY <2>2, <2>4 DEF Bytes
  <2>6. ch' \in [Readers -> Seq(Bytes)] /\ \A q \in Readers : Len(ch'[q]) <= ChanCap
    BY <1>0, <2>1, <2>2, <2>4
  <2>7. \A q \in Readers : q > started => ch'[q] = <<>>
    BY <1>0, <2>1, <2>2
  <2>8. port # "new"
    BY <1>0, <2>1
  <2> QED
    BY <1>0, <2>3, <2>5, <2>6, <2>7, <2>8
<1>4. ASSUME NEW a \in Closers, Cancels(a) PROVE IInv'
  <2>1. loc[a] \in 0 .. started /\ Cancel(loc[a])
    BY <1>0, <1>4 DEF Cancels, CloseTyped
  <2>2. done' \in [Readers -> BOOLEAN] /\ \A q \in Readers : q > started => ~done'[q]
    BY <1>0, <2>1, CancelTyping
  <2>3. UNCHANGED <<port, arrived, rx, started, pc, buf, ch, pipeRd, pipCancel, last>>
    BY <1>4 DEF Cancels, readerVars
  <2> QED
    BY <1>0, <2>2, <2>3
<1>5. CASE Forgets \/ Shuts
  <2>1. /\ UNCHANGED <<arrived, rx, started, pc, buf, ch, done, last>>
        /\ port' \in {port, "closed"} /\ pipeRd' \in {0, pipeRd} /\ pipCancel' \in {0, pipCancel}
    BY <1>5 DEF Forgets, Shuts, readerVars
  <2>2. 0 \in 0 .. started
    BY <1>0
  <2> QED
    BY <1>0, <2>1, <2>2
<1> QED
  BY <1>1, <1>2, <1>3, <1>4, <1>5, PipeSteps
-----------------------------------------------------------------------------
(* Types.                                                                  *)

\* What a step does to the device and the line.
LEMMA LineSteps ==
  ASSUME [DiagnoseNext]_allVars
  PROVE  /\ device' = device
         /\ \/ Deliver
            \/ UNCHANGED <<arrived, wire>> /\ UNCHANGED <<mode, replies>>
            \/ UNCHANGED <<arrived, wire>> /\ Reconfigure /\ UNCHANGED replies
            \/ UNCHANGED <<arrived, wire>> /\ UNCHANGED mode /\ device[mode] # "none" /\ Answer("E5")
            \/ UNCHANGED <<arrived, wire>> /\ UNCHANGED mode /\ device[mode] = "full" /\ Answer("frame")
<1> USE DEF lineVars, diagVars, closeVars, vars
<1>1. CASE UNCHANGED allVars
  BY <1>1 DEF allVars
<1>2. CASE Deliver
  BY <1>2 DEF Deliver
<1>3. CASE MainStep
  <2>1. CASE CloserStep("main")
    BY <2>1 DEF CloserStep, CloserCheck, CloserCall, CloserSelect, CloserClose, CloserClearReader, CloserClearCancel
  <2>2. CASE Reconfigure
    BY <2>2 DEF Reconfigure
  <2> QED
    BY <1>3, <2>1, <2>2 DEF MainStep, OpenClient, Notify, Open, OpenFails, StartReader, FirstConfig, ReconfigureFails,
       Relaunch, Spawn, TakeResult, HardTimeout, Return, MainClosePort, ClosePort, Output
<1>4. CASE Interrupt \/ SigStep
  BY <1>4 DEF Interrupt, SigStep, SigReceive, SigGone, SigClosePort, SigExit, ClosePort, CloserStep, CloserCheck, CloserCall,
              CloserSelect, CloserClose, CloserClearReader, CloserClearCancel
<1>5. ASSUME NEW c \in Configs, TestStep(c)
      PROVE  /\ UNCHANGED <<device, arrived, wire, mode>>
             /\ \/ UNCHANGED replies
                \/ device[mode] # "none" /\ Answer("E5")
                \/ device[mode] = "full" /\ Answer("frame")
  BY <1>5 DEF TestStep, DiagStart, LoadReader, Drain, DrainEnds, SendNKE, SendUD2, WriteFails, WriteHangs, Receive,
              CtxDone, Fallback, FallbackFails
<1>6. ASSUME NEW r \in Readers, ReaderRuns(r)
      PROVE  UNCHANGED <<device, arrived, wire, mode, replies>>
  BY <1>6 DEF ReaderRuns, ReaderStep, ReaderCheck, ReaderRead, ReaderTimeout, ReaderFail, ReaderPush, ReaderAbandon
<1> QED
  BY <1>1, <1>2, <1>3, <1>4, <1>5, <1>6 DEF DiagnoseNext

\* It keeps their types.
LEMMA LineTyping ==
  ASSUME DiagnoseAssumption, DiagnoseTyping, [DiagnoseNext]_allVars
  PROVE  LineTyped'
<1>1. LineTyped /\ MainTyped /\ arrived \in Nat
  BY DEF DiagnoseTyping, IInv, TypeOK
<1>2. device' = device
  BY LineSteps
<1>3. CASE Deliver
  <2>1. replies # <<>> /\ replies \in Seq(Replies)
    BY <1>1, <1>3 DEF Deliver, LineTyped
  <2>2. Head(replies) \in Replies /\ Tail(replies) \in Seq(Replies)
    BY <2>1, TailFacts
  <2> DEFINE kind == IF Head(replies).mode = mode THEN Head(replies).kind ELSE "junk"
  <2>3. kind \in Kinds
    BY <2>2 DEF Replies, Kinds
  <2>4. wire' = Append(wire, kind) /\ replies' = Tail(replies) /\ mode' = mode /\ arrived' = arrived + 1
    BY <1>3 DEF Deliver, Arrive
  <2> HIDE DEF kind
  <2>5. wire' \in Seq(Kinds) /\ Len(wire') = Len(wire) + 1
    BY <1>1, <2>3, <2>4, AppendFacts DEF LineTyped
  <2> QED
    BY <1>1, <1>2, <2>2, <2>4, <2>5 DEF LineTyped
<1>4. CASE UNCHANGED <<arrived, wire, mode, replies>>
  BY <1>1, <1>2, <1>4 DEF LineTyped
<1>5. CASE UNCHANGED <<arrived, wire, replies>> /\ Reconfigure
  <2>1. mode' \in Configs
    BY <1>1, <1>5 DEF Reconfigure, ModeAfter, Configs, MainTyped
  <2> QED
    BY <1>1, <1>2, <1>5, <2>1 DEF LineTyped
<1>6. ASSUME NEW kind \in {"E5", "frame"}, UNCHANGED <<arrived, wire, mode>>, Answer(kind) PROVE LineTyped'
  <2>1. [kind |-> kind, mode |-> mode] \in Replies
    BY <1>1 DEF LineTyped, Replies
  <2>2. replies' \in Seq(Replies)
    BY <1>1, <1>6, <2>1, AppendFacts DEF LineTyped, Answer
  <2> QED
    BY <1>1, <1>2, <1>6, <2>2 DEF LineTyped
<1> QED
  BY <1>3, <1>4, <1>5, <1>6, LineSteps

\* What main records.
LEMMA RecordTyping ==
  ASSUME DiagnoseAssumption, MainTyped, cfg <= NConfigs, cfg' = cfg + 1, NEW o \in Outcomes,
         results' = Append(results, [config |-> cfg, outcome |-> o]),
         successCount' \in {successCount, successCount + 1}
  PROVE  /\ cfg' \in 1 .. NConfigs + 1 /\ results' \in Results /\ Len(results') = cfg' - 1
         /\ \A k \in 1 .. Len(results') : results'[k].config = k
         /\ results'[cfg].outcome = o
         /\ \A k \in 1 .. Len(results) : results'[k] = results[k]
         /\ successCount' \in Nat /\ successCount' < cfg'
<1> DEFINE e == [config |-> cfg, outcome |-> o]
<1>1. cfg \in Nat \ {0} /\ NConfigs \in Nat /\ Len(results) = cfg - 1 /\ successCount \in Nat /\ successCount < cfg
  BY DEF MainTyped, DiagnoseAssumption
<1>2. e \in [config : Configs, outcome : Outcomes]
  BY <1>1 DEF Configs
<1>3. results \in Seq([config : Configs, outcome : Outcomes]) /\ results' = Append(results, e)
  BY DEF MainTyped, Results
<1>e. e.config = cfg /\ e.outcome = o
  OBVIOUS
<1> HIDE DEF e
<1>4. /\ results' \in Results /\ Len(results') = Len(results) + 1 /\ results'[Len(results) + 1] = e
      /\ \A k \in 1 .. Len(results) : results'[k] = results[k]
  BY <1>2, <1>3, AppendFacts DEF Results
<1>5. Len(results') = cfg /\ results'[cfg] = e
  BY <1>1, <1>4
<1>6. ASSUME NEW k \in 1 .. Len(results') PROVE results'[k].config = k
  <2>1. k \in 1 .. Len(results) \/ k = cfg
    BY <1>1, <1>5
  <2> QED
    BY <1>4, <1>5, <1>e, <2>1 DEF MainTyped
<1> QED
  BY <1>1, <1>4, <1>5, <1>6, <1>e

\* The loop keeps its types.
LEMMA MainTyping ==
  ASSUME DiagnoseAssumption, DiagnoseTyping, [DiagnoseNext]_allVars
  PROVE  MainTyped'
<1>0. MainTyped /\ TestsTyped /\ CloseTyped /\ port \in {"new", "open", "closed"}
  BY DEF DiagnoseTyping, IInv, TypeOK
<1> USE DEF MainTyped, vars, mainVars
<1>1. CASE UNCHANGED allVars
  BY <1>0, <1>1 DEF allVars, diagVars
<1>2. CASE Deliver
  BY <1>0, <1>2 DEF Deliver, Arrive, clientVars
<1>3. CASE OpenClient
  BY <1>0, <1>3 DEF OpenClient, Notify, Open
<1>4. CASE Notify \/ OpenFails \/ StartReader \/ Spawn \/ Output
  BY <1>0, <1>4 DEF Notify, OpenFails, StartReader, Spawn, Output
<1>5. CASE FirstConfig
  BY <1>0, <1>5 DEF FirstConfig, DiagnoseAssumption
<1>6. CASE Reconfigure \/ Relaunch
  BY <1>0, <1>6 DEF Reconfigure, Relaunch
<1>7. CASE ReconfigureFails
  <2>1. NoAnswer \in Outcomes
    BY DEF NoAnswer, Outcome, Outcomes
  <2> QED
    BY <1>0, <1>7, <2>1, RecordTyping DEF ReconfigureFails
<1>8. ASSUME NEW o \in Outcomes, mpc = "wait", Record(o), UNCHANGED port PROVE MainTyped'
  <2>1. successCount' \in {successCount, successCount + 1}
    BY <1>8 DEF Record
  <2> QED
    BY <1>0, <1>8, <2>1, RecordTyping DEF Record
<1>9. CASE TakeResult
  <2>1. outcome[cfg] \in Outcomes
    BY <1>0, <1>9 DEF TakeResult, TestsTyped, Configs
  <2> QED
    BY <1>8, <1>9, <2>1 DEF TakeResult
<1>10. CASE HardTimeout
  <2>1. NoAnswer \in Outcomes
    BY DEF NoAnswer, Outcome, Outcomes
  <2> QED
    BY <1>8, <1>10, <2>1 DEF HardTimeout
<1>11. CASE Return
  BY <1>0, <1>11 DEF Return
<1>12. CASE MainClosePort
  BY <1>0, <1>12 DEF MainClosePort, ClosePort
<1>13. CASE CloserStep("main") \/ CloserStep("sig")
  BY <1>0, <1>13 DEF CloserStep, CloserCheck, CloserCall, CloserSelect, CloserClose, CloserClearReader, CloserClearCancel
<1>14. CASE Interrupt \/ SigReceive \/ SigGone \/ SigExit
  BY <1>0, <1>14 DEF Interrupt, SigReceive, SigGone, SigExit
<1>15. CASE SigClosePort
  BY <1>0, <1>15 DEF SigClosePort, ClosePort, CloseTyped
<1>16. ASSUME NEW c \in Configs, TestStep(c) PROVE MainTyped'
  BY <1>0, <1>16 DEF TestStep, DiagStart, LoadReader, Drain, DrainEnds, SendNKE, SendUD2, WriteFails, WriteHangs,
                     Receive, CtxDone, Fallback, FallbackFails
<1>17. ASSUME NEW r \in Readers, ReaderRuns(r) PROVE MainTyped'
  BY <1>0, <1>17 DEF ReaderRuns, diagVars, ReaderStep, ReaderCheck, ReaderRead, ReaderTimeout, ReaderFail, ReaderPush,
                     ReaderAbandon, clientVars
<1> QED
  BY <1>1, <1>2, <1>3, <1>4, <1>5, <1>6, <1>7, <1>9, <1>10, <1>11, <1>12, <1>13, <1>14, <1>15, <1>16, <1>17
     DEF DiagnoseNext, MainStep, SigStep

\* The tests keep theirs.
LEMMA TestsTyping ==
  ASSUME DiagnoseAssumption, DiagnoseTyping, [DiagnoseNext]_allVars
  PROVE  TestsTyped'
<1>0. TestsTyped /\ MainTyped /\ started \in Nat /\ started' \in Nat /\ started <= started' /\ pipeRd \in 0 .. started
  BY PipeSteps DEF DiagnoseTyping, IInv, TypeOK, Quiescent, Deliver, Arrive, Open, Launches, Launch, Takes, Cancels,
     Forgets, Shuts, ReaderStep, ReaderCheck, ReaderRead, ReaderTimeout, ReaderFail, ReaderPush, ReaderAbandon,
     vars, clientVars
<1> USE DEF TestsTyped
<1>1. CASE UNCHANGED testVars
  <2>1. UNCHANGED <<tpc, tpr, outcome>>
    BY <1>1 DEF testVars
  <2>2. ASSUME NEW c \in Configs PROVE tpr'[c] <= started' /\ (tpc'[c] \in Loaded => tpr'[c] # nil)
    BY <1>0, <2>1
  <2> QED
    BY <1>0, <2>1, <2>2
<1>2. ASSUME NEW c \in Configs, UNCHANGED <<started, tpr>>, NEW label \in Labels,
             TestGoto(c, label), label \in Loaded => tpc[c] \in Loaded,
             UNCHANGED outcome \/ \E o \in Outcomes : outcome' = [outcome EXCEPT ![c] = o]
      PROVE  TestsTyped'
  <2>1. tpc' = [tpc EXCEPT ![c] = label] /\ tpc' \in [Configs -> Labels] /\ outcome' \in [Configs -> Outcomes]
    BY <1>0, <1>2 DEF TestGoto
  <2> QED
    BY <1>0, <1>2, <2>1
<1>3. CASE Spawn
  <2>1. cfg \in Configs /\ tpc' = [tpc EXCEPT ![cfg] = "start"] /\ UNCHANGED <<started, tpr, outcome>>
    BY <1>0, <1>3 DEF Spawn, MainTyped, Configs, vars
  <2>2. "start" \in Labels /\ "start" \notin Loaded
    BY DEF Labels, Loaded
  <2> QED
    BY <1>2, <2>1, <2>2 DEF TestGoto
<1>4. ASSUME NEW c \in Configs, TestStep(c) PROVE TestsTyped'
  <2> USE DEF vars
  <2>1. CASE LoadReader(c)
    <3>1. CASE pipeRd = nil
      BY <1>1, <2>1, <3>1 DEF LoadReader, testVars
    <3>2. CASE pipeRd # nil
      <4>1. /\ tpc' = [tpc EXCEPT ![c] = "drain"] /\ tpr' = [tpr EXCEPT ![c] = pipeRd]
            /\ UNCHANGED <<outcome, started>>
        BY <2>1, <3>2 DEF LoadReader, TestGoto
      <4>2. "drain" \in Labels
        BY DEF Labels
      <4> QED
        BY <1>0, <3>2, <4>1, <4>2
    <3> QED
      BY <3>1, <3>2
  <2>2. CASE Drain(c)
    BY <1>1, <2>2 DEF Drain
  <2>3. CASE DiagStart(c) \/ DrainEnds(c) \/ SendNKE(c) \/ SendUD2(c) \/ WriteHangs(c)
    <3>1. UNCHANGED <<outcome, tpr, started>>
      BY <2>3 DEF DiagStart, DrainEnds, SendNKE, SendUD2, WriteHangs
    <3>2. \E label \in Labels : TestGoto(c, label) /\ (label \in Loaded => tpc[c] \in Loaded)
      BY <2>3 DEF DiagStart, DrainEnds, SendNKE, SendUD2, WriteHangs, Labels, Loaded
    <3> QED
      BY <1>2, <3>1, <3>2
  <2>4. ASSUME NEW o \in Outcomes, Finish(c, o), UNCHANGED <<tpr, started>> PROVE TestsTyped'
    <3>1. "done" \in Labels /\ "done" \notin Loaded
      BY DEF Labels, Loaded
    <3> QED
      BY <1>2, <2>4, <3>1 DEF Finish
  <2>5. \A h, d \in BOOLEAN : Outcome(h, d) \in Outcomes
    BY DEF Outcome, Outcomes
  <2>6. NoAnswer \in Outcomes
    BY <2>5 DEF NoAnswer
  <2>f. CASE FallbackFails(c)
    <3>1. PICK h \in BOOLEAN : Finish(c, Outcome(h, FALSE))
      BY <2>f DEF FallbackFails
    <3>2. Outcome(h, FALSE) \in Outcomes
      BY DEF Outcome, Outcomes
    <3> QED
      BY <2>4, <2>f, <3>1, <3>2 DEF FallbackFails
  <2>7. CASE WriteFails(c) \/ CtxDone(c) \/ Fallback(c)
    <3>1. /\ Outcome(tpc[c] \in {"ud2", "hung ud2"}, FALSE) \in Outcomes
          /\ Outcome(tpc[c] = "data", FALSE) \in Outcomes
          /\ {NoAnswer, Outcome(TRUE, FALSE), Outcome(FALSE, TRUE), Outcome(TRUE, TRUE)} \subseteq Outcomes
      <4>1. (tpc[c] \in {"ud2", "hung ud2"}) \in BOOLEAN /\ (tpc[c] = "data") \in BOOLEAN
        OBVIOUS
      <4>2. TRUE \in BOOLEAN /\ FALSE \in BOOLEAN
        OBVIOUS
      <4>3. Outcome(tpc[c] \in {"ud2", "hung ud2"}, FALSE) \in Outcomes /\ Outcome(tpc[c] = "data", FALSE) \in Outcomes
        BY <2>5, <4>1, <4>2, Zenon
      <4>4. Outcome(TRUE, FALSE) \in Outcomes /\ Outcome(FALSE, TRUE) \in Outcomes /\ Outcome(TRUE, TRUE) \in Outcomes
        BY <2>5, <4>2, Zenon
      <4> QED
        BY <2>6, <4>3, <4>4, Zenon
    <3>2. \E o \in Outcomes : Finish(c, o)
      <4>1. CASE WriteFails(c)
        BY <3>1, <4>1 DEF WriteFails
      <4>2. CASE CtxDone(c)
        BY <3>1, <4>2 DEF CtxDone
      <4>3. CASE Fallback(c)
        BY <3>1, <4>3, Zenon DEF Fallback, FallbackFails
      <4> QED
        BY <2>7, <4>1, <4>2, <4>3
    <3>3. UNCHANGED <<tpr, started>>
      BY <2>7 DEF WriteFails, CtxDone, Fallback, FallbackFails
    <3> QED
      BY <2>4, <3>2, <3>3
  <2>8. CASE Receive(c)
    <3>1. UNCHANGED <<tpr, started>>
      BY <2>8 DEF Receive
    <3>2. CASE UNCHANGED <<tpc, outcome>>
      BY <1>1, <3>1, <3>2 DEF testVars
    <3>3. CASE TestGoto(c, "ud2") /\ UNCHANGED outcome
      <4>1. "ud2" \in Labels /\ tpc[c] \in Loaded
        BY <2>8 DEF Labels, Loaded, Receive
      <4> QED
        BY <1>2, <3>1, <3>3, <4>1
    <3> QED
      BY <2>4, <2>5, <2>6, <2>8, <3>1, <3>2, <3>3 DEF Receive
  <2> QED
    BY <1>4, <2>1, <2>2, <2>3, <2>f, <2>7, <2>8 DEF TestStep
<1>5. CASE MainStep /\ ~Spawn
  BY <1>1, <1>5 DEF MainStep, OpenClient, Notify, OpenFails, StartReader, FirstConfig, Reconfigure, ReconfigureFails,
     Relaunch, TakeResult, HardTimeout, Return, MainClosePort, Output, CloserStep, CloserCheck, CloserCall,
     CloserSelect, CloserClose, CloserClearReader, CloserClearCancel
<1>6. CASE Deliver \/ Interrupt \/ SigStep \/ (\E r \in Readers : ReaderRuns(r)) \/ UNCHANGED allVars
  BY <1>1, <1>6 DEF Deliver, Interrupt, SigStep, SigReceive, SigGone, SigClosePort, SigExit, CloserStep, CloserCheck, CloserCall,
     CloserSelect, CloserClose, CloserClearReader, CloserClearCancel, ReaderRuns, diagVars, allVars
<1> QED
  BY <1>3, <1>4, <1>5, <1>6 DEF DiagnoseNext

\* The calls of Close keep theirs.
LEMMA CloseTyping ==
  ASSUME DiagnoseAssumption, DiagnoseTyping, [DiagnoseNext]_allVars
  PROVE  CloseTyped'
<1>0. CloseTyped /\ MainTyped /\ started \in Nat /\ started' \in Nat /\ started <= started' /\ pipCancel \in 0 .. started
  BY PipeSteps DEF DiagnoseTyping, IInv, TypeOK, Quiescent, Deliver, Arrive, Open, Launches, Launch, Takes, Cancels,
     Forgets, Shuts, ReaderStep, ReaderCheck, ReaderRead, ReaderTimeout, ReaderFail, ReaderPush, ReaderAbandon,
     vars, clientVars
<1>m. mpc' = "open" => mpc = "open"
  BY DEF DiagnoseNext, MainStep, OpenClient, Notify, OpenFails, StartReader, FirstConfig, Reconfigure, ReconfigureFails,
     Relaunch, Spawn, TakeResult, HardTimeout, Record, Return, MainClosePort, Output, CloserStep, CloserCheck,
     CloserCall, CloserSelect, CloserClose, CloserClearReader, CloserClearCancel, Deliver, Interrupt, SigStep, SigReceive, SigGone, SigClosePort, SigExit,
     ReaderRuns, TestStep, DiagStart, LoadReader, Drain, DrainEnds, SendNKE, SendUD2, WriteFails, WriteHangs,
     Receive, CtxDone, Fallback, FallbackFails, diagVars, allVars, mainVars
<1> USE DEF CloseTyped
<1>1. ASSUME UNCHANGED <<cl, loc>>, queued' \in BOOLEAN,
             spc' \in {"off", "wait", "closing", "closed", "gone"}, mpc' = "open" => spc' = "off",
             exit' \in {"running", "0", "1", "130", "killed", "panic"}
      PROVE  CloseTyped'
  <2>1. \A a \in Closers : loc'[a] <= started'
    BY <1>0, <1>1
  <2> QED
    BY <1>0, <1>1, <2>1
<1>2. ASSUME NEW a \in Closers, UNCHANGED <<loc, exit>>, queued' \in BOOLEAN, NEW label \in {"idle", "check", "call", "clear", "forget", "end"},
             Goto(a, label),
             spc' \in {"off", "wait", "closing", "closed", "gone"}, mpc' = "open" => spc' = "off"
      PROVE  CloseTyped'
  <2>1. \A b \in Closers : loc'[b] <= started'
    BY <1>0, <1>2
  <2>2. cl' = [cl EXCEPT ![a] = label]
    BY <1>2 DEF Goto
  <2> QED
    BY <1>0, <1>2, <2>1, <2>2
<1>3. CASE OpenClient
  BY <1>1, <1>0, <1>3 DEF OpenClient, closeVars
<1>4. CASE Notify \/ OpenFails \/ StartReader \/ FirstConfig \/ ReconfigureFails \/ Spawn \/ TakeResult \/ HardTimeout \/ Output
  BY <1>1, <1>0, <1>m, <1>4 DEF Notify, OpenFails, StartReader, FirstConfig, ReconfigureFails, Spawn, TakeResult, HardTimeout,
     Output, closeVars
<1>5. CASE Reconfigure \/ Relaunch \/ MainClosePort
  <2>1. \E label \in {"idle", "check", "call", "clear", "forget", "end"} : Goto("main", label)
    BY <1>5 DEF Reconfigure, Relaunch, MainClosePort, ClosePort
  <2>2. UNCHANGED <<loc, exit, spc, queued>>
    BY <1>5 DEF Reconfigure, Relaunch, MainClosePort, ClosePort
  <2> QED
    BY <1>0, <1>2, <1>m, <2>1, <2>2 DEF Closers
<1>6. CASE Return
  BY <1>0, <1>2, <1>m, <1>6 DEF Return, Closers
<1>7. ASSUME NEW a \in Closers, CloserStep(a) PROVE CloseTyped'
  <2>1. CASE CloserCheck(a) \/ CloserClearReader(a) \/ CloserClearCancel(a)
    BY <1>0, <1>2, <1>m, <1>7, <2>1 DEF CloserCheck, CloserClearReader, CloserClearCancel
  <2>2. CASE CloserCall(a)
    <3>1. CASE pipCancel = nil
      BY <1>0, <1>1, <1>m, <2>2, <3>1 DEF CloserCall
    <3>2. CASE pipCancel # nil
      <4>1. /\ cl' = [cl EXCEPT ![a] = "select"] /\ loc' = [loc EXCEPT ![a] = pipCancel]
            /\ UNCHANGED <<started, spc, queued, exit>>
        BY <2>2, <3>2 DEF CloserCall, Goto, vars
      <4> QED
        BY <1>0, <1>m, <3>2, <4>1
    <3> QED
      BY <3>1, <3>2
  <2>3. CASE CloserSelect(a)
    <3>1. CASE done[loc[a]]
      BY <1>0, <1>2, <1>m, <2>3, <3>1 DEF CloserSelect
    <3>2. CASE ~done[loc[a]]
      <4>1. cl' = [cl EXCEPT ![a] = "close"] /\ UNCHANGED <<loc, started, spc, queued, exit>> /\ loc[a] # nil
        BY <1>0, <2>3, <3>2 DEF CloserSelect, Goto, vars, At
      <4> QED
        BY <1>0, <1>m, <4>1
    <3> QED
      BY <3>1, <3>2
  <2>4. CASE CloserClose(a)
    <3>1. CASE done[loc[a]]
      BY <1>0, <1>1, <1>m, <2>4, <3>1 DEF CloserClose
    <3>2. CASE ~done[loc[a]]
      BY <1>0, <1>2, <1>m, <2>4, <3>2 DEF CloserClose
    <3> QED
      BY <3>1, <3>2
  <2> QED
    BY <1>7, <2>1, <2>2, <2>3, <2>4 DEF CloserStep
<1>8. CASE SigReceive \/ SigClosePort
  <2>1. \E label \in {"idle", "check", "call", "clear", "forget", "end"} : Goto("sig", label)
    BY <1>8 DEF SigReceive, SigClosePort, ClosePort
  <2>2. UNCHANGED <<loc, exit, mpc>> /\ spc' \in {"closing", "closed"} /\ spc # "off" /\ queued' \in BOOLEAN
    BY <1>0, <1>8 DEF SigReceive, SigClosePort, mainVars
  <2> QED
    BY <1>0, <1>2, <2>1, <2>2 DEF Closers
<1>9. CASE Interrupt \/ SigGone \/ SigExit
  BY <1>0, <1>1, <1>m, <1>9 DEF Interrupt, SigGone, SigExit, closeVars, mainVars
<1>10. ASSUME NEW c \in Configs, TestStep(c) PROVE CloseTyped'
  <2>1. UNCHANGED closeVars /\ (UNCHANGED exit \/ exit' = "panic")
    BY <1>10 DEF TestStep, DiagStart, LoadReader, Drain, DrainEnds, SendNKE, SendUD2, WriteFails, WriteHangs, Receive,
       CtxDone, Fallback, FallbackFails
  <2> QED
    BY <1>0, <1>1, <1>m, <2>1 DEF closeVars
<1>11. CASE Deliver \/ (\E r \in Readers : ReaderRuns(r)) \/ UNCHANGED allVars
  BY <1>0, <1>1, <1>m, <1>11 DEF Deliver, ReaderRuns, diagVars, allVars, closeVars
<1> QED
  BY <1>3, <1>4, <1>5, <1>6, <1>7, <1>8, <1>9, <1>10, <1>11 DEF DiagnoseNext, MainStep, SigStep, Closers

\* All of it together.
LEMMA DiagnoseTypingStep ==
  ASSUME PipeAssumption, DiagnoseAssumption, DiagnoseTyping, [DiagnoseNext]_allVars
  PROVE  DiagnoseTyping'
BY PipeTyping, LineTyping, MainTyping, TestsTyping, CloseTyping DEF DiagnoseTyping

\* It holds at the start.
LEMMA DiagnoseTypingInit == ASSUME PipeAssumption, DiagnoseAssumption, DiagnoseInit PROVE DiagnoseTyping
<1>1. IInv
  BY InitTyping DEF DiagnoseInit
<1>2. LineTyped
  <2>1. 1 \in Configs
    BY DEF Configs, DiagnoseAssumption
  <2> QED
    BY <2>1 DEF DiagnoseInit, Init, LineTyped
<1>3. MainTyped
  BY DEF DiagnoseInit, Init, MainTyped, Results, DiagnoseAssumption
<1>4. TestsTyped
  <2>1. "off" \in Labels /\ "off" \notin Loaded /\ NoAnswer \in Outcomes
    BY DEF Labels, Loaded, NoAnswer, Outcome, Outcomes
  <2> QED
    BY <2>1 DEF DiagnoseInit, Init, TestsTyped
<1>5. CloseTyped
  <2>1. queued \in BOOLEAN
    BY Zenon DEF DiagnoseInit
  <2>2. /\ spc = "off" /\ exit = "running" /\ started = 0
        /\ cl = [a \in Closers |-> "idle"] /\ loc = [a \in Closers |-> nil]
    BY DEF DiagnoseInit, Init
  <2> QED
    BY <2>1, <2>2 DEF CloseTyped
<1> QED
  BY <1>1, <1>2, <1>3, <1>4, <1>5 DEF DiagnoseTyping

\* The goroutines of diagnose keep the types of what they share, and main has one
\* result for each configuration it has passed, in their order.
THEOREM DiagnoseTypeCorrect == DiagnoseSpec => []DiagnoseTypeOK
<1>1. DiagnoseInit => DiagnoseTyping
  BY DiagnoseTypingInit, PipeAssumption, DiagnoseAssumption
<1>2. DiagnoseTyping /\ [DiagnoseNext]_allVars => DiagnoseTyping'
  BY DiagnoseTypingStep, PipeAssumption, DiagnoseAssumption
<1>3. DiagnoseTyping => DiagnoseTypeOK
  <2> SUFFICES ASSUME DiagnoseTyping PROVE DiagnoseTypeOK
    OBVIOUS
  <2>1. TypeOK /\ started \in 0 .. MaxReaders /\ MaxReaders \in Nat
    BY PipeAssumption DEF DiagnoseTyping, IInv, TypeOK
  <2>2. tpr \in [Configs -> 0 .. MaxReaders] /\ loc \in [Closers -> 0 .. MaxReaders]
    BY <2>1 DEF DiagnoseTyping, TestsTyped, CloseTyped
  <2>3. /\ \A k \in DOMAIN replies : replies[k] \in Replies
        /\ \A b \in DOMAIN wire : wire[b] \in Kinds
        /\ \A k \in DOMAIN results : results[k].config = k
    BY ElementOfSeq DEF DiagnoseTyping, LineTyped, MainTyped, Results
  <2>4. successCount \in 0 .. NConfigs
    BY DiagnoseAssumption DEF DiagnoseTyping, MainTyped, DiagnoseAssumption
  <2> QED
    BY <2>1, <2>2, <2>3, <2>4 DEF DiagnoseTyping, LineTyped, MainTyped, TestsTyped, CloseTyped, DiagnoseTypeOK,
       Replies, Kinds, Outcomes
<1> QED
  BY <1>1, <1>2, <1>3, PTL DEF DiagnoseSpec
-----------------------------------------------------------------------------
(* The port is released.                                                   *)

\* Where main and sig are behind their Close, the port is closed, and it is not
\* open where main has not opened it.
PortInv ==
  /\ mpc = "output" \/ spc = "closed" => port = "closed"
  /\ ExitReleases

\* Every step keeps this: a closed port stays closed, the two that end the
\* process are behind their Close, and a signal ends it where it is not notified.
LEMMA PortStep ==
  ASSUME DiagnoseTyping, PortInv, [DiagnoseNext]_allVars
  PROVE  PortInv'
<1> USE DEF PortInv, ExitReleases
<1>0. MainTyped /\ CloseTyped
  BY DEF DiagnoseTyping
<1>1. port = "closed" => port' = "closed"
  BY PipeSteps DEF Quiescent, Deliver, Arrive, Open, Launches, Takes, Cancels, Forgets, Shuts, ReaderStep,
     ReaderCheck, ReaderRead, ReaderTimeout, ReaderFail, ReaderPush, ReaderAbandon, vars, clientVars
<1>2. CASE UNCHANGED allVars
  BY <1>2 DEF allVars, vars, diagVars, mainVars, closeVars
<1>3. exit = "running" \/ UNCHANGED allVars
  BY DEF DiagnoseNext
<1>4. CASE UNCHANGED <<mpc, spc, exit>>
  BY <1>1, <1>2, <1>3, <1>4
<1>5. CASE OpenClient
  BY <1>0, <1>3, <1>5 DEF OpenClient, Notify, Open, CloseTyped, allVars, vars, diagVars, closeVars
<1>6. CASE OpenFails
  BY <1>0, <1>6 DEF OpenFails, MainTyped, CloseTyped, vars, mainVars, closeVars
<1>7. CASE StartReader \/ FirstConfig \/ Reconfigure \/ ReconfigureFails \/ Relaunch \/ Spawn \/ TakeResult
           \/ HardTimeout \/ Return \/ Notify
  <2>1. mpc' \notin {"open", "output"} /\ (spc' = "closed" => spc = "closed") /\ UNCHANGED exit
    BY <1>0, <1>7 DEF StartReader, FirstConfig, Reconfigure, ReconfigureFails, Relaunch, Spawn, TakeResult,
       HardTimeout, Record, Return, Notify, closeVars, mainVars
  <2> QED
    BY <1>1, <1>2, <1>3, <2>1
<1>s. CASE SigReceive \/ SigGone
  <2>1. UNCHANGED <<mpc, exit>> /\ spc' # "closed"
    BY <1>s DEF SigReceive, SigGone, mainVars
  <2> QED
    BY <1>1, <1>2, <1>3, <2>1
<1>8. CASE MainClosePort \/ SigClosePort
  BY <1>2, <1>3, <1>8 DEF MainClosePort, SigClosePort, ClosePort
<1>9. CASE Output \/ SigExit
  BY <1>9 DEF Output, SigExit, vars, mainVars, closeVars
<1>10. CASE Interrupt
  BY <1>0, <1>1, <1>2, <1>3, <1>10 DEF Interrupt, Handled, mainVars, vars, MainTyped
<1>11. ASSUME NEW a \in Closers, CloserStep(a) PROVE PortInv'
  <2>1. UNCHANGED <<mpc, spc>> /\ (UNCHANGED exit \/ exit' = "panic")
    BY <1>11 DEF CloserStep, CloserCheck, CloserCall, CloserSelect, CloserClose, CloserClearReader, CloserClearCancel, mainVars
  <2> QED
    BY <1>1, <1>2, <1>3, <2>1
<1>12. ASSUME NEW c \in Configs, TestStep(c) PROVE PortInv'
  <2>1. UNCHANGED <<mpc, spc>> /\ (UNCHANGED exit \/ exit' = "panic")
    BY <1>12 DEF TestStep, DiagStart, LoadReader, Drain, DrainEnds, SendNKE, SendUD2, WriteFails, WriteHangs, Receive,
       CtxDone, Fallback, FallbackFails, mainVars, closeVars
  <2> QED
    BY <1>1, <1>2, <1>3, <2>1
<1>13. CASE Deliver \/ (\E r \in Readers : ReaderRuns(r))
  BY <1>4, <1>13 DEF Deliver, ReaderRuns, diagVars, mainVars, closeVars
<1> QED
  BY <1>2, <1>5, <1>6, <1>7, <1>s, <1>8, <1>9, <1>10, <1>11, <1>12, <1>13 DEF DiagnoseNext, MainStep, SigStep, Closers

\* The process ends with the port open only in a panic, or by a signal in the two
\* windows in which signals are not notified: before Notify and after Stop.
THEOREM ExitReleasesHolds == DiagnoseSpec => []ExitReleases
<1>1. DiagnoseInit => DiagnoseTyping /\ PortInv
  <2>1. DiagnoseInit => PortInv
    BY DEF DiagnoseInit, PortInv, ExitReleases
  <2> QED
    BY <2>1, DiagnoseTypingInit, PipeAssumption, DiagnoseAssumption
<1>2. DiagnoseTyping /\ PortInv /\ [DiagnoseNext]_allVars => DiagnoseTyping' /\ PortInv'
  BY DiagnoseTypingStep, PortStep, PipeAssumption, DiagnoseAssumption
<1>3. PortInv => ExitReleases
  BY DEF PortInv
<1> QED
  BY <1>1, <1>2, <1>3, PTL DEF DiagnoseSpec
-----------------------------------------------------------------------------
(* The count.                                                              *)

Success(o) == o = Outcome(TRUE, TRUE)
Successes == {k \in 1 .. Len(results) : Success(results[k].outcome)}
CountInv == successCount = Cardinality(Successes)

\* The results of main change by one more, and the count with them.
LEMMA ResultSteps ==
  ASSUME DiagnoseTyping, [DiagnoseNext]_allVars
  PROVE  \/ UNCHANGED <<results, successCount>>
         \/ \E o \in Outcomes :
              /\ results' = Append(results, [config |-> cfg, outcome |-> o])
              /\ \/ o = NoAnswer /\ UNCHANGED successCount
                 \/ mpc = "wait" /\ cfg \in Configs /\ ((tpc[cfg] = "done" /\ o = outcome[cfg]) \/ o = NoAnswer)
                    /\ successCount' = IF ~Quiet /\ Counted(o) THEN successCount + 1 ELSE successCount
<1>0. NoAnswer \in Outcomes
  BY DEF NoAnswer, Outcome, Outcomes
<1>1. mpc = "wait" => cfg \in Configs /\ outcome[cfg] \in Outcomes
  BY DEF DiagnoseTyping, MainTyped, TestsTyped, Configs
<1>2. CASE ReconfigureFails
  BY <1>0, <1>2 DEF ReconfigureFails
<1>3. CASE TakeResult
  BY <1>1, <1>3 DEF TakeResult, Record
<1>4. CASE HardTimeout
  BY <1>0, <1>1, <1>4 DEF HardTimeout, Record
<1>5. CASE MainStep /\ ~ReconfigureFails /\ ~TakeResult /\ ~HardTimeout
  BY <1>5 DEF MainStep, OpenClient, Notify, OpenFails, StartReader, FirstConfig, Reconfigure, Relaunch, Spawn,
     Return, MainClosePort, Output, CloserStep, CloserCheck, CloserCall, CloserSelect, CloserClose, CloserClearReader, CloserClearCancel, mainVars
<1>6. CASE Deliver \/ Interrupt \/ SigStep \/ (\E r \in Readers : ReaderRuns(r)) \/ UNCHANGED allVars
  BY <1>6 DEF Deliver, Interrupt, SigStep, SigReceive, SigGone, SigClosePort, SigExit, CloserStep, CloserCheck, CloserCall,
     CloserSelect, CloserClose, CloserClearReader, CloserClearCancel, ReaderRuns, diagVars, allVars, mainVars
<1>7. ASSUME NEW c \in Configs, TestStep(c) PROVE UNCHANGED <<results, successCount>>
  BY <1>7 DEF TestStep, DiagStart, LoadReader, Drain, DrainEnds, SendNKE, SendUD2, WriteFails, WriteHangs, Receive,
     CtxDone, Fallback, FallbackFails, mainVars
<1> QED
  BY <1>2, <1>3, <1>4, <1>5, <1>6, <1>7 DEF DiagnoseNext

\* Every step keeps the count, where progress is printed.
LEMMA CountStep ==
  ASSUME DiagnoseTyping, CountInv, ~Quiet, [DiagnoseNext]_allVars
  PROVE  CountInv'
<1>1. CASE UNCHANGED <<results, successCount>>
  BY <1>1 DEF CountInv, Successes
<1>2. ASSUME NEW o \in Outcomes, results' = Append(results, [config |-> cfg, outcome |-> o]),
             successCount' = IF Success(o) THEN successCount + 1 ELSE successCount
      PROVE  CountInv'
  <2> DEFINE e == [config |-> cfg, outcome |-> o]
             n == Len(results) + 1
  <2>1. results \in Results /\ Len(results) = cfg - 1 /\ cfg \in 1 .. NConfigs + 1
    BY DEF DiagnoseTyping, MainTyped
  <2>2. Len(results) \in Nat /\ Len(results') = n /\ results'[n].outcome = o
        /\ \A k \in 1 .. Len(results) : results'[k] = results[k]
    BY <1>2, <2>1, AppendProperties DEF Results
  <2>3. 1 .. n = (1 .. Len(results)) \cup {n} /\ n \notin 1 .. Len(results)
    BY <2>2
  <2> HIDE DEF n
  <2>4. Successes' = IF Success(o) THEN Successes \cup {n} ELSE Successes
    BY <2>2, <2>3 DEF Successes
  <2>5. n \notin Successes
    BY <2>3 DEF Successes
  <2>6. IsFiniteSet(Successes)
    <3>1. IsFiniteSet(1 .. Len(results))
      BY <2>2, FS_Interval
    <3>2. Successes \subseteq 1 .. Len(results)
      BY DEF Successes
    <3> QED
      BY <3>1, <3>2, FS_Subset
  <2>7. Cardinality(Successes \cup {n}) = Cardinality(Successes) + 1
    BY <2>5, <2>6, FS_AddElement
  <2> QED
    BY <1>2, <2>4, <2>7 DEF CountInv
<1>3. ASSUME NEW o \in Outcomes PROVE Counted(o) <=> Success(o)
  BY <1>3 DEF Counted, Success, Outcome, Outcomes
<1>4. ~Success(NoAnswer)
  BY DEF Success, NoAnswer, Outcome
<1> QED
  BY <1>1, <1>2, <1>3, <1>4, ResultSteps

\* At the end success_count is the number of results that are a success, unless
\* the run is quiet.
THEOREM CountMatchesHolds == ASSUME ~Quiet PROVE DiagnoseSpec => []CountMatches
<1>1. DiagnoseInit => DiagnoseTyping /\ CountInv
  <2> SUFFICES ASSUME DiagnoseInit PROVE CountInv
    BY DiagnoseTypingInit, PipeAssumption, DiagnoseAssumption
  <2>1. Successes = {} /\ successCount = 0
    BY DEF DiagnoseInit, Successes
  <2> QED
    BY <2>1, FS_EmptySet DEF CountInv
<1>2. DiagnoseTyping /\ CountInv /\ [DiagnoseNext]_allVars => DiagnoseTyping' /\ CountInv'
  BY DiagnoseTypingStep, CountStep, PipeAssumption, DiagnoseAssumption
<1>3. DiagnoseTyping /\ CountInv => CountMatches
  <2> SUFFICES ASSUME DiagnoseTyping, CountInv PROVE CountMatches
    OBVIOUS
  <2>1. DOMAIN results = 1 .. Len(results)
    BY DEF DiagnoseTyping, MainTyped, Results
  <2> QED
    BY <2>1 DEF CountInv, CountMatches, Successes, Success
<1> QED
  BY <1>1, <1>2, <1>3, PTL DEF DiagnoseSpec
-----------------------------------------------------------------------------
(* One test at a time.                                                     *)

\* Main waits for one test, in its own mode; those before it are done or hang in a
\* write.
OneTest ==
  /\ \A c \in Configs :
       /\ c < cfg => tpc[c] \in {"off", "done", "hung nke", "hung ud2", "hung fallback"}
       /\ c > cfg => tpc[c] = "off"
       /\ c = cfg => (tpc[c] # "off" <=> mpc = "wait")
  /\ cfg = 1 => mode = 1
  /\ mpc \in {"restart", "spawn", "wait"} => mode = cfg

\* Nobody but the newest reader serves it.
Newest ==
  /\ pipeRd \in {nil, started}
  /\ mpc = "wait" /\ tpc[cfg] \in Loaded => tpr[cfg] = started

\* The configurations before cfg, cfg and those after it.
LEMMA Position ==
  ASSUME DiagnoseTyping
  PROVE  /\ cfg \in Nat \ {0} /\ cfg + 1 # 1
         /\ mpc \in {"restart", "spawn", "wait"} \/ cfg <= NConfigs => cfg \in Configs
         /\ \A c \in Configs :
              /\ c < cfg \/ c = cfg \/ c > cfg
              /\ c < cfg => c # cfg /\ ~(c > cfg)
              /\ c > cfg => c # cfg
              /\ c < cfg + 1 => c < cfg \/ c = cfg
              /\ c > cfg + 1 => c > cfg
              /\ c = cfg + 1 => c > cfg
<1>1. cfg \in Nat \ {0} /\ cfg + 1 # 1 /\ (mpc \in {"restart", "spawn", "wait"} \/ cfg <= NConfigs => cfg \in Configs)
  BY DEF DiagnoseTyping, MainTyped, Configs
<1>2. ASSUME NEW c \in Configs PROVE c \in Nat
  BY DEF Configs
<1> QED
  BY <1>1, <1>2

\* A test that acts is the present one, or ends because the port is closed.
LEMMA TestActs ==
  ASSUME DiagnoseTyping, OneTest, ~LateWrites, NEW c \in Configs, TestStep(c)
  PROVE  \/ c = cfg /\ mpc = "wait" /\ mode = cfg
         \/ c < cfg /\ port = "closed" /\ Hangs(c) /\ (WriteFails(c) \/ FallbackFails(c))
<1>1. cfg \in Nat /\ c \in Nat
  BY DEF DiagnoseTyping, MainTyped, Configs
<1>2. tpc[c] \notin {"off", "done"}
  BY DEF TestStep, DiagStart, LoadReader, Drain, DrainEnds, SendNKE, SendUD2, WriteFails, WriteHangs, Receive,
     CtxDone, Fallback, FallbackFails
<1>3. c = cfg \/ c < cfg
  <2>1. c = cfg \/ c < cfg \/ c > cfg
    BY <1>1
  <2>2. ~(c > cfg)
    BY <1>2 DEF OneTest
  <2> QED
    BY <2>1, <2>2
<1>4. CASE c = cfg
  BY <1>2, <1>4 DEF OneTest
<1>5. CASE c < cfg
  <2>1. Hangs(c)
    BY <1>2, <1>5 DEF OneTest, Hangs
  <2>2. (WriteFails(c) \/ FallbackFails(c)) /\ port = "closed"
    BY <2>1 DEF TestStep, DiagStart, LoadReader, Drain, DrainEnds, SendNKE, SendUD2, WriteFails, WriteHangs, Receive,
       CtxDone, Fallback, FallbackFails, Hangs
  <2> QED
    BY <1>5, <2>1, <2>2
<1> QED
  BY <1>3, <1>4, <1>5

\* Where a step of a test leads it.
LEMMA TestGoes ==
  ASSUME DiagnoseTyping, NEW c \in Configs, TestStep(c)
  PROVE  /\ \A d \in Configs : d # c => tpc'[d] = tpc[d] /\ outcome'[d] = outcome[d]
         /\ tpc'[c] # "off"
         /\ WriteFails(c) \/ FallbackFails(c) => tpc'[c] = "done"
<1>1. tpc \in [Configs -> Labels] /\ outcome \in [Configs -> Outcomes]
  BY DEF DiagnoseTyping, TestsTyped
<1> QED
  BY <1>1 DEF TestStep, DiagStart, LoadReader, Drain, DrainEnds, SendNKE, SendUD2, WriteFails, WriteHangs, Receive,
     CtxDone, Fallback, FallbackFails, TestGoto, Finish, testVars

\* Every step keeps to one test.
LEMMA OneTestStep ==
  ASSUME DiagnoseTyping, OneTest, ~LateWrites, [DiagnoseNext]_allVars
  PROVE  OneTest'
<1>0. tpc \in [Configs -> Labels] /\ MainTyped
  BY DEF DiagnoseTyping, TestsTyped
<1> USE DEF OneTest
<1>1. CASE UNCHANGED <<mpc, cfg, mode, tpc>>
  BY <1>1
<1>2. CASE OpenClient \/ Notify \/ OpenFails \/ StartReader \/ FirstConfig \/ Relaunch \/ Return \/ MainClosePort \/ Output
           \/ Reconfigure
  BY <1>0, <1>2 DEF OpenClient, Notify, OpenFails, StartReader, FirstConfig, Relaunch, Return, MainClosePort, Output,
     Reconfigure, ModeAfter, MainTyped, testVars, lineVars, mainVars
<1>3. ASSUME cfg' = cfg + 1, mpc' = "next", UNCHANGED <<tpc, mode>>, cfg \in Configs,
             tpc[cfg] \in {"off", "done", "hung nke", "hung ud2", "hung fallback"}
      PROVE  OneTest'
  <2>1. \A c \in Configs : /\ c < cfg + 1 => c < cfg \/ c = cfg
                           /\ c > cfg + 1 => c > cfg
                           /\ c = cfg + 1 => c > cfg
    BY Position
  <2>2. cfg' # 1
    BY <1>3, Position
  <2> QED
    BY <1>3, <2>1, <2>2
<1>4. CASE Spawn
  <2>1. /\ mpc = "spawn" /\ mpc' = "wait" /\ UNCHANGED <<cfg, mode>>
        /\ tpc' = [tpc EXCEPT ![cfg] = "start"] /\ cfg \in Configs
    BY <1>4, Position DEF Spawn, lineVars
  <2>2. tpc'[cfg] = "start" /\ \A c \in Configs : c # cfg => tpc'[c] = tpc[c]
    BY <1>0, <2>1
  <2>3. \A c \in Configs : c < cfg \/ c > cfg => c # cfg
    BY Position
  <2> QED
    BY <2>1, <2>2, <2>3
<1>5. CASE ReconfigureFails \/ TakeResult \/ HardTimeout
  <2>1. cfg \in Configs
    BY <1>5, Position DEF ReconfigureFails, TakeResult, HardTimeout
  <2>2. cfg' = cfg + 1 /\ mpc' = "next" /\ UNCHANGED <<tpc, mode>>
    BY <1>5 DEF ReconfigureFails, TakeResult, HardTimeout, Record, testVars, lineVars
  <2>3. tpc[cfg] \in {"off", "done", "hung nke", "hung ud2", "hung fallback"}
    BY <1>5, <2>1 DEF ReconfigureFails, TakeResult, HardTimeout, Hangs
  <2> QED
    BY <1>3, <2>1, <2>2, <2>3
<1>6. ASSUME NEW c \in Configs, TestStep(c) PROVE OneTest'
  <2>1. UNCHANGED <<mpc, cfg, mode>>
    BY <1>6 DEF TestStep, DiagStart, LoadReader, Drain, DrainEnds, SendNKE, SendUD2, WriteFails, WriteHangs, Receive,
       CtxDone, Fallback, FallbackFails, mainVars, lineVars
  <2>2. CASE c = cfg /\ mpc = "wait"
    <3>1. \A d \in Configs : d # cfg => tpc'[d] = tpc[d]
      BY <1>6, <2>2, TestGoes
    <3>2. tpc'[cfg] # "off"
      BY <1>6, <2>2, TestGoes
    <3> QED
      BY <1>0, <2>1, <2>2, <3>1, <3>2
  <2>3. CASE c < cfg /\ (WriteFails(c) \/ FallbackFails(c))
    <3>1. tpc'[c] = "done" /\ \A d \in Configs : d # c => tpc'[d] = tpc[d]
      BY <1>6, <2>3, TestGoes
    <3>2. \A d \in Configs : d = cfg \/ d > cfg => d # c
      BY <2>3, Position
    <3> QED
      BY <2>1, <3>1, <3>2
  <2> QED
    BY <1>6, <2>2, <2>3, TestActs
<1>7. CASE CloserStep("main") \/ SigStep \/ Deliver \/ Interrupt \/ (\E r \in Readers : ReaderRuns(r)) \/ UNCHANGED allVars
  BY <1>1, <1>7 DEF Deliver, Interrupt, SigStep, SigReceive, SigGone, SigClosePort, SigExit, CloserStep, CloserCheck, CloserCall,
     CloserSelect, CloserClose, CloserClearReader, CloserClearCancel, ReaderRuns, diagVars, allVars, mainVars, testVars, lineVars
<1> QED
  BY <1>2, <1>4, <1>5, <1>6, <1>7 DEF DiagnoseNext, MainStep

\* Every step leaves it to the newest reader.
LEMMA NewestStep ==
  ASSUME DiagnoseTyping, OneTest, Newest, ~LateWrites, [DiagnoseNext]_allVars
  PROVE  Newest'
<1>0. cfg \in Nat /\ tpc \in [Configs -> Labels] /\ tpr \in [Configs -> Nat] /\ MainTyped /\ started \in Nat
  BY DEF DiagnoseTyping, MainTyped, TestsTyped, IInv, TypeOK
<1>1. \/ UNCHANGED started /\ pipeRd' \in {nil, pipeRd}
      \/ pipeRd' = started' /\ mpc' # "wait"
  BY PipeSteps DEF Quiescent, Deliver, Arrive, Open, Launches, Launch, Takes, Cancels, Forgets, Shuts, ReaderStep,
     ReaderCheck, ReaderRead, ReaderTimeout, ReaderFail, ReaderPush, ReaderAbandon, vars, clientVars
<1>2. pipeRd' \in {nil, started'}
  BY <1>1 DEF Newest
<1>3. ASSUME mpc' = "wait", tpc'[cfg'] \in Loaded PROVE tpr'[cfg'] = started'
  <2>1. UNCHANGED started
    BY <1>1, <1>3
  <2>2. CASE UNCHANGED <<tpc, tpr, cfg>> /\ mpc = "wait"
    BY <1>3, <2>1, <2>2 DEF Newest
  <2>3. CASE UNCHANGED <<mainVars, testVars>>
    BY <1>3, <2>2, <2>3 DEF mainVars, testVars
  <2>4. ASSUME NEW c \in Configs, TestStep(c) PROVE tpr'[cfg'] = started'
    <3>1. UNCHANGED <<mpc, cfg>> /\ mpc = "wait" /\ cfg \in Configs
      <4>1. UNCHANGED mainVars
        BY <2>4 DEF TestStep, DiagStart, LoadReader, Drain, DrainEnds, SendNKE, SendUD2, WriteFails, WriteHangs, Receive,
           CtxDone, Fallback, FallbackFails
      <4>2. UNCHANGED <<mpc, cfg>>
        BY <4>1 DEF mainVars
      <4> QED
        BY <1>0, <1>3, <4>2 DEF MainTyped, Configs
    <3>2. CASE c # cfg
      <4>1. tpc'[cfg] = tpc[cfg]
        BY <2>4, <3>1, <3>2, TestGoes
      <4>2. tpr'[cfg] = tpr[cfg]
        BY <1>0, <2>4, <3>1, <3>2 DEF TestStep, DiagStart, LoadReader, Drain, DrainEnds, SendNKE, SendUD2, WriteFails,
           WriteHangs, Receive, CtxDone, Fallback, FallbackFails, testVars
      <4> QED
        BY <1>3, <2>1, <3>1, <4>1, <4>2 DEF Newest
    <3>3. CASE c = cfg
      <4>1. CASE LoadReader(cfg)
        <5>1. pipeRd # nil
          BY <1>0, <1>3, <3>1, <4>1 DEF LoadReader, Loaded
        <5>2. tpr'[cfg] = pipeRd
          BY <1>0, <3>1, <4>1, <5>1 DEF LoadReader
        <5> QED
          BY <2>1, <3>1, <5>1, <5>2 DEF Newest
      <4>2. CASE ~LoadReader(cfg)
        <5>1. UNCHANGED tpr /\ tpc[cfg] \in Loaded
          BY <1>0, <1>3, <2>4, <3>1, <3>3, <4>2 DEF TestStep, DiagStart, Drain, DrainEnds, SendNKE, SendUD2, WriteFails,
             WriteHangs, Receive, CtxDone, Fallback, FallbackFails, testVars, TestGoto, Finish, Loaded
        <5> QED
          BY <2>1, <3>1, <5>1 DEF Newest
      <4> QED
        BY <4>1, <4>2
    <3> QED
      BY <3>2, <3>3
  <2>5. ~Spawn
    <3> SUFFICES ASSUME Spawn PROVE FALSE
      OBVIOUS
    <3>1. cfg' = cfg /\ cfg \in Configs /\ tpc' = [tpc EXCEPT ![cfg] = "start"]
      BY <1>0 DEF Spawn, MainTyped, Configs
    <3>2. tpc'[cfg'] = "start"
      BY <1>0, <3>1
    <3> QED
      BY <1>3, <3>2 DEF Loaded
  <2>6. CASE MainStep
    BY <1>3, <2>3, <2>5, <2>6 DEF MainStep, OpenClient, Notify, OpenFails, StartReader, FirstConfig, Reconfigure,
       ReconfigureFails, Relaunch, TakeResult, HardTimeout, Record, Return, MainClosePort, Output, CloserStep,
       CloserCheck, CloserCall, CloserSelect, CloserClose, CloserClearReader, CloserClearCancel
  <2>7. CASE Deliver \/ Interrupt \/ SigStep \/ (\E r \in Readers : ReaderRuns(r)) \/ UNCHANGED allVars
    BY <2>3, <2>7 DEF Deliver, Interrupt, SigStep, SigReceive, SigGone, SigClosePort, SigExit, CloserStep, CloserCheck, CloserCall,
       CloserSelect, CloserClose, CloserClearReader, CloserClearCancel, ReaderRuns, diagVars, allVars
  <2> QED
    BY <2>4, <2>6, <2>7 DEF DiagnoseNext
<1> QED
  BY <1>2, <1>3 DEF Newest
-----------------------------------------------------------------------------
(* What is under way.                                                      *)

\* What the newest reader has, and all that a test may still get.
Served == IF started = 0 THEN 0 ELSE Len(buf[started]) + Len(ch[started])
Pending == Len(replies) + (Len(rx) + Served)

\* An answer is of the configuration the port is set to.
Fits(kind, c) ==
  /\ kind = "E5" => device[c] # "none"
  /\ kind = "frame" => device[c] = "full"
Fresh(b) == b \in 1 .. arrived /\ Fits(wire[b], mode)
Clean(s) == \A k \in 1 .. Len(s) : Fresh(s[k])
AllFresh ==
  /\ \A k \in 1 .. Len(replies) : Fits(replies[k].kind, replies[k].mode)
  /\ Clean(rx)
  /\ started # 0 => Clean(buf[started]) /\ Clean(ch[started])

\* A test has at most one answer before it, and leaves none behind.
Awaiting == mpc = "wait" /\ tpc[cfg] \in {"ack", "data"}
LineQuiet == port # "closed" => Pending <= IF Awaiting THEN 1 ELSE 0

\* Sums of numbers.
LEMMA Sums == \A k, m, n \in Nat : k + m \in Nat /\ k + (m + n) \in Nat /\ k + (m + n) <= k + (m + n)
OBVIOUS

\* The lengths are numbers.
LEMMA PendingTyped ==
  ASSUME DiagnoseTyping
  PROVE  /\ started \in Nat /\ (started # 0 => started \in Readers)
         /\ Len(replies) \in Nat /\ Len(rx) \in Nat /\ Served \in Nat /\ Pending \in Nat
         /\ started # 0 => Len(buf[started]) \in Nat /\ Len(ch[started]) \in Nat
         /\ rx \in Seq(Bytes)
         /\ \A r \in Readers : buf[r] \in Seq(Bytes) /\ ch[r] \in Seq(Bytes)
<1>1. /\ started \in Nat /\ (started # 0 => started \in Readers)
      /\ rx \in Seq(Bytes)
      /\ \A r \in Readers : buf[r] \in Seq(Bytes) /\ ch[r] \in Seq(Bytes)
  <2>1. TypeOK
    BY DEF DiagnoseTyping, IInv
  <2>2. started \in 0 .. MaxReaders
    BY <2>1 DEF TypeOK
  <2>3. started \in Nat /\ (started # 0 => started \in Readers)
    BY <2>2
  <2> QED
    BY <2>1, <2>3 DEF TypeOK
<1>2. /\ Len(replies) \in Nat /\ Len(rx) \in Nat
      /\ started # 0 => Len(buf[started]) \in Nat /\ Len(ch[started]) \in Nat
  BY <1>1 DEF DiagnoseTyping, LineTyped
<1>3. Served \in Nat
  <2>1. CASE started = 0
    BY <2>1 DEF Served
  <2>2. CASE started # 0
    <3> DEFINE p == Len(buf[started])
               q == Len(ch[started])
    <3>1. p \in Nat /\ q \in Nat /\ Served = p + q
      BY <1>2, <2>2 DEF Served
    <3> HIDE DEF p, q
    <3> QED
      BY <3>1
  <2> QED
    BY <2>1, <2>2
<1> HIDE DEF Served
<1> QED
  BY <1>1, <1>2, <1>3 DEF Pending

\* A reader moves what is under way, or drops it.
LEMMA ReaderMoves ==
  ASSUME PipeAssumption, DiagnoseTyping, NEW r \in Readers, ReaderStep(r)
  PROVE  /\ UNCHANGED <<started, port, arrived>> /\ started # 0
         /\ Len(rx') + (Len(buf'[started]) + Len(ch'[started])) <= Len(rx) + (Len(buf[started]) + Len(ch[started]))
         /\ Clean(rx) /\ Clean(buf[started]) /\ Clean(ch[started]) =>
              Clean(rx') /\ Clean(buf'[started]) /\ Clean(ch'[started])
<1>1. /\ TypeOK /\ r <= started /\ started \in Nat /\ started # 0 /\ started \in Readers
      /\ Len(rx) \in Nat /\ Len(buf[started]) \in Nat /\ Len(ch[started]) \in Nat
  <2>1. pc[r] # "off"
    BY DEF ReaderStep, ReaderCheck, ReaderRead, ReaderTimeout, ReaderFail, ReaderPush, ReaderAbandon
  <2>2. ~(r > started) /\ started \in Nat
    BY <2>1 DEF DiagnoseTyping, IInv, TypeOK, Unstarted
  <2>3. r <= started /\ started # 0
    BY <2>2
  <2> QED
    BY <2>3, PendingTyped DEF DiagnoseTyping, IInv
<1>2. UNCHANGED <<started, port, arrived>>
  BY DEF ReaderStep, ReaderCheck, ReaderRead, ReaderTimeout, ReaderFail, ReaderPush, ReaderAbandon, clientVars
<1>3. CASE ReaderCheck(r) \/ ReaderTimeout(r) \/ ReaderFail(r)
  <2>1. UNCHANGED <<rx, buf, ch>>
    BY <1>3 DEF ReaderCheck, ReaderTimeout, ReaderFail
  <2> QED
    BY <1>1, <1>2, <2>1
<1>4. CASE ReaderRead(r)
  <2> DEFINE c == SubSeq(rx, 1, Chunk)
             d == SubSeq(rx, Chunk + 1, Len(rx))
  <2>1. rx # <<>> /\ rx' = d /\ buf' = [buf EXCEPT ![r] = c] /\ ch' = ch /\ buf[r] = <<>>
    BY <1>1, <1>4 DEF ReaderRead, TypeOK
  <2>2. /\ Chunk \in 1 .. Len(rx) /\ Len(c) = Chunk /\ Len(d) = Len(rx) - Chunk
        /\ \A k \in 1 .. Chunk : c[k] = rx[k]
        /\ \A k \in 1 .. Len(rx) - Chunk : d[k] = rx[Chunk + k]
    <3>1. rx \in Seq(Bytes)
      BY PendingTyped
    <3> QED
      BY <2>1, <3>1, ChunkFacts
  <2> HIDE DEF c, d
  <2>3. Chunk \in Nat /\ Len(c) = Chunk /\ Len(d) = Len(rx) - Chunk /\ Chunk <= Len(rx)
    BY <1>1, <2>2
  <2>4. buf'[started] = IF r = started THEN c ELSE buf[started]
    BY <1>1, <2>1 DEF TypeOK
  <2>5. Len(rx') + (Len(buf'[started]) + Len(ch'[started])) <= Len(rx) + (Len(buf[started]) + Len(ch[started]))
    <3>1. CASE r = started
      <4>1. Len(buf'[started]) = Chunk /\ Len(buf[started]) = 0 /\ Len(rx') = Len(rx) - Chunk /\ ch' = ch
        BY <2>1, <2>3, <2>4, <3>1
      <4> QED
        BY <1>1, <2>3, <4>1
    <3>2. CASE r # started
      <4> DEFINE l == Len(rx)
                 m == Len(buf[started]) + Len(ch[started])
      <4>1. Len(buf'[started]) + Len(ch'[started]) = m /\ Len(rx') = l - Chunk
        BY <2>1, <2>3, <2>4, <3>2
      <4>2. l \in Nat /\ m \in Nat
        BY <1>1, Sums, Zenon
      <4> HIDE DEF l, m
      <4>3. l - Chunk + m <= l + m
        BY <2>3, <4>2
      <4> QED
        BY <4>1, <4>3 DEF l, m
    <3> QED
      BY <3>1, <3>2
  <2>6. ASSUME Clean(rx) PROVE Clean(c) /\ Clean(d)
    <3>1. ASSUME NEW k \in 1 .. Len(c) PROVE Fresh(c[k])
      <4>1. c[k] = rx[k] /\ k \in 1 .. Len(rx)
        BY <1>1, <2>2, <2>3
      <4> QED
        BY <2>6, <4>1 DEF Clean
    <3>2. ASSUME NEW k \in 1 .. Len(d) PROVE Fresh(d[k])
      <4>1. d[k] = rx[Chunk + k] /\ Chunk + k \in 1 .. Len(rx)
        BY <1>1, <2>2, <2>3
      <4> QED
        BY <2>6, <4>1 DEF Clean
    <3> QED
      BY <3>1, <3>2 DEF Clean
  <2> QED
    BY <1>1, <1>2, <2>1, <2>4, <2>5, <2>6
<1>5. CASE ReaderPush(r)
  <2>1. /\ buf[r] # <<>> /\ rx' = rx /\ buf' = [buf EXCEPT ![r] = Tail(buf[r])]
        /\ ch' = [ch EXCEPT ![r] = Append(ch[r], Head(buf[r]))]
    BY <1>1, <1>5 DEF ReaderPush, TypeOK
  <2>2. CASE r # started
    <3>1. buf'[started] = buf[started] /\ ch'[started] = ch[started] /\ rx' = rx
      BY <1>1, <2>1, <2>2 DEF TypeOK
    <3>2. Len(rx) + (Len(buf[started]) + Len(ch[started])) <= Len(rx) + (Len(buf[started]) + Len(ch[started]))
      BY <1>1, Sums, Zenon
    <3>5. Len(rx') + (Len(buf'[started]) + Len(ch'[started])) <= Len(rx) + (Len(buf[started]) + Len(ch[started]))
      BY <3>1, <3>2
    <3> QED
      BY <1>1, <1>2, <3>1, <3>5
  <2>3. CASE r = started
    <3> DEFINE b == buf[r]
               q == ch[r]
               t == Tail(b)
               a == Append(q, Head(b))
    <3>1. b \in Seq(Bytes) /\ q \in Seq(Bytes) /\ b # <<>>
      BY <2>1, PendingTyped
    <3>2. buf'[started] = t /\ ch'[started] = a
      BY <1>1, <2>1, <2>3 DEF TypeOK
    <3>3. buf[started] = b /\ ch[started] = q
      BY <2>3
    <3> HIDE DEF b, q
    <3>4. Head(b) \in Bytes /\ Len(b) \in Nat \ {0} /\ Len(t) = Len(b) - 1 /\ Head(b) = b[1]
          /\ \A k \in 1 .. Len(t) : t[k] = b[k + 1]
      BY <3>1, TailFacts
    <3>5. Len(a) = Len(q) + 1 /\ a[Len(q) + 1] = Head(b) /\ \A k \in 1 .. Len(q) : a[k] = q[k]
      BY <3>1, <3>4, AppendFacts
    <3> HIDE DEF t, a
    <3>6. Len(q) \in Nat
      BY <3>1
    <3>7. Len(t) + Len(a) = Len(b) + Len(q)
      BY <3>4, <3>5, <3>6
    <3>8. ASSUME Clean(b), Clean(q) PROVE Clean(t) /\ Clean(a)
      <4>1. ASSUME NEW k \in 1 .. Len(t) PROVE Fresh(t[k])
        <5>1. t[k] = b[k + 1] /\ k + 1 \in 1 .. Len(b)
          BY <3>4
        <5> QED
          BY <3>8, <5>1 DEF Clean
      <4>2. ASSUME NEW k \in 1 .. Len(a) PROVE Fresh(a[k])
        <5>1. CASE k \in 1 .. Len(q)
          BY <3>5, <3>8, <5>1 DEF Clean
        <5>2. CASE k = Len(q) + 1
          <6>1. a[k] = b[1] /\ 1 \in 1 .. Len(b)
            BY <3>4, <3>5, <5>2
          <6> QED
            BY <3>8, <6>1 DEF Clean
        <5>3. k \in 1 .. Len(q) \/ k = Len(q) + 1
          BY <3>5, <3>6
        <5> QED
          BY <5>1, <5>2, <5>3
      <4> QED
        BY <4>1, <4>2 DEF Clean
    <3>9. Len(rx') + (Len(t) + Len(a)) <= Len(rx) + (Len(b) + Len(q))
      BY <1>1, <2>1, <3>3, <3>7
    <3> QED
      BY <1>1, <1>2, <2>1, <3>2, <3>3, <3>8, <3>9
  <2> QED
    BY <2>2, <2>3
<1>6. CASE ReaderAbandon(r)
  <2>1. rx' = rx /\ ch' = ch /\ buf' = [buf EXCEPT ![r] = <<>>]
    BY <1>6 DEF ReaderAbandon
  <2>2. buf'[started] = buf[started] \/ buf'[started] = <<>>
    BY <1>1, <2>1 DEF TypeOK
  <2>3. Clean(<<>>) /\ Len(<<>>) = 0
    BY DEF Clean
  <2>4. Len(buf'[started]) <= Len(buf[started]) /\ Len(buf'[started]) \in Nat
    BY <1>1, <2>2, <2>3
  <2>5. Len(rx') + (Len(buf'[started]) + Len(ch'[started])) <= Len(rx) + (Len(buf[started]) + Len(ch[started]))
    BY <1>1, <2>1, <2>4
  <2> QED
    BY <1>1, <1>2, <2>1, <2>2, <2>3, <2>5
<1> QED
  BY <1>3, <1>4, <1>5, <1>6 DEF ReaderStep

\* What a launched reader has: nothing.
LEMMA LaunchedEmpty ==
  ASSUME PipeAssumption, DiagnoseTyping, Launch, UNCHANGED <<buf, ch>>
  PROVE  started' # 0 /\ buf'[started'] = <<>> /\ ch'[started'] = <<>>
<1>1. IInv /\ started + 1 \in Readers /\ started' = started + 1 /\ started \in Nat
  BY LaunchTyping, PendingTyped DEF DiagnoseTyping, Launch
<1>2. started + 1 > started /\ started + 1 # 0
  BY <1>1
<1>3. pc[started + 1] = "off" /\ ch[started + 1] = <<>> /\ buf[started + 1] = <<>>
  <2>1. pc[started + 1] = "off" /\ ch[started + 1] = <<>>
    BY <1>1, <1>2 DEF IInv, Unstarted
  <2>2. pc[started + 1] # "push"
    BY <2>1
  <2> QED
    BY <1>1, <2>1, <2>2 DEF IInv, TypeOK
<1> QED
  BY <1>1, <1>2, <1>3

\* What a test that takes a byte leaves, when it has the newest reader.
LEMMA TakenFromNewest ==
  ASSUME DiagnoseTyping, NEW c \in Configs, Takes(c), tpr[c] = started
  PROVE  /\ started # 0 /\ ch[started] # <<>> /\ ch[started] \in Seq(Bytes)
         /\ Len(ch[started]) \in Nat \ {0}
         /\ ch'[started] = Tail(ch[started]) /\ Len(ch'[started]) = Len(ch[started]) - 1
         /\ \A k \in 1 .. Len(ch'[started]) : ch'[started][k] = ch[started][k + 1] /\ k + 1 \in 1 .. Len(ch[started])
         /\ Head(ch[started]) = ch[started][1] /\ 1 \in 1 .. Len(ch[started])
<1>1. started # 0 /\ started \in Readers /\ ch[started] \in Seq(Bytes)
  BY PendingTyped DEF DiagnoseTyping, TestsTyped, Takes
<1>2. ch[started] # <<>> /\ ch' = [ch EXCEPT ![started] = Tail(ch[started])] /\ ch \in [Readers -> Seq(Bytes)]
  BY DEF Takes, TakeFrom, DiagnoseTyping, IInv, TypeOK
<1>3. ch'[started] = Tail(ch[started])
  BY <1>1, <1>2
<1> DEFINE q == ch[started]
<1>4. /\ Len(q) \in Nat \ {0} /\ Len(Tail(q)) = Len(q) - 1 /\ Head(q) = q[1]
      /\ \A k \in 1 .. Len(Tail(q)) : Tail(q)[k] = q[k + 1]
  BY <1>1, <1>2, TailFacts
<1>5. \A k \in 1 .. Len(q) - 1 : k + 1 \in 1 .. Len(q)
  BY <1>4
<1> QED
  BY <1>1, <1>2, <1>3, <1>4, <1>5

\* Nothing comes to what is under way but the answer to a request.
LEMMA Flow ==
  ASSUME PipeAssumption, DiagnoseTyping, [DiagnoseNext]_allVars
  PROVE  \/ Pending' <= Pending
         \/ \E c \in Configs : (SendNKE(c) \/ SendUD2(c)) /\ Pending' <= Pending + 1
<1>0. /\ Len(replies) \in Nat /\ Len(rx) \in Nat /\ Served \in Nat /\ Pending \in Nat
      /\ started \in Nat /\ rx \in Seq(Bytes) /\ replies \in Seq(Replies)
  BY PendingTyped DEF DiagnoseTyping, LineTyped
<1>1. CASE UNCHANGED <<replies, rx, started, buf, ch>>
  <2>1. Pending' = Pending
    BY <1>1 DEF Pending, Served
  <2> QED
    BY <1>0, <2>1
<1>2. CASE Deliver
  <2>1. /\ replies # <<>> /\ replies' = Tail(replies) /\ rx' = Append(rx, arrived + 1)
        /\ UNCHANGED <<started, buf, ch>>
    BY <1>2 DEF Deliver, Arrive, clientVars, readerVars
  <2>2. Len(replies') = Len(replies) - 1
    BY <1>0, <2>1, TailFacts
  <2>3. Len(rx') = Len(rx) + 1
    BY <1>0, <2>1
  <2>4. Served' = Served
    BY <2>1 DEF Served
  <2> DEFINE k == Len(replies)
             m == Len(rx)
  <2>5. Pending' = (k - 1) + ((m + 1) + Served) /\ Pending = k + (m + Served) /\ k \in Nat /\ m \in Nat
    BY <1>0, <2>2, <2>3, <2>4 DEF Pending
  <2> HIDE DEF k, m
  <2> QED
    BY <1>0, <2>5
<1>3. CASE (Open \/ Launches) /\ UNCHANGED replies
  <2>1. Launch /\ UNCHANGED <<buf, ch, rx>>
    BY <1>3 DEF Open, Launches
  <2>2. Served' = 0
    <3>1. started' # 0 /\ buf'[started'] = <<>> /\ ch'[started'] = <<>>
      BY <2>1, LaunchedEmpty
    <3>2. Len(buf'[started']) + Len(ch'[started']) = 0
      BY <3>1
    <3> QED
      BY <3>1, <3>2 DEF Served
  <2>3. Pending' = Len(replies) + (Len(rx) + 0)
    BY <1>3, <2>1, <2>2 DEF Pending
  <2> DEFINE k == Len(replies)
             m == Len(rx)
  <2>4. Pending' = k + (m + 0) /\ Pending = k + (m + Served) /\ k \in Nat /\ m \in Nat
    BY <1>0, <2>3 DEF Pending
  <2> HIDE DEF k, m
  <2> QED
    BY <1>0, <2>4
<1>4. ASSUME NEW c \in Configs, Takes(c), UNCHANGED replies PROVE Pending' <= Pending
  <2>1. UNCHANGED <<rx, started, buf>> /\ ch' = [ch EXCEPT ![tpr[c]] = Tail(@)]
    BY <1>4 DEF Takes, TakeFrom
  <2>2. CASE tpr[c] = started
    <3>1. /\ started # 0 /\ Len(ch'[started]) = Len(ch[started]) - 1 /\ Len(ch[started]) \in Nat \ {0}
          /\ Len(buf[started]) \in Nat
      BY <1>4, <2>2, TakenFromNewest, PendingTyped
    <3> DEFINE k == Len(replies) m == Len(rx) p == Len(buf[started]) q == Len(ch[started])
    <3>2. Served' = p + (q - 1) /\ Served = p + q
      BY <2>1, <3>1 DEF Served
    <3>3. Pending' = k + (m + Served') /\ Pending = k + (m + Served) /\ k \in Nat /\ m \in Nat /\ p \in Nat /\ q \in Nat
      BY <1>0, <1>4, <2>1, <3>1 DEF Pending
    <3> HIDE DEF k, m, p, q
    <3> QED
      BY <3>2, <3>3
  <2>3. CASE tpr[c] # started
    <3>1. started # 0 => ch'[started] = ch[started]
      BY <2>1, <2>3, PendingTyped DEF DiagnoseTyping, IInv, TypeOK
    <3>2. Served' = Served
      <4>1. CASE started = 0
        BY <2>1, <4>1 DEF Served
      <4>2. CASE started # 0
        <5>1. ch'[started] = ch[started] /\ started' = started /\ buf' = buf /\ started' # 0
          BY <2>1, <3>1, <4>2
        <5>2. Served' = Len(buf'[started']) + Len(ch'[started'])
          BY <5>1 DEF Served
        <5>3. Served = Len(buf[started]) + Len(ch[started])
          BY <4>2 DEF Served
        <5> QED
          BY <5>1, <5>2, <5>3
      <4> QED
        BY <4>1, <4>2
    <3>3. Pending' = Pending
      BY <1>4, <2>1, <3>2 DEF Pending
    <3> QED
      BY <1>0, <3>3
  <2> QED
    BY <2>2, <2>3
<1>5. ASSUME NEW r \in Readers, ReaderStep(r), UNCHANGED replies PROVE Pending' <= Pending
  <2>1. /\ started' = started /\ started # 0
        /\ Len(rx') + (Len(buf'[started]) + Len(ch'[started])) <= Len(rx) + (Len(buf[started]) + Len(ch[started]))
    BY <1>5, ReaderMoves
  <2>2. DiagnoseTyping /\ IInv'
    BY <1>5, ReaderTyping DEF DiagnoseTyping
  <2>3. Len(rx') \in Nat /\ Len(buf'[started]) \in Nat /\ Len(ch'[started]) \in Nat
    <3>1. started \in Readers
      BY <2>1, PendingTyped
    <3> QED
      BY SMTT(60), <2>2, <3>1 DEF IInv, TypeOK
  <2>4. Len(buf[started]) \in Nat /\ Len(ch[started]) \in Nat
    BY <2>1, PendingTyped
  <2> DEFINE k == Len(replies)
             m == Len(rx) + (Len(buf[started]) + Len(ch[started]))
             n == Len(rx') + (Len(buf'[started]) + Len(ch'[started]))
  <2>5. Pending = k + m /\ Pending' = k + n
    BY <1>5, <2>1 DEF Pending, Served
  <2>6. k \in Nat /\ m \in Nat /\ n \in Nat
    BY <1>0, <2>3, <2>4, Sums, Zenon
  <2>7. n <= m
    BY <2>1
  <2> HIDE DEF k, m, n
  <2>8. k + n <= k + m
    BY <2>6, <2>7
  <2> QED
    BY <2>5, <2>8
<1>6. ASSUME NEW c \in Configs, SendNKE(c) \/ SendUD2(c) PROVE Pending' <= Pending + 1
  <2>1. UNCHANGED <<rx, started, buf, ch>>
    BY <1>6 DEF SendNKE, SendUD2, vars
  <2>2. Len(replies') \in {Len(replies), Len(replies) + 1}
    <3>1. replies' = replies \/ \E e : replies' = Append(replies, e)
      BY <1>6 DEF SendNKE, SendUD2, Answer
    <3> QED
      BY <1>0, <3>1
  <2>3. Served' = Served
    BY <2>1 DEF Served
  <2> DEFINE k == Len(replies)
             m == Len(rx)
  <2>4. (Pending' = k + (m + Served) \/ Pending' = (k + 1) + (m + Served)) /\ Pending = k + (m + Served)
        /\ k \in Nat /\ m \in Nat
    BY <1>0, <2>1, <2>2, <2>3 DEF Pending
  <2> HIDE DEF k, m
  <2> QED
    BY <1>0, <2>4
<1>7. UNCHANGED replies \/ Deliver \/ \E c \in Configs : SendNKE(c) \/ SendUD2(c)
  <2>1. CASE MainStep \/ Interrupt \/ SigStep \/ (\E r \in Readers : ReaderRuns(r)) \/ UNCHANGED allVars
    BY <2>1 DEF MainStep, OpenClient, Notify, OpenFails, StartReader, FirstConfig, Reconfigure,
       ReconfigureFails, Relaunch, Spawn, TakeResult, HardTimeout, Return, MainClosePort, Output, CloserStep,
       CloserCheck, CloserCall, CloserSelect, CloserClose, CloserClearReader, CloserClearCancel, Interrupt, SigStep, SigReceive, SigGone, SigClosePort, SigExit,
       ReaderRuns, diagVars, allVars, lineVars
  <2>2. ASSUME NEW c \in Configs, TestStep(c), ~SendNKE(c), ~SendUD2(c) PROVE UNCHANGED replies
    BY <2>2 DEF TestStep, DiagStart, LoadReader, Drain, DrainEnds, WriteFails, WriteHangs, Receive, CtxDone,
       Fallback, FallbackFails, lineVars
  <2> QED
    BY <2>1, <2>2 DEF DiagnoseNext
<1>8. CASE UNCHANGED replies
  <2>1. CASE Quiescent \/ Forgets \/ Shuts \/ (\E a \in Closers : Cancels(a))
    BY <1>1, <1>8, <2>1 DEF Quiescent, Forgets, Shuts, Cancels, vars, readerVars
  <2> QED
    BY <1>2, <1>3, <1>4, <1>5, <1>8, <2>1, PipeSteps
<1> QED
  BY <1>2, <1>6, <1>7, <1>8

\* When nothing is under way, all of it is fresh.
LEMMA NothingPending ==
  ASSUME DiagnoseTyping, Pending = 0
  PROVE  /\ Len(replies) = 0 /\ Len(rx) = 0
         /\ started # 0 => Len(buf[started]) = 0 /\ Len(ch[started]) = 0
<1>1. Len(replies) \in Nat /\ Len(rx) \in Nat /\ Served \in Nat
  BY PendingTyped
<1> DEFINE k == Len(replies)
           m == Len(rx)
<1>2. k + (m + Served) = 0 /\ k \in Nat /\ m \in Nat
  BY <1>1 DEF Pending
<1> HIDE DEF k, m
<1>3. k = 0 /\ m = 0 /\ Served = 0
  BY <1>1, <1>2
<1>4. ASSUME started # 0 PROVE Len(buf[started]) = 0 /\ Len(ch[started]) = 0
  <2> DEFINE p == Len(buf[started])
             q == Len(ch[started])
  <2>1. p \in Nat /\ q \in Nat /\ p + q = 0
    BY <1>3, <1>4, PendingTyped DEF Served
  <2> HIDE DEF p, q
  <2>2. p = 0 /\ q = 0
    BY <2>1
  <2> QED
    BY <2>2 DEF p, q
<1> QED
  BY <1>3, <1>4 DEF k, m

\* Between the tests nothing is under way.
LEMMA QuietBetween ==
  ASSUME DiagnoseTyping, LineQuiet, port # "closed", ~Awaiting
  PROVE  Pending = 0
<1>1. Pending \in Nat /\ Pending <= 0
  BY PendingTyped DEF LineQuiet
<1> QED
  BY <1>1

\* Bytes that were fresh are fresh after a step that leaves the mode alone.
LEMMA CleanKept ==
  ASSUME UNCHANGED <<device, mode>>, arrived \in Nat, arrived' \in {arrived, arrived + 1},
         \A b \in 1 .. arrived : wire'[b] = wire[b]
  PROVE  /\ Clean(rx') => Clean(rx)'
         /\ Clean(buf'[started']) => Clean(buf[started])'
         /\ Clean(ch'[started']) => Clean(ch[started])'
<1>1. ASSUME NEW b, Fresh(b)
      PROVE  b \in 1 .. arrived' /\ (wire'[b] = "E5" => device'[mode'] # "none") /\ (wire'[b] = "frame" => device'[mode'] = "full")
  BY <1>1 DEF Fresh, Fits
<1> QED
  BY <1>1 DEF Clean, Fresh, Fits

\* What is under way stays fresh.
LEMMA FreshStep ==
  ASSUME PipeAssumption, DiagnoseAssumption, DiagnoseTyping, LineQuiet, AllFresh, [DiagnoseNext]_allVars
  PROVE  AllFresh'
<1>0. /\ device' = device /\ replies \in Seq(Replies) /\ wire \in Seq(Kinds) /\ Len(wire) = arrived /\ arrived \in Nat
      /\ rx \in Seq(Bytes) /\ started \in Nat /\ Len(rx) \in Nat
  BY LineSteps, PendingTyped DEF DiagnoseTyping, LineTyped, IInv, TypeOK
<1>1. ASSUME \A k \in 1 .. Len(replies') : Fits(replies'[k].kind, replies'[k].mode),
             Clean(rx)', started' # 0 => Clean(buf[started])' /\ Clean(ch[started])'
      PROVE  AllFresh'
  BY <1>0, <1>1 DEF AllFresh, Fits
<1>2. CASE Deliver
  <2> DEFINE kind == IF Head(replies).mode = mode THEN Head(replies).kind ELSE "junk"
             q == Tail(replies)
             a == Append(rx, arrived + 1)
  <2>1. /\ replies # <<>> /\ replies' = q /\ wire' = Append(wire, kind) /\ mode' = mode
        /\ arrived' = arrived + 1 /\ rx' = a /\ UNCHANGED <<started, buf, ch>>
    BY <1>2 DEF Deliver, Arrive, clientVars, readerVars
  <2>2. /\ Head(replies) = replies[1] /\ Len(replies) \in Nat \ {0} /\ Len(q) = Len(replies) - 1
        /\ \A k \in 1 .. Len(q) : q[k] = replies[k + 1]
        /\ Head(replies) \in Replies
    BY <1>0, <2>1, TailFacts
  <2>3. Len(a) = Len(rx) + 1 /\ a[Len(rx) + 1] = arrived + 1 /\ \A k \in 1 .. Len(rx) : a[k] = rx[k]
    BY <1>0
  <2> HIDE DEF q, a
  <2>4. ASSUME NEW k \in 1 .. Len(q) PROVE Fits(q[k].kind, q[k].mode)
    <3>1. q[k] = replies[k + 1] /\ k + 1 \in 1 .. Len(replies)
      BY <2>2
    <3> QED
      BY <3>1 DEF AllFresh
  <2>5. Fits(kind, mode)
    <3>1. 1 \in 1 .. Len(replies)
      BY <2>2
    <3>2. Fits(Head(replies).kind, Head(replies).mode)
      BY <2>2, <3>1 DEF AllFresh
    <3>3. Fits("junk", mode)
      BY DEF Fits
    <3> QED
      BY <3>2, <3>3
  <2>6. kind \in Kinds
    BY <2>2 DEF Kinds, Replies
  <2> HIDE DEF kind
  <2>7. wire'[arrived + 1] = kind /\ \A b \in 1 .. arrived : wire'[b] = wire[b]
    BY <1>0, <2>1, <2>6, AppendFacts
  <2>8. started' # 0 => Clean(buf[started])' /\ Clean(ch[started])'
    BY <1>0, <2>1, <2>7, CleanKept DEF AllFresh
  <2>9. ASSUME NEW k \in 1 .. Len(a)
        PROVE  a[k] \in 1 .. arrived + 1 /\ Fits(wire'[a[k]], mode)
    <3>1. CASE k \in 1 .. Len(rx)
      <4>1. Fresh(rx[k]) /\ a[k] = rx[k]
        BY <2>3, <3>1 DEF AllFresh, Clean
      <4> QED
        BY <1>0, <2>7, <4>1 DEF Fresh
    <3>2. CASE k = Len(rx) + 1
      <4>1. a[k] = arrived + 1 /\ arrived + 1 \in 1 .. arrived + 1
        BY <1>0, <2>3, <3>2
      <4> QED
        BY <2>5, <2>7, <4>1
    <3>3. k \in 1 .. Len(rx) \/ k = Len(rx) + 1
      BY <1>0, <2>3
    <3> QED
      BY <3>1, <3>2, <3>3
  <2>10. Clean(rx)'
    BY <1>0, <2>1, <2>9 DEF Clean, Fresh, Fits
  <2> QED
    BY <1>1, <2>1, <2>4, <2>8, <2>10
<1>3. ASSUME UNCHANGED <<arrived, wire, mode>>,
             Clean(rx'), started' # 0 => Clean(buf'[started']) /\ Clean(ch'[started'])
      PROVE  Clean(rx)' /\ (started' # 0 => Clean(buf[started])' /\ Clean(ch[started])')
  BY <1>0, <1>3, CleanKept
<1>4. CASE Reconfigure
  <2>1. port = "open" /\ ~Awaiting /\ UNCHANGED <<replies, rx, started, buf, ch>>
    BY <1>4 DEF Reconfigure, Awaiting, vars
  <2>2. Pending = 0
    BY <2>1, QuietBetween
  <2>3. Len(replies) = 0 /\ Len(rx) = 0 /\ (started # 0 => Len(buf[started]) = 0 /\ Len(ch[started]) = 0)
    BY <2>2, NothingPending
  <2>4. Len(replies') = 0 /\ Len(rx') = 0 /\ (started' # 0 => Len(buf'[started']) = 0 /\ Len(ch'[started']) = 0)
    BY <2>1, <2>3
  <2>5. Clean(rx)' /\ (started' # 0 => Clean(buf[started])' /\ Clean(ch[started])')
    BY <2>4 DEF Clean
  <2> QED
    BY <1>1, <2>4, <2>5
<1>5. CASE ~Deliver /\ ~Reconfigure
  <2>1. UNCHANGED <<arrived, wire, mode>>
    BY <1>5, LineSteps
  <2>2. \A k \in 1 .. Len(replies') : Fits(replies'[k].kind, replies'[k].mode)
    <3>1. CASE UNCHANGED replies
      BY <3>1 DEF AllFresh
    <3>2. ASSUME NEW kind, Answer(kind), Fits(kind, mode), kind \in {"E5", "frame"}
          PROVE  \A k \in 1 .. Len(replies') : Fits(replies'[k].kind, replies'[k].mode)
      <4> DEFINE e == [kind |-> kind, mode |-> mode]
      <4>1. e \in Replies /\ e.kind = kind /\ e.mode = mode
        BY <3>2 DEF Replies, DiagnoseTyping, LineTyped
      <4>2. replies' = Append(replies, e)
        BY <3>2 DEF Answer
      <4> HIDE DEF e
      <4>3. Len(replies') = Len(replies) + 1 /\ replies'[Len(replies) + 1] = e /\ Len(replies) \in Nat
            /\ \A k \in 1 .. Len(replies) : replies'[k] = replies[k]
        BY <1>0, <4>1, <4>2, AppendFacts
      <4>4. ASSUME NEW k \in 1 .. Len(replies') PROVE Fits(replies'[k].kind, replies'[k].mode)
        <5>1. k \in 1 .. Len(replies) \/ k = Len(replies) + 1
          BY <4>3
        <5> QED
          BY <3>2, <4>1, <4>3, <5>1 DEF AllFresh
      <4> QED
        BY <4>4
    <3>3. Fits("E5", mode) <=> device[mode] # "none"
      BY DEF Fits
    <3>4. Fits("frame", mode) <=> device[mode] = "full"
      BY DEF Fits
    <3> QED
      BY <1>5, <3>1, <3>2, <3>3, <3>4, LineSteps
  <2>3. Clean(rx') /\ (started' # 0 => Clean(buf'[started']) /\ Clean(ch'[started']))
    <3>1. CASE UNCHANGED <<rx, started, buf, ch>>
      BY <3>1 DEF AllFresh
    <3>2. CASE Quiescent \/ Forgets \/ Shuts \/ (\E a \in Closers : Cancels(a))
      BY <3>1, <3>2 DEF Quiescent, Forgets, Shuts, Cancels, vars, readerVars
    <3>3. CASE Open \/ Launches
      <4>1. Launch /\ UNCHANGED <<rx, buf, ch>>
        BY <3>3 DEF Open, Launches
      <4>2. buf'[started'] = <<>> /\ ch'[started'] = <<>>
        BY <4>1, LaunchedEmpty
      <4>3. Clean(<<>>)
        BY DEF Clean
      <4> QED
        BY <4>1, <4>2, <4>3 DEF AllFresh
    <3>4. ASSUME NEW c \in Configs, Takes(c)
          PROVE  Clean(rx') /\ (started' # 0 => Clean(buf'[started']) /\ Clean(ch'[started']))
      <4>1. UNCHANGED <<rx, started, buf>> /\ ch' = [ch EXCEPT ![tpr[c]] = Tail(@)]
        BY <3>4 DEF Takes, TakeFrom
      <4>2. CASE tpr[c] = started
        <5>1. started # 0 /\ \A k \in 1 .. Len(ch'[started]) : ch'[started][k] = ch[started][k + 1] /\ k + 1 \in 1 .. Len(ch[started])
          BY <3>4, <4>2, TakenFromNewest
        <5>2. Clean(ch'[started])
          BY <5>1 DEF AllFresh, Clean
        <5> QED
          BY <4>1, <5>1, <5>2 DEF AllFresh
      <4>3. CASE tpr[c] # started
        <5>1. started # 0 => ch'[started] = ch[started]
          BY <4>1, <4>3, PendingTyped DEF DiagnoseTyping, IInv, TypeOK
        <5> QED
          BY <4>1, <5>1 DEF AllFresh
      <4> QED
        BY <4>2, <4>3
    <3>5. ASSUME NEW r \in Readers, ReaderStep(r)
          PROVE  Clean(rx') /\ (started' # 0 => Clean(buf'[started']) /\ Clean(ch'[started']))
      BY <3>5, ReaderMoves DEF AllFresh
    <3> QED
      BY <1>5, <3>2, <3>3, <3>4, <3>5, PipeSteps
  <2> QED
    BY <1>1, <1>3, <2>1, <2>2, <2>3
<1> QED
  BY <1>2, <1>4, <1>5

\* A test that receives a byte has one answer less before it, and one that gives up
\* has none.
LEMMA AnswerTaken ==
  ASSUME DiagnoseTyping, Newest, Prompt, port # "closed", mpc = "wait", cfg \in Configs,
         Receive(cfg) \/ CtxDone(cfg), Pending <= 1
  PROVE  Pending' <= 0
<1>0. /\ tpc[cfg] \in {"ack", "data"} /\ tpc[cfg] \in Loaded /\ tpr[cfg] = started
      /\ started # 0 /\ started \in Readers /\ port = "open"
  <2>1. tpc[cfg] \in {"ack", "data"}
    BY DEF Receive, CtxDone
  <2>2. tpc[cfg] \in Loaded
    BY <2>1 DEF Loaded
  <2>3. tpr[cfg] = started /\ started # 0
    BY <2>2 DEF Newest, DiagnoseTyping, TestsTyped
  <2>4. port = "open"
    BY DEF DiagnoseTyping, MainTyped, IInv, TypeOK
  <2> QED
    BY <2>1, <2>2, <2>3, <2>4, PendingTyped
<1> DEFINE k == Len(replies) m == Len(rx) p == Len(buf[started]) q == Len(ch[started])
<1>1. k \in Nat /\ m \in Nat /\ p \in Nat /\ q \in Nat /\ Served = p + q /\ Pending = k + (m + Served)
  BY <1>0, PendingTyped DEF Served, Pending
<1>2. CASE Receive(cfg)
  <2>1. Takes(cfg) /\ UNCHANGED <<replies, rx, started, buf>>
    BY <1>0, <1>2 DEF Receive, Takes, lineVars
  <2>2. Len(ch'[started]) = Len(ch[started]) - 1
    BY <1>0, <2>1, TakenFromNewest
  <2>3. Served' = Len(buf'[started']) + Len(ch'[started'])
    BY <1>0, <2>1 DEF Served
  <2>4. Served' = p + (q - 1)
    BY <2>1, <2>2, <2>3
  <2>5. Pending' = k + (m + Served')
    BY <2>1 DEF Pending
  <2> HIDE DEF k, m, p, q
  <2> QED
    BY <1>1, <2>4, <2>5
<1>3. CASE CtxDone(cfg)
  <2>1. ~InFlight(cfg) /\ UNCHANGED <<replies, rx, started, buf, ch>>
    BY <1>3 DEF CtxDone, vars, lineVars
  <2>2. replies = <<>> /\ rx = <<>> /\ buf[started] = <<>> /\ ch[started] = <<>>
    BY <1>0, <2>1 DEF InFlight
  <2>3. k = 0 /\ m = 0 /\ p = 0 /\ q = 0
    BY <2>2
  <2>4. Pending' = Pending
    BY <2>1 DEF Pending, Served
  <2> HIDE DEF k, m, p, q
  <2> QED
    BY <1>1, <2>3, <2>4
<1> QED
  BY <1>2, <1>3

\* A number they are in the next state too.
LEMMA PendingTypedNext == ASSUME DiagnoseTyping' PROVE Pending' \in Nat
<1>1. started' \in Nat /\ (started' # 0 => started' \in Readers) /\ rx' \in Seq(Bytes) /\ replies' \in Seq(Replies)
      /\ \A r \in Readers : buf'[r] \in Seq(Bytes) /\ ch'[r] \in Seq(Bytes)
  <2>1. /\ started' \in 0 .. MaxReaders /\ rx' \in Seq(Bytes) /\ replies' \in Seq(Replies)
        /\ buf' \in [Readers -> Seq(Bytes)] /\ ch' \in [Readers -> Seq(Bytes)]
    BY DEF DiagnoseTyping, IInv, TypeOK, LineTyped
  <2>2. started' \in Nat /\ (started' # 0 => started' \in Readers)
    BY <2>1
  <2> QED
    BY <2>1, <2>2
<1> DEFINE k == Len(replies') m == Len(rx') p == Len(buf'[started']) q == Len(ch'[started'])
<1>2. k \in Nat /\ m \in Nat /\ (started' # 0 => p \in Nat /\ q \in Nat)
  BY <1>1
<1>3. Served' = IF started' = 0 THEN 0 ELSE p + q
  BY DEF Served
<1>4. Pending' = k + (m + Served')
  BY DEF Pending
<1> HIDE DEF k, m, p, q
<1>5. Served' \in Nat
  BY <1>2, <1>3
<1>6. \A x \in Nat : k + (m + x) \in Nat
  BY <1>2
<1>7. k + (m + Served') \in Nat
  BY <1>5, <1>6, Zenon
<1> QED
  BY <1>4, <1>7, Zenon

\* The line stays quiet: a test sends its next request when nothing is under way.
LEMMA QuietStep ==
  ASSUME PipeAssumption, DiagnoseAssumption, DiagnoseTyping, OneTest, Newest, LineQuiet, Prompt, ~LateWrites,
         [DiagnoseNext]_allVars
  PROVE  LineQuiet'
<1> SUFFICES ASSUME port' # "closed"
             PROVE  Pending' <= IF Awaiting' THEN 1 ELSE 0
  BY DEF LineQuiet
<1>1. port # "closed"
  BY PipeSteps DEF Quiescent, Deliver, Arrive, Open, Launches, Takes, Cancels, Forgets, Shuts, ReaderStep,
     ReaderCheck, ReaderRead, ReaderTimeout, ReaderFail, ReaderPush, ReaderAbandon, vars, clientVars
<1>2. Pending \in Nat /\ Pending <= 1 /\ (~Awaiting => Pending = 0)
  <2>1. Pending \in Nat
    BY PendingTyped
  <2>2. CASE Awaiting
    BY <1>1, <2>1, <2>2 DEF LineQuiet
  <2>3. CASE ~Awaiting
    BY <1>1, <2>1, <2>3, QuietBetween
  <2> QED
    BY <2>2, <2>3
<1>p. Pending' \in Nat
  BY PendingTypedNext, DiagnoseTypingStep, DiagnoseAssumption
<1>3. ASSUME NEW c \in Configs, TestStep(c) PROVE c = cfg /\ mpc = "wait" /\ UNCHANGED <<mpc, cfg>>
  <2>1. UNCHANGED <<mpc, cfg>>
    BY <1>3 DEF TestStep, DiagStart, LoadReader, Drain, DrainEnds, SendNKE, SendUD2, WriteFails, WriteHangs, Receive,
       CtxDone, Fallback, FallbackFails, mainVars
  <2> QED
    BY <1>1, <1>3, <2>1, TestActs
<1>4. ASSUME NEW c \in Configs, SendNKE(c) \/ SendUD2(c), Pending' <= Pending + 1
      PROVE  Pending' <= IF Awaiting' THEN 1 ELSE 0
  <2>1. c = cfg /\ mpc' = "wait" /\ cfg' = cfg
    BY <1>3, <1>4 DEF TestStep
  <2>2. tpc'[cfg] \in {"ack", "data"} /\ tpc[cfg] \in {"nke", "ud2"}
    BY <1>4, <2>1 DEF SendNKE, SendUD2, TestGoto, DiagnoseTyping, TestsTyped
  <2>3. Awaiting' /\ ~Awaiting
    BY <2>1, <2>2 DEF Awaiting
  <2>4. Pending' <= 1
    BY <1>2, <1>4, <2>3
  <2> QED
    BY <2>3, <2>4
<1>5. CASE Pending' <= Pending
  <2>1. CASE ~Awaiting
    <3>1. Pending' <= 0
      BY <1>2, <1>5, <2>1
    <3>2. Pending' <= 1
      BY <1>p, <3>1
    <3> QED
      BY <3>1, <3>2, Zenon
  <2>2. CASE Awaiting
    <3>1. ~MainStep
      BY <2>2 DEF Awaiting, MainStep, OpenClient, Notify, OpenFails, StartReader, FirstConfig, Reconfigure, ReconfigureFails,
         Relaunch, Spawn, TakeResult, HardTimeout, Hangs, Return, MainClosePort, Output
    <3>2. CASE UNCHANGED <<mpc, cfg, tpc>>
      <4>1. Awaiting'
        BY <2>2, <3>2 DEF Awaiting
      <4>2. Pending' <= 1
        BY <1>2, <1>5, <1>p
      <4> QED
        BY <4>1, <4>2, Zenon
    <3>3. CASE Deliver \/ Interrupt \/ SigStep \/ (\E r \in Readers : ReaderRuns(r)) \/ UNCHANGED allVars
      BY <3>2, <3>3 DEF Deliver, Interrupt, SigStep, SigReceive, SigGone, SigClosePort, SigExit, CloserStep, CloserCheck, CloserCall,
         CloserSelect, CloserClose, CloserClearReader, CloserClearCancel, ReaderRuns, diagVars, allVars, mainVars, testVars
    <3>4. ASSUME NEW c \in Configs, TestStep(c) PROVE Pending' <= IF Awaiting' THEN 1 ELSE 0
      <4>1. c = cfg /\ mpc = "wait" /\ UNCHANGED <<mpc, cfg>> /\ tpc[c] \in {"ack", "data"}
        BY <1>3, <2>2, <3>4 DEF Awaiting
      <4>2. Receive(cfg) \/ CtxDone(cfg)
        BY <3>4, <4>1 DEF TestStep, DiagStart, LoadReader, Drain, DrainEnds, SendNKE, SendUD2, WriteFails, WriteHangs,
           Fallback, FallbackFails
      <4>3. Pending' <= 0
        BY <1>1, <1>2, <3>4, <4>1, <4>2, AnswerTaken
      <4>4. Pending' <= 1
        BY <1>p, <4>3
      <4> QED
        BY <4>3, <4>4, Zenon
    <3> QED
      BY <3>1, <3>3, <3>4 DEF DiagnoseNext
  <2> QED
    BY <2>1, <2>2
<1> QED
  BY <1>4, <1>5, Flow
-----------------------------------------------------------------------------
(* What is reported.                                                       *)

\* What the tests and the results say is true of the device.
Truthful(o, c) ==
  /\ o.handshake => device[c] # "none"
  /\ o.data => device[c] = "full"
AllTruthful ==
  /\ \A c \in Configs :
       /\ tpc[c] \in {"ud2", "hung ud2", "data"} => device[c] # "none"
       /\ Truthful(outcome[c], c)
  /\ \A k \in 1 .. Len(results) : Truthful(results[k].outcome, k)

\* The byte that the present test receives is an answer in its own configuration.
LEMMA ReceivedFits ==
  ASSUME DiagnoseTyping, Newest, AllFresh, NEW c \in Configs, Receive(c), c = cfg, mpc = "wait"
  PROVE  Fits(wire[Head(ch[tpr[c]])], mode)
<1>1. tpc[c] \in Loaded
  BY DEF Receive, Loaded
<1>2. tpr[c] = started /\ Takes(c)
  BY <1>1 DEF Newest, Receive, Takes
<1>3. started # 0 /\ Head(ch[started]) = ch[started][1] /\ 1 \in 1 .. Len(ch[started])
  BY <1>2, TakenFromNewest
<1>4. Fresh(ch[started][1])
  BY <1>3 DEF AllFresh, Clean
<1> QED
  BY <1>2, <1>3, <1>4 DEF Fresh

\* A test stays truthful.
LEMMA TestTruthful ==
  ASSUME DiagnoseTyping, OneTest, Newest, AllFresh, AllTruthful, ~LateWrites, NEW c \in Configs, TestStep(c)
  PROVE  \A d \in Configs :
           /\ tpc'[d] \in {"ud2", "hung ud2", "data"} => device[d] # "none"
           /\ Truthful(outcome'[d], d)
<1>0. tpc \in [Configs -> Labels] /\ outcome \in [Configs -> Outcomes]
  BY DEF DiagnoseTyping, TestsTyped
<1>1. \A d \in Configs : d # c => tpc'[d] = tpc[d] /\ outcome'[d] = outcome[d]
  BY TestGoes
<1>2. /\ tpc[c] \in {"ud2", "hung ud2", "data"} => device[c] # "none"
      /\ Truthful(outcome[c], c)
  BY DEF AllTruthful
<1>3. WriteFails(c) \/ FallbackFails(c) \/ (c = cfg /\ mpc = "wait" /\ mode = c)
  BY TestActs
<1>4. ASSUME NEW o, Finish(c, o), Truthful(o, c)
      PROVE  tpc'[c] = "done" /\ Truthful(outcome'[c], c)
  <2>1. tpc'[c] = "done" /\ outcome'[c] = o
    BY <1>0, <1>4 DEF Finish, TestGoto
  <2> QED
    BY <1>4, <2>1
<1>5. Truthful(NoAnswer, c)
  BY DEF Truthful, NoAnswer, Outcome
<1>6. (tpc'[c] \in {"ud2", "hung ud2", "data"} => device[c] # "none") /\ Truthful(outcome'[c], c)
  <2>1. CASE DiagStart(c) \/ LoadReader(c) \/ Drain(c) \/ DrainEnds(c) \/ SendNKE(c) \/ SendUD2(c) \/ WriteHangs(c)
    <3>1. outcome' = outcome
      BY <2>1 DEF DiagStart, LoadReader, Drain, DrainEnds, SendNKE, SendUD2, WriteHangs, testVars
    <3>2. tpc'[c] \in {"ud2", "hung ud2", "data"} => tpc[c] \in {"ud2", "hung ud2", "data"}
      BY <1>0, <2>1 DEF DiagStart, LoadReader, Drain, DrainEnds, SendNKE, SendUD2, WriteHangs, testVars, TestGoto
    <3> QED
      BY <1>2, <3>1, <3>2
  <2>2. CASE WriteFails(c)
    <3>1. tpc[c] \in {"ud2", "hung ud2"} => device[c] # "none"
      BY <1>2
    <3>2. Truthful(Outcome(tpc[c] \in {"ud2", "hung ud2"}, FALSE), c)
      BY <3>1 DEF Truthful, Outcome
    <3> QED
      BY <1>4, <2>2, <3>2 DEF WriteFails
  <2>3. CASE CtxDone(c)
    <3>1. Truthful(Outcome(tpc[c] = "data", FALSE), c)
      BY <1>2 DEF Truthful, Outcome
    <3> QED
      BY <1>4, <2>3, <3>1 DEF CtxDone
  <2>f. CASE FallbackFails(c)
    <3>1. PICK h \in BOOLEAN : (h => device[c] # "none") /\ Finish(c, Outcome(h, FALSE))
      BY <2>f DEF FallbackFails
    <3>2. Truthful(Outcome(h, FALSE), c)
      BY <3>1 DEF Truthful, Outcome
    <3> QED
      BY <1>4, <3>1, <3>2
  <2>4. CASE Fallback(c)
    <3>1. mode = c
      BY <1>3, <2>4 DEF Fallback, FallbackFails, WriteFails
    <3>2. PICK o : Finish(c, o) /\ (o.handshake => device[mode] # "none") /\ (o.data => device[mode] = "full")
      BY <2>4 DEF Fallback, FallbackFails
    <3>3. Truthful(o, c)
      BY <3>1, <3>2 DEF Truthful
    <3> QED
      BY <1>4, <3>2, <3>3
  <2>5. CASE Receive(c)
    <3> DEFINE kind == wire[Head(ch[tpr[c]])]
    <3>1. c = cfg /\ mpc = "wait" /\ mode = c
      BY <1>3, <2>5 DEF Receive, WriteFails, FallbackFails
    <3>2. Fits(kind, c)
      BY <2>5, <3>1, ReceivedFits
    <3>3. \/ tpc[c] = "ack" /\ kind = "E5" /\ TestGoto(c, "ud2") /\ UNCHANGED outcome
          \/ Finish(c, NoAnswer)
          \/ tpc[c] = "data" /\ kind = "frame" /\ Finish(c, Outcome(TRUE, TRUE))
          \/ UNCHANGED <<tpc, outcome>>
      BY <2>5 DEF Receive
    <3> HIDE DEF kind
    <3>4. CASE tpc[c] = "ack" /\ kind = "E5" /\ TestGoto(c, "ud2") /\ UNCHANGED outcome
      BY <1>2, <3>2, <3>4 DEF Fits
    <3>5. CASE tpc[c] = "data" /\ kind = "frame" /\ Finish(c, Outcome(TRUE, TRUE))
      <4>1. Truthful(Outcome(TRUE, TRUE), c)
        BY <1>2, <3>2, <3>5 DEF Truthful, Outcome, Fits
      <4> QED
        BY <1>4, <3>5, <4>1
    <3> QED
      BY <1>2, <1>4, <1>5, <3>3, <3>4, <3>5
  <2> QED
    BY <2>1, <2>2, <2>3, <2>f, <2>4, <2>5 DEF TestStep
<1> QED
  BY <1>1, <1>6 DEF AllTruthful

\* Every step keeps what is said true.
LEMMA TruthfulStep ==
  ASSUME DiagnoseAssumption, DiagnoseTyping, OneTest, Newest, AllFresh, AllTruthful, ~LateWrites,
         [DiagnoseNext]_allVars
  PROVE  AllTruthful'
<1>1. device' = device
  BY LineSteps
<1>2. \A c \in Configs : /\ tpc'[c] \in {"ud2", "hung ud2", "data"} => device[c] # "none"
                         /\ Truthful(outcome'[c], c)
  <2>1. CASE UNCHANGED <<tpc, outcome>>
    BY <2>1 DEF AllTruthful
  <2>2. CASE Spawn
    <3>1. tpc' = [tpc EXCEPT ![cfg] = "start"] /\ UNCHANGED outcome /\ tpc \in [Configs -> Labels]
      BY <2>2 DEF Spawn, DiagnoseTyping, TestsTyped
    <3>2. \A c \in Configs : tpc'[c] = tpc[c] \/ tpc'[c] = "start"
      BY <3>1
    <3> QED
      BY <3>1, <3>2 DEF AllTruthful
  <2>3. CASE MainStep /\ ~Spawn
    BY <2>1, <2>3 DEF MainStep, OpenClient, Notify, OpenFails, StartReader, FirstConfig, Reconfigure, ReconfigureFails,
       Relaunch, TakeResult, HardTimeout, Return, MainClosePort, Output, CloserStep, CloserCheck, CloserCall,
       CloserSelect, CloserClose, CloserClearReader, CloserClearCancel, testVars
  <2>4. CASE Deliver \/ Interrupt \/ SigStep \/ (\E r \in Readers : ReaderRuns(r)) \/ UNCHANGED allVars
    BY <2>1, <2>4 DEF Deliver, Interrupt, SigStep, SigReceive, SigGone, SigClosePort, SigExit, CloserStep, CloserCheck, CloserCall,
       CloserSelect, CloserClose, CloserClearReader, CloserClearCancel, ReaderRuns, diagVars, allVars, testVars
  <2> QED
    BY <2>2, <2>3, <2>4, TestTruthful DEF DiagnoseNext
<1>3. \A k \in 1 .. Len(results') : Truthful(results'[k].outcome, k)
  <2>1. CASE UNCHANGED results
    BY <2>1 DEF AllTruthful
  <2>2. ASSUME NEW o \in Outcomes, Truthful(o, cfg), results' = Append(results, [config |-> cfg, outcome |-> o])
        PROVE  \A k \in 1 .. Len(results') : Truthful(results'[k].outcome, k)
    <3>1. results \in Results /\ Len(results) = cfg - 1 /\ cfg \in 1 .. NConfigs + 1
      BY DEF DiagnoseTyping, MainTyped
    <3>2. Len(results) \in Nat /\ Len(results') = Len(results) + 1 /\ results'[Len(results) + 1].outcome = o
          /\ \A k \in 1 .. Len(results) : results'[k] = results[k]
      BY <2>2, <3>1, AppendProperties DEF Results
    <3>3. cfg = Len(results) + 1
      BY <3>1
    <3>4. ASSUME NEW k \in 1 .. Len(results') PROVE Truthful(results'[k].outcome, k)
      <4>1. k \in 1 .. Len(results) \/ k = cfg
        BY <3>2, <3>3
      <4> QED
        BY <2>2, <3>2, <3>3, <4>1 DEF AllTruthful
    <3> QED
      BY <3>4
  <2>3. Truthful(NoAnswer, cfg)
    BY DEF Truthful, NoAnswer, Outcome
  <2>4. cfg \in Configs => Truthful(outcome[cfg], cfg)
    BY DEF AllTruthful
  <2> QED
    BY <2>1, <2>2, <2>3, <2>4, ResultSteps
<1> QED
  BY <1>1, <1>2, <1>3 DEF AllTruthful, Truthful

\* With tests that wait for every answer and writes that do not complete late, the
\* command reports nothing of a configuration that the device does not do in it:
\* what a test receives has come through the newest reader, in its own mode.
THEOREM NoFalsePositiveHolds == ASSUME Prompt, ~LateWrites PROVE DiagnoseSpec => []NoFalsePositive
<1> DEFINE I == DiagnoseTyping /\ OneTest /\ Newest /\ LineQuiet /\ AllFresh /\ AllTruthful
<1>1. DiagnoseInit => I
  <2> SUFFICES ASSUME DiagnoseInit PROVE OneTest /\ Newest /\ LineQuiet /\ AllFresh /\ AllTruthful
    BY DiagnoseTypingInit, PipeAssumption, DiagnoseAssumption
  <2> USE DEF DiagnoseInit, Init
  <2>1. OneTest /\ Newest
    BY DEF OneTest, Newest, Loaded
  <2>2. Pending = 0
    BY DEF Pending, Served
  <2>3. LineQuiet
    BY <2>2 DEF LineQuiet, Awaiting
  <2>4. AllFresh
    BY DEF AllFresh, Clean
  <2>5. AllTruthful
    BY DEF AllTruthful, Truthful, NoAnswer, Outcome
  <2> QED
    BY <2>1, <2>3, <2>4, <2>5
<1>2. I /\ [DiagnoseNext]_allVars => I'
  BY DiagnoseTypingStep, OneTestStep, NewestStep, QuietStep, FreshStep, TruthfulStep, PipeAssumption, DiagnoseAssumption
<1>3. I => NoFalsePositive
  <2> SUFFICES ASSUME I PROVE NoFalsePositive
    OBVIOUS
  <2>1. DOMAIN results = 1 .. Len(results)
    BY DEF DiagnoseTyping, MainTyped, Results
  <2> QED
    BY <2>1 DEF AllTruthful, Truthful, NoFalsePositive
<1> QED
  BY <1>1, <1>2, <1>3, PTL DEF DiagnoseSpec
=============================================================================
