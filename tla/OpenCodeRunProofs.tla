------------------------- MODULE OpenCodeRunProofs -------------------------
(***************************************************************************)
(* Theorems about OpenCodeRun, for every set of callers, every set of      *)
(* scripts, every capacity and every choice of the other constants.        *)
(*                                                                         *)
(* FlagsOK and ValuesOK are the type invariant, strengthened by InHand so  *)
(* that the record a callback holds exists.  PhaseInv says what is already *)
(* settled at each point of run(), and what has not begun before StartRun  *)
(* returns; it is inductive relative to ValuesOK, and the invariants that  *)
(* the runs check follow from it.                                          *)
(***************************************************************************)
EXTENDS OpenCodeRun, TLAPS

\* The groups of variables are only abbreviations.
USE DEF startVars, chanVars, endVars, scanVars, runVars, watchVars, textVars, procVars

\* run() has read the record it is handing on.
InHand == rpc \in {"session", "send"} => read >= 1

\* TypeOK without its Boolean part, and InHand.
ValuesOK == ChannelOK /\ PipeOK /\ OutcomesOK /\ ControlOK /\ InHand

\* sendLocalEvent keeps the channel within its capacity, whatever it is given.
LEMMA SendLocal ==
  ASSUME ChannelOK, NEW e \in Event, sendLocalEvent(e)
  PROVE  ChannelOK'
<1> USE DEF ChannelOK, sendLocalEvent
<1>1. CASE open /\ Len(events) < EventCap
  <2>1. events' = Append(events, e) /\ consumed' = consumed
    BY <1>1
  <2>2. Len(events') = Len(events) + 1 /\ events' \in Seq(Event)
    BY <2>1
  <2> QED BY <1>1, <2>1, <2>2, RunAssumption DEF RunAssumption
<1>2. CASE ~(open /\ Len(events) < EventCap)
  BY <1>2
<1> QED BY <1>1, <1>2

\* The Boolean variables start out Boolean ...
LEMMA FlagsInit == Init => FlagsOK
  BY DEF Init, FlagsOK

\* ... and every step keeps them so.
LEMMA FlagsStep == FlagsOK /\ [Next]_vars => FlagsOK'
<1> SUFFICES ASSUME FlagsOK, [Next]_vars PROVE FlagsOK'
  OBVIOUS
<1> USE DEF FlagsOK
<1>1. CASE StartRun
  BY <1>1 DEF StartRun, StartRejected, PrepareProcess, LaunchFails, Launch, sendLocalEvent
<1>2. CASE Scan
  BY <1>2 DEF Scan, ScanCheck, ReadRecord, ReadEnd, EmitSession, SendEvent, SendAborted,
     sendLocalEvent
<1>3. CASE Finish
  BY <1>3 DEF Finish, WaitProcess, RemoveTempDir, RunCleaned, Finalize, EmitTerminal,
     SendTerminal, StoreResult, DeferCancel, CloseDone, CloseEvents, sendLocalEvent
<1>4. CASE Cleanup
  BY <1>4 DEF Cleanup, CleanupBegin, CleanupEnd
<1>5. ASSUME NEW c \in Callers, CancelEmit(c) \/ CancelProceeds(c) PROVE FlagsOK'
  BY <1>5 DEF CancelEmit, CancelProceeds, CancelSend, CancelCleaned, CancelContext, cancelMoves,
     sendLocalEvent
<1>6. CASE ContextWatch \/ LogWatch \/ Stderr
  BY <1>6 DEF ContextWatch, LogWatch, Stderr, ContextDone, ContextCleaned, WatchTick, WatchSend,
     WatchStop, StderrRead, StderrEnd, watcherMoves, sendLocalEvent
<1>7. CASE Process
  BY <1>7 DEF Process, ProcWrite, ChildExit, ExecKill, CloseReader, ProcText, ProcFork, ProcExit,
     procMoves
<1>8. CASE (\E why \in CtxCauses : ContextEnds(why)) \/ Consume
  BY <1>8 DEF ContextEnds, Consume
<1>9. CASE Stop \/ UNCHANGED vars
  BY <1>9 DEF Stop, vars
<1> QED
  BY <1>1, <1>2, <1>3, <1>4, <1>5, <1>6, <1>7, <1>8, <1>9 DEF Next

\* A script is a sequence of native records.
LEMMA ScriptLen == PipeOK => script \in Seq(NativeKind) /\ Len(script) \in Nat
  BY RunAssumption DEF PipeOK, RunAssumption

\* What the constants say of children and contexts.
LEMMA ModeTypes ==
  ChildModes \subseteq {"detached", "attached"} /\ CtxCauses \subseteq {"parent", "timeout"}
  BY RunAssumption DEF RunAssumption

\* The types hold initially.
LEMMA ValuesInit == Init => ValuesOK
  BY RunAssumption DEF RunAssumption, Init, ValuesOK, ChannelOK, PipeOK, OutcomesOK, ControlOK,
     InHand, Status, RunPC

\* StartRun keeps the types.
LEMMA ValuesStart == ValuesOK /\ StartRun => ValuesOK'
<1> SUFFICES ASSUME ValuesOK, StartRun PROVE ValuesOK'
  OBVIOUS
<1> USE DEF ValuesOK
<1>1. ChannelOK'
  BY SendLocal DEF StartRun, StartRejected, PrepareProcess, LaunchFails, Launch, ChannelOK, Event,
     Status
<1>2. PipeOK' /\ OutcomesOK'
  BY DEF StartRun, StartRejected, PrepareProcess, LaunchFails, Launch, PipeOK, OutcomesOK
<1>3. ControlOK'
  <2>1. CASE StartRejected
    BY <2>1 DEF StartRejected, ControlOK, endCtx
  <2>2. CASE PrepareProcess
    BY <2>2 DEF PrepareProcess, ControlOK
  <2>3. CASE LaunchFails
    BY <2>3 DEF LaunchFails, ControlOK, endCtx
  <2>4. CASE Launch
    BY <2>4 DEF Launch, ControlOK, RunPC, Status
  <2> QED BY <2>1, <2>2, <2>3, <2>4 DEF StartRun
<1>4. InHand'
  BY DEF StartRun, StartRejected, PrepareProcess, LaunchFails, Launch, InHand, Status
<1> QED BY <1>1, <1>2, <1>3, <1>4

\* Scanning keeps the types: the callback only sends records that were written.
LEMMA ValuesScan == ValuesOK /\ Scan => ValuesOK'
<1> SUFFICES ASSUME ValuesOK, Scan PROVE ValuesOK'
  OBVIOUS
<1> USE DEF ValuesOK
<1>0. script \in Seq(NativeKind) /\ Len(script) \in Nat
  BY ScriptLen
<1>1. rpc = "send" => record \in NativeKind
  BY <1>0 DEF InHand, PipeOK, record
<1>2. ChannelOK'
  <2>1. CASE SendEvent
    <3>1. events' = Append(events, record) /\ consumed' = consumed /\ Len(events) < EventCap
      BY <2>1 DEF SendEvent
    <3>2. record \in Event
      BY <1>1, <2>1 DEF SendEvent, Event
    <3> QED BY <3>1, <3>2, RunAssumption DEF ChannelOK, RunAssumption
  <2>2. CASE EmitSession
    BY <2>2, SendLocal DEF EmitSession, Event
  <2>3. CASE ScanCheck \/ ReadRecord \/ ReadEnd \/ SendAborted
    BY <2>3 DEF ScanCheck, ReadRecord, ReadEnd, SendAborted, ChannelOK
  <2> QED BY <2>1, <2>2, <2>3 DEF Scan
<1>3. PipeOK'
  BY <1>0, RunAssumption DEF RunAssumption, Scan, ScanCheck, ReadRecord, ReadEnd, EmitSession,
     SendEvent, SendAborted, PipeOK
<1>4. OutcomesOK'
  BY DEF Scan, ScanCheck, ReadRecord, ReadEnd, EmitSession, SendEvent, SendAborted, OutcomesOK
<1>5. ctxErr \in {"nil", "deadline", "canceled"}
  BY DEF ctxErr
<1>6. ControlOK' /\ InHand'
  <2>1. CASE ScanCheck
    BY <2>1, <1>5 DEF ScanCheck, endScan, ControlOK, InHand, RunPC
  <2>2. CASE ReadRecord
    BY <2>2 DEF ReadRecord, endScan, ControlOK, InHand, RunPC, PipeOK
  <2>3. CASE ReadEnd
    BY <2>3, <1>5 DEF ReadEnd, endScan, ControlOK, InHand, RunPC
  <2>4. CASE EmitSession
    BY <2>4 DEF EmitSession, ControlOK, InHand, RunPC
  <2>5. CASE SendEvent
    BY <2>5 DEF SendEvent, endScan, evidence, ControlOK, InHand, RunPC
  <2>6. CASE SendAborted
    BY <2>6, <1>5 DEF SendAborted, endScan, ControlOK, InHand, RunPC
  <2> QED BY <2>1, <2>2, <2>3, <2>4, <2>5, <2>6 DEF Scan
<1> QED BY <1>2, <1>3, <1>4, <1>6

\* finalResult always returns an outcome: none of its branches is missing.
LEMMA FinalResult == \A db \in reconcileFinalState :
                        OutcomesOK /\ ControlOK => finalResult(db) \in Outcomes
<1> SUFFICES ASSUME NEW db \in reconcileFinalState, ControlOK
             PROVE  finalResult(db) \in Outcomes
  OBVIOUS
<1>1. completed \in Outcomes
  BY DEF completed, Outcomes, Terminal, Category
<1>2. \A k \in Category : failed(k) \in Outcomes
  BY DEF failed, Outcomes, Terminal
<1>3. exitCategory \in {"rate_limit", "runtime_exit"}
  BY DEF exitCategory
<1>4. processOutcome(db) \in Outcomes
  BY <1>1, <1>2, <1>3 DEF processOutcome, reconcileFinalState, Category
<1>5. \A e : contextOutcome(e) \in Outcomes
  BY <1>2 DEF contextOutcome, Outcomes, Terminal, Category
<1>6. ctxErr \in {"nil", "deadline", "canceled"}
  BY DEF ctxErr
<1> QED BY <1>2, <1>4, <1>5, <1>6 DEF finalResult, ControlOK, Category, Fatal

\* The end of run() keeps the types.
LEMMA ValuesFinish == ValuesOK /\ Finish => ValuesOK'
<1> SUFFICES ASSUME ValuesOK, Finish PROVE ValuesOK'
  OBVIOUS
<1> USE DEF ValuesOK
<1>0. outcome.status \in Status
  BY DEF OutcomesOK, Outcomes, NoOutcome, Status, Terminal
<1>1. ChannelOK'
  BY <1>0, SendLocal DEF Finish, WaitProcess, RemoveTempDir, RunCleaned, Finalize, EmitTerminal,
     SendTerminal, StoreResult, DeferCancel, CloseDone, CloseEvents, ChannelOK, Event
<1>2. PipeOK' /\ InHand'
  BY DEF Finish, WaitProcess, RemoveTempDir, RunCleaned, Finalize, EmitTerminal, SendTerminal,
     StoreResult, DeferCancel, CloseDone, CloseEvents, PipeOK, InHand
<1>3. OutcomesOK'
  BY FinalResult DEF Finish, WaitProcess, RemoveTempDir, RunCleaned, Finalize, EmitTerminal,
     SendTerminal, StoreResult, DeferCancel, CloseDone, CloseEvents, OutcomesOK
<1>4. ControlOK'
  BY <1>0 DEF Finish, WaitProcess, RemoveTempDir, RunCleaned, Finalize, EmitTerminal,
     SendTerminal, StoreResult, DeferCancel, CloseDone, CloseEvents, ControlOK, RunPC, endCtx
<1> QED BY <1>1, <1>2, <1>3, <1>4

\* So do both halves of r.cleanup ...
LEMMA ValuesCleanup == ValuesOK /\ Cleanup => ValuesOK'
<1> SUFFICES ASSUME ValuesOK, Cleanup PROVE ValuesOK'
  OBVIOUS
<1> USE DEF ValuesOK, Cleanup, CleanupBegin, CleanupEnd
<1>1. ChannelOK' /\ PipeOK' /\ OutcomesOK' /\ InHand'
  BY DEF ChannelOK, PipeOK, OutcomesOK, InHand
<1>2. ControlOK'
  <2>1. CASE CleanupBegin
    BY <2>1 DEF ControlOK
  <2>2. CASE CleanupEnd
    BY <2>2 DEF ControlOK
  <2> QED BY <2>1, <2>2
<1> QED BY <1>1, <1>2

\* ... the callers of Cancel ...
LEMMA ValuesCancel ==
  ASSUME ValuesOK, NEW c \in Callers, CancelEmit(c) \/ CancelProceeds(c)
  PROVE  ValuesOK'
<1> USE DEF ValuesOK, CancelProceeds, CancelEmit, CancelSend, CancelCleaned, CancelContext,
            cancelMoves
<1>1. ChannelOK'
  BY SendLocal DEF ChannelOK, Event, Status
<1>2. PipeOK' /\ OutcomesOK' /\ InHand'
  BY DEF PipeOK, OutcomesOK, InHand
<1>3. ControlOK'
  BY DEF ControlOK, endCtx, Status
<1> QED BY <1>1, <1>2, <1>3

\* ... the three background goroutines ...
LEMMA ValuesWatch == ValuesOK /\ (ContextWatch \/ LogWatch \/ Stderr) => ValuesOK'
<1> SUFFICES ASSUME ValuesOK, ContextWatch \/ LogWatch \/ Stderr PROVE ValuesOK'
  OBVIOUS
<1> USE DEF ValuesOK, ContextWatch, LogWatch, Stderr, ContextDone, ContextCleaned, WatchTick,
            WatchSend, WatchStop, StderrRead, StderrEnd, watcherMoves
<1>1. ChannelOK'
  BY SendLocal DEF ChannelOK, Event
<1>2. PipeOK' /\ OutcomesOK' /\ InHand'
  BY DEF PipeOK, OutcomesOK, InHand
<1>3. ControlOK'
  BY DEF ControlOK
<1> QED BY <1>1, <1>2, <1>3

\* ... the process group: a full pipe blocks its writer ...
LEMMA ValuesProcess == ValuesOK /\ Process => ValuesOK'
<1> SUFFICES ASSUME ValuesOK, Process PROVE ValuesOK'
  OBVIOUS
<1> USE DEF ValuesOK, Process, ProcWrite, ChildExit, ExecKill, CloseReader, ProcText, ProcFork,
            ProcExit, procMoves
<1>1. ChannelOK' /\ OutcomesOK' /\ InHand'
  BY DEF ChannelOK, OutcomesOK, InHand
<1>2. PipeOK'
  BY ScriptLen, RunAssumption DEF PipeOK, RunAssumption
<1>3. ControlOK'
  <2>1. ASSUME NEW m \in ChildModes, ProcFork(m) PROVE ControlOK'
    <3>1. m \in {"detached", "attached"}
      BY ModeTypes
    <3> QED BY <2>1, <3>1 DEF ControlOK
  <2>2. ASSUME NEW t \in Texts, ProcText(t) PROVE ControlOK'
    BY <2>2 DEF ControlOK
  <2>3. ASSUME NEW h \in {"ok", "fail", "signal"}, ProcExit(h) PROVE ControlOK'
    BY <2>3 DEF ControlOK
  <2>4. CASE ProcWrite \/ ChildExit \/ ExecKill \/ CloseReader
    BY <2>4 DEF ControlOK
  <2> QED BY <2>1, <2>2, <2>3, <2>4
<1> QED BY <1>1, <1>2, <1>3

\* ... and the contexts and the consumer of the stream.
LEMMA ValuesCaller ==
  ValuesOK /\ ((\E why \in CtxCauses : ContextEnds(why)) \/ Consume) => ValuesOK'
<1> SUFFICES ASSUME ValuesOK, (\E why \in CtxCauses : ContextEnds(why)) \/ Consume PROVE ValuesOK'
  OBVIOUS
<1> USE DEF ValuesOK, ContextEnds, Consume
<1>1. ChannelOK'
  <2>1. CASE Consume
    <3>1. Head(events) \in Event /\ Tail(events) \in Seq(Event) /\ Len(Tail(events)) <= EventCap
      BY <2>1, RunAssumption DEF ChannelOK, RunAssumption
    <3> QED BY <2>1, <3>1 DEF ChannelOK
  <2> QED BY <2>1 DEF ChannelOK
<1>2. PipeOK' /\ OutcomesOK' /\ InHand'
  BY DEF PipeOK, OutcomesOK, InHand
<1>3. ControlOK'
  <2>1. ASSUME NEW why \in CtxCauses, ContextEnds(why) PROVE ControlOK'
    <3>1. why \in {"parent", "timeout"}
      BY ModeTypes
    <3> QED BY <2>1, <3>1 DEF ControlOK
  <2>2. CASE Consume
    BY <2>2 DEF ControlOK
  <2> QED BY <2>1, <2>2
<1> QED BY <1>1, <1>2, <1>3

\* Every step keeps the types.
LEMMA ValuesStep == ValuesOK /\ [Next]_vars => ValuesOK'
<1>1. ValuesOK /\ (Stop \/ UNCHANGED vars) => ValuesOK'
  <2> SUFFICES ASSUME ValuesOK, UNCHANGED vars PROVE ValuesOK'
    BY DEF Stop
  <2> USE DEF vars, ValuesOK
  <2>1. ChannelOK' /\ PipeOK' /\ OutcomesOK' /\ InHand'
    BY DEF ChannelOK, PipeOK, OutcomesOK, InHand
  <2>2. ControlOK'
    BY DEF ControlOK
  <2> QED BY <2>1, <2>2
<1> QED
  BY <1>1, ValuesStart, ValuesScan, ValuesFinish, ValuesCleanup, ValuesCancel, ValuesWatch,
     ValuesProcess, ValuesCaller DEF Next

-----------------------------------------------------------------------------
\* The points of run() after r.result is stored, and so on backwards.
AfterStore   == {"defer_cancel", "close_done", "close_events", "end"}
AfterEmit    == {"send_terminal", "store"} \cup AfterStore
AfterFinal   == {"emit"} \cup AfterEmit
AfterCleanup == {"finalize"} \cup AfterFinal
AfterStderr  == {"cleanup"} \cup AfterCleanup
AfterWait    == {"wait_stderr"} \cup AfterStderr

\* Before StartRun has launched the process no goroutine of the run exists.
NotStarted ==
  /\ rpc = "none" /\ wpc = "none" /\ spc = "none" /\ proc = "none" /\ once = "free"
  /\ lifecycle = "starting"
  /\ \A c \in Callers : cpc[c] = "idle"


StartPhase == IF start = "started" THEN rpc # "none" ELSE NotStarted

\* Where the temp directory may be gone, and where it must be.
TempPhase ==
  /\ start = "new" => tempDir = "absent"
  /\ start = "launch" => tempDir \in {"absent", "present"}
  /\ start = "rejected" => tempDir # "present"
  /\ start = "started" /\ tempDir \in {"removed", "left"} => rpc \in AfterStderr
  /\ rpc \in AfterStderr => tempDir # "present"

\* What run() has seen settled: the leader, stderr, the cleanup, the outcome.
RunPhase ==
  /\ rpc \in AfterWait => proc = "reaped"
  /\ rpc \in AfterStderr => spc = "done"
  /\ rpc \in AfterCleanup => once = "done"
  /\ rpc \in AfterFinal => outcome \in Outcomes
  /\ result = IF rpc \in AfterStore THEN outcome ELSE NoOutcome

\* done closes after the result is stored, and the stream closes last.
FlagPhase == (done <=> rpc \in {"close_events", "end"}) /\ (open <=> rpc # "end")

\* Only run() completes or fails the lifecycle; Cancel leaves its caller as witness.
LifecyclePhase ==
  /\ rpc \notin AfterEmit => lifecycle \in {"starting", "running", "cancelled"}
  /\ rpc \in AfterEmit => lifecycle \in {outcome.status, "cancelled"}
  /\ lifecycle = "cancelled" =>
       \/ rpc \in AfterEmit /\ outcome.status = "cancelled"
       \/ \E c \in Callers : cpc[c] # "idle"

\* A context error, once read by run(), has its cause; run() ends its own context
\* only after the result is stored.
CausePhase ==
  /\ start = "started" /\ cause = "finish" => rpc \in AfterStore
  /\ decodeErr = "canceled" => cause \in {"caller", "parent"}
  /\ decodeErr = "deadline" => cause = "timeout"
  /\ outcome.status = "cancelled" => cause \in {"caller", "parent"}
  /\ outcome.err = "timeout" => cause = "timeout"

\* A cleanup that is over has stopped the leader.
LeaderPhase == once = "done" /\ ~KillMayFail => proc # "running"

PhaseInv == StartPhase /\ TempPhase /\ RunPhase /\ FlagPhase /\ LifecyclePhase /\ CausePhase
            /\ LeaderPhase

\* The phases hold initially.
LEMMA PhaseInit == Init => PhaseInv
<1> SUFFICES ASSUME Init PROVE PhaseInv
  OBVIOUS
<1> USE DEF Init, AfterStore, AfterEmit, AfterFinal, AfterCleanup, AfterStderr, AfterWait
<1>1. StartPhase /\ TempPhase /\ RunPhase
  BY DEF StartPhase, NotStarted, TempPhase, RunPhase
<1>2. FlagPhase
  BY DEF FlagPhase
<1>3. LifecyclePhase /\ CausePhase /\ LeaderPhase
  BY DEF LifecyclePhase, CausePhase, LeaderPhase, NoOutcome
<1> QED BY <1>1, <1>2, <1>3 DEF PhaseInv

\* StartRun keeps the phases.
LEMMA PhaseStart == ValuesOK /\ PhaseInv /\ StartRun => PhaseInv'
<1> SUFFICES ASSUME ValuesOK, PhaseInv, StartRun PROVE PhaseInv'
  OBVIOUS
<1> USE DEF PhaseInv, ValuesOK, ControlOK, StartRun, StartRejected, PrepareProcess, LaunchFails,
            Launch, sendLocalEvent, endCtx
<1> USE DEF AfterStore, AfterEmit, AfterFinal, AfterCleanup, AfterStderr, AfterWait
<1>1. StartPhase'
  BY DEF StartPhase, NotStarted
<1>2. TempPhase'
  <2> USE DEF TempPhase, StartPhase, NotStarted
  <2>1. CASE StartRejected
    BY <2>1
  <2>2. CASE PrepareProcess
    BY <2>2
  <2>3. CASE LaunchFails
    BY <2>3
  <2>4. CASE Launch
    BY <2>4
  <2> QED BY <2>1, <2>2, <2>3, <2>4
<1>3. RunPhase'
  BY DEF RunPhase, StartPhase, NotStarted
<1>4. FlagPhase'
  BY DEF FlagPhase, StartPhase, NotStarted
<1>5. LifecyclePhase'
  BY DEF LifecyclePhase, StartPhase, NotStarted
<1>6. CausePhase'
  BY DEF CausePhase, StartPhase, NotStarted
<1>7. LeaderPhase'
  BY DEF LeaderPhase, StartPhase, NotStarted
<1> QED BY <1>1, <1>2, <1>3, <1>4, <1>5, <1>6, <1>7

\* The scan keeps them: it cannot meet the context error of run() itself.
LEMMA PhaseScan == ValuesOK /\ PhaseInv /\ Scan => PhaseInv'
<1> SUFFICES ASSUME ValuesOK, PhaseInv, Scan PROVE PhaseInv'
  OBVIOUS
<1> USE DEF PhaseInv, ValuesOK, ControlOK, Scan, ScanCheck, ReadRecord, ReadEnd, EmitSession,
            SendEvent, SendAborted, endScan, ctxErr, sendLocalEvent
<1> USE DEF AfterStore, AfterEmit, AfterFinal, AfterCleanup, AfterStderr, AfterWait
<1>1. StartPhase'
  BY DEF StartPhase, NotStarted
<1>2. TempPhase'
  BY DEF TempPhase, StartPhase, NotStarted
<1>3. RunPhase'
  BY DEF RunPhase, StartPhase, NotStarted
<1>4. FlagPhase'
  BY DEF FlagPhase, StartPhase, NotStarted
<1>5. LifecyclePhase'
  BY DEF LifecyclePhase, StartPhase, NotStarted
<1>6. CausePhase'
  <2>1. cause # "finish"
    BY DEF CausePhase, StartPhase, NotStarted
  <2>2. decodeErr' = "canceled" => cause \in {"caller", "parent"}
    BY <2>1 DEF CausePhase, Fatal, record
  <2>3. decodeErr' = "deadline" => cause = "timeout"
    BY <2>1 DEF CausePhase, Fatal, record
  <2>4. outcome' = outcome /\ cause' = cause /\ start' = start
    OBVIOUS
  <2> QED BY <2>1, <2>2, <2>3, <2>4 DEF CausePhase
<1>7. LeaderPhase'
  BY DEF LeaderPhase, StartPhase, NotStarted
<1> QED BY <1>1, <1>2, <1>3, <1>4, <1>5, <1>6, <1>7

\* finalResult blames the context only for what ended it.
LEMMA FinalCause ==
  ASSUME CausePhase, cause # "finish", NEW db \in reconcileFinalState, ControlOK
  PROVE  /\ finalResult(db).status = "cancelled" => cause \in {"caller", "parent"}
         /\ finalResult(db).err = "timeout" => cause = "timeout"
<1>1. processOutcome(db).status # "cancelled" /\ processOutcome(db).err # "timeout"
  BY DEF processOutcome, reconcileFinalState, completed, failed, exitCategory
<1>2. ASSUME NEW e \in {"deadline", "canceled"}
      PROVE  /\ contextOutcome(e).status = "cancelled" => e = "canceled"
             /\ contextOutcome(e).err = "timeout" => e = "deadline"
  <2>1. CASE e = "canceled"
    BY <2>1 DEF contextOutcome
  <2>2. CASE e = "deadline"
    BY <2>2 DEF contextOutcome, failed
  <2> QED BY <2>1, <2>2
<1>3. /\ ctxErr = "canceled" => cause \in {"caller", "parent"}
      /\ ctxErr = "deadline" => cause = "timeout"
      /\ ctxErr \in {"nil", "deadline", "canceled"}
  BY DEF ctxErr, ControlOK
<1>4. CASE decodeErr \in {"deadline", "canceled"}
  <2>1. finalResult(db) = contextOutcome(decodeErr)
    BY <1>4 DEF finalResult
  <2> QED BY <1>2, <1>4, <2>1 DEF CausePhase
<1>5. CASE decodeErr \in {"malformed", "fatal", "fatal_rate"}
  BY <1>5 DEF finalResult, failed
<1>6. CASE decodeErr = "nil"
  <2>1. finalResult(db) = IF ctxErr = "nil" THEN processOutcome(db) ELSE contextOutcome(ctxErr)
    BY <1>6 DEF finalResult
  <2>2. CASE ctxErr = "nil"
    BY <1>1, <2>1, <2>2
  <2>3. CASE ctxErr # "nil"
    BY <1>2, <1>3, <2>1, <2>3
  <2> QED BY <2>2, <2>3
<1> QED BY <1>4, <1>5, <1>6 DEF ControlOK, Fatal

\* The end of run() keeps the phases.
LEMMA PhaseFinish == ValuesOK /\ PhaseInv /\ Finish => PhaseInv'
<1> SUFFICES ASSUME ValuesOK, PhaseInv, Finish PROVE PhaseInv'
  OBVIOUS
<1> USE DEF PhaseInv, ValuesOK, ControlOK, Finish, WaitProcess, RemoveTempDir, RunCleaned,
            Finalize, EmitTerminal, SendTerminal, StoreResult, DeferCancel, CloseDone,
            CloseEvents, endCtx, sendLocalEvent
<1> USE DEF AfterStore, AfterEmit, AfterFinal, AfterCleanup, AfterStderr, AfterWait
<1>1. StartPhase'
  BY DEF StartPhase, NotStarted
<1>2. TempPhase'
  BY DEF TempPhase, StartPhase, NotStarted
<1>3. RunPhase'
  <2>1. CASE Finalize
    BY <2>1, FinalResult DEF RunPhase
  <2>2. CASE ~Finalize
    BY <2>2 DEF RunPhase
  <2> QED BY <2>1, <2>2
<1>4. FlagPhase'
  BY DEF FlagPhase, StartPhase, NotStarted
<1>5. LifecyclePhase'
  <2>1. CASE EmitTerminal
    BY <2>1 DEF LifecyclePhase, RunPhase, canTransition, Terminal, Status
  <2>2. CASE ~EmitTerminal
    BY <2>2 DEF LifecyclePhase
  <2> QED BY <2>1, <2>2
<1>6. CausePhase'
  <2>1. CASE Finalize
    BY <2>1, FinalCause DEF CausePhase, StartPhase, NotStarted
  <2>2. CASE ~Finalize
    BY <2>2 DEF CausePhase
  <2> QED BY <2>1, <2>2
<1>7. LeaderPhase'
  BY DEF LeaderPhase, StartPhase, NotStarted
<1> QED BY <1>1, <1>2, <1>3, <1>4, <1>5, <1>6, <1>7

\* r.cleanup keeps the phases.
LEMMA PhaseCleanup == ValuesOK /\ PhaseInv /\ Cleanup => PhaseInv'
<1> SUFFICES ASSUME ValuesOK, PhaseInv, Cleanup PROVE PhaseInv'
  OBVIOUS
<1>4. FlagPhase'
  <2>1. rpc' = rpc /\ done' = done /\ open' = open
    BY DEF Cleanup, CleanupBegin, CleanupEnd
  <2> QED BY <2>1 DEF PhaseInv, FlagPhase
<1> USE DEF PhaseInv, ValuesOK, ControlOK, Cleanup, CleanupBegin, CleanupEnd, othersCleaning,
            exited, groupGone
<1> USE DEF AfterStore, AfterEmit, AfterFinal, AfterCleanup, AfterStderr, AfterWait
<1>1. StartPhase'
  BY DEF StartPhase, NotStarted
<1>2. TempPhase'
  BY DEF TempPhase, StartPhase, NotStarted
<1>3. RunPhase'
  BY DEF RunPhase, StartPhase, NotStarted
<1>5. LifecyclePhase'
  BY DEF LifecyclePhase, StartPhase, NotStarted
<1>6. CausePhase'
  BY DEF CausePhase, StartPhase, NotStarted
<1>7. LeaderPhase'
  BY DEF LeaderPhase, StartPhase, NotStarted
<1> QED BY <1>1, <1>2, <1>3, <1>4, <1>5, <1>6, <1>7

\* Cancel keeps the phases.
LEMMA PhaseCancel ==
  ValuesOK /\ PhaseInv /\ (\E c \in Callers : CancelEmit(c) \/ CancelProceeds(c)) => PhaseInv'
<1> SUFFICES ASSUME ValuesOK, PhaseInv, \E c \in Callers : CancelEmit(c) \/ CancelProceeds(c)
             PROVE  PhaseInv'
  OBVIOUS
<1> USE DEF PhaseInv, ValuesOK, ControlOK, CancelProceeds, CancelEmit, CancelSend, CancelCleaned,
            CancelContext, cancelMoves, endCtx, canTransition, sendLocalEvent
<1> USE DEF AfterStore, AfterEmit, AfterFinal, AfterCleanup, AfterStderr, AfterWait
<1>1. StartPhase'
  BY DEF StartPhase, NotStarted
<1>2. TempPhase'
  BY DEF TempPhase, StartPhase, NotStarted
<1>3. RunPhase'
  BY DEF RunPhase, StartPhase, NotStarted
<1>4. FlagPhase'
  BY DEF FlagPhase, StartPhase, NotStarted
<1>5. LifecyclePhase'
  BY DEF LifecyclePhase, StartPhase, NotStarted
<1>6. CausePhase'
  BY DEF CausePhase, StartPhase, NotStarted
<1>7. LeaderPhase'
  BY DEF LeaderPhase, StartPhase, NotStarted
<1> QED BY <1>1, <1>2, <1>3, <1>4, <1>5, <1>6, <1>7

\* The background goroutines keep the phases.
LEMMA PhaseWatch == ValuesOK /\ PhaseInv /\ (ContextWatch \/ LogWatch \/ Stderr) => PhaseInv'
<1> SUFFICES ASSUME ValuesOK, PhaseInv, ContextWatch \/ LogWatch \/ Stderr PROVE PhaseInv'
  OBVIOUS
<1> USE DEF PhaseInv, ValuesOK, ControlOK, ContextWatch, LogWatch, Stderr, ContextDone,
            ContextCleaned, WatchTick, WatchSend, WatchStop, StderrRead, StderrEnd, watcherMoves,
            sendLocalEvent
<1> USE DEF AfterStore, AfterEmit, AfterFinal, AfterCleanup, AfterStderr, AfterWait
<1>1. StartPhase'
  BY DEF StartPhase, NotStarted
<1>2. TempPhase'
  BY DEF TempPhase, StartPhase, NotStarted
<1>3. RunPhase'
  BY DEF RunPhase, StartPhase, NotStarted
<1>4. FlagPhase'
  BY DEF FlagPhase, StartPhase, NotStarted
<1>5. LifecyclePhase'
  BY DEF LifecyclePhase, StartPhase, NotStarted
<1>6. CausePhase'
  BY DEF CausePhase, StartPhase, NotStarted
<1>7. LeaderPhase'
  BY DEF LeaderPhase, StartPhase, NotStarted
<1> QED BY <1>1, <1>2, <1>3, <1>4, <1>5, <1>6, <1>7

\* The process group keeps the phases: the dead stay dead.
LEMMA PhaseProcess == ValuesOK /\ PhaseInv /\ Process => PhaseInv'
<1> SUFFICES ASSUME ValuesOK, PhaseInv, Process PROVE PhaseInv'
  OBVIOUS
<1> USE DEF PhaseInv, ValuesOK, ControlOK, Process, ProcWrite, ChildExit, ExecKill, CloseReader,
            ProcText, ProcFork, ProcExit, procMoves
<1> USE DEF AfterStore, AfterEmit, AfterFinal, AfterCleanup, AfterStderr, AfterWait
<1>1. StartPhase'
  BY DEF StartPhase, NotStarted
<1>2. TempPhase'
  BY DEF TempPhase, StartPhase, NotStarted
<1>3. RunPhase'
  BY DEF RunPhase, StartPhase, NotStarted
<1>4. FlagPhase'
  BY DEF FlagPhase, StartPhase, NotStarted
<1>5. LifecyclePhase'
  BY DEF LifecyclePhase, StartPhase, NotStarted
<1>6. CausePhase'
  BY DEF CausePhase, StartPhase, NotStarted
<1>7. LeaderPhase'
  BY DEF LeaderPhase, StartPhase, NotStarted
<1> QED BY <1>1, <1>2, <1>3, <1>4, <1>5, <1>6, <1>7

\* Contexts and the consumer keep the phases.
LEMMA PhaseCaller ==
  ValuesOK /\ PhaseInv /\ ((\E why \in CtxCauses : ContextEnds(why)) \/ Consume) => PhaseInv'
<1> SUFFICES ASSUME ValuesOK, PhaseInv, (\E why \in CtxCauses : ContextEnds(why)) \/ Consume
             PROVE  PhaseInv'
  OBVIOUS
<1> USE DEF PhaseInv, ValuesOK, ControlOK, ContextEnds, Consume
<1> USE DEF AfterStore, AfterEmit, AfterFinal, AfterCleanup, AfterStderr, AfterWait
<1>1. StartPhase'
  BY DEF StartPhase, NotStarted
<1>2. TempPhase'
  BY DEF TempPhase, StartPhase, NotStarted
<1>3. RunPhase'
  BY DEF RunPhase, StartPhase, NotStarted
<1>4. FlagPhase'
  BY DEF FlagPhase, StartPhase, NotStarted
<1>5. LifecyclePhase'
  BY DEF LifecyclePhase, StartPhase, NotStarted
<1>6. CausePhase'
  <2>1. ASSUME NEW why \in CtxCauses, ContextEnds(why) PROVE CausePhase'
    <3>1. why # "finish"
      BY ModeTypes
    <3> QED BY <2>1, <3>1 DEF CausePhase
  <2>2. CASE Consume
    BY <2>2 DEF CausePhase
  <2> QED BY <2>1, <2>2
<1>7. LeaderPhase'
  BY DEF LeaderPhase, StartPhase, NotStarted
<1> QED BY <1>1, <1>2, <1>3, <1>4, <1>5, <1>6, <1>7

\* Stuttering keeps the phases.
LEMMA PhaseStutter == ValuesOK /\ PhaseInv /\ (Stop \/ UNCHANGED vars) => PhaseInv'
<1> SUFFICES ASSUME ValuesOK, PhaseInv, Stop \/ UNCHANGED vars PROVE PhaseInv'
  OBVIOUS
<1> USE DEF PhaseInv, ValuesOK, ControlOK, Stop, vars
<1> USE DEF AfterStore, AfterEmit, AfterFinal, AfterCleanup, AfterStderr, AfterWait
<1>1. StartPhase'
  BY DEF StartPhase, NotStarted
<1>2. TempPhase'
  BY DEF TempPhase, StartPhase, NotStarted
<1>3. RunPhase'
  BY DEF RunPhase, StartPhase, NotStarted
<1>4. FlagPhase'
  BY DEF FlagPhase, StartPhase, NotStarted
<1>5. LifecyclePhase'
  BY DEF LifecyclePhase, StartPhase, NotStarted
<1>6. CausePhase'
  BY DEF CausePhase, StartPhase, NotStarted
<1>7. LeaderPhase'
  BY DEF LeaderPhase, StartPhase, NotStarted
<1> QED BY <1>1, <1>2, <1>3, <1>4, <1>5, <1>6, <1>7

\* Every step keeps the phases.
LEMMA PhaseStep == ValuesOK /\ PhaseInv /\ [Next]_vars => PhaseInv'
  BY PhaseStart, PhaseScan, PhaseFinish, PhaseCleanup, PhaseCancel, PhaseWatch, PhaseProcess,
     PhaseCaller, PhaseStutter DEF Next

\* The inductive invariant holds in every reachable state.
LEMMA Invariance == Spec => []TypeOK /\ []ValuesOK /\ []PhaseInv
<1>1. FlagsOK /\ ValuesOK => TypeOK
  BY DEF ValuesOK, TypeOK
<1> QED
  BY <1>1, FlagsInit, FlagsStep, ValuesInit, ValuesStep, PhaseInit, PhaseStep, PTL DEF Spec

\* Type correctness: the channel of events never exceeds its capacity, the pipe
\* never its own, and every program counter stays at a point of its code.
THEOREM TypeCorrect == Spec => []TypeOK
  BY Invariance, PTL

\* When Wait can return, run() has stored a result, reaped the leader, collected
\* its stderr, ended the lifecycle and seen the one cleanup finished.
THEOREM Settled == Spec => []DoneMeansSettled
<1>1. ValuesOK /\ PhaseInv => DoneMeansSettled
  BY DEF ValuesOK, PhaseInv, FlagPhase, RunPhase, LifecyclePhase, DoneMeansSettled, AfterStore,
     AfterEmit, AfterFinal, AfterCleanup, AfterStderr, AfterWait, Outcomes, Terminal
<1> QED BY <1>1, Invariance, PTL

\* The temp directory of MetadataTempRoot outlives the process and the stderr
\* collector, and is removed (or its removal was tried) by every ending.
THEOREM TempDirSafe == Spec => []TempDirLifetime
<1>1. ValuesOK /\ PhaseInv => TempDirLifetime
  BY DEF ValuesOK, PhaseInv, TempPhase, FlagPhase, RunPhase, TempDirLifetime, AfterStore,
     AfterEmit, AfterFinal, AfterCleanup, AfterStderr, AfterWait
<1> QED BY <1>1, Invariance, PTL

\* The lifecycle of a finished run and its result name the same status, unless a
\* Cancel had already marked the run cancelled.
THEOREM LifecycleAgrees == Spec => []LifecycleMatchesResult
<1>1. ValuesOK /\ PhaseInv => LifecycleMatchesResult
  BY DEF ValuesOK, PhaseInv, FlagPhase, RunPhase, LifecyclePhase, LifecycleMatchesResult,
     AfterStore, AfterEmit
<1> QED BY <1>1, Invariance, PTL

\* Wait reports a cancellation or a timeout only of a context that was cancelled
\* by the caller or its parent, or that met its deadline.
THEOREM CauseSound == Spec => []ContextOutcomeHasCause
<1>1. ValuesOK /\ PhaseInv => ContextOutcomeHasCause
  BY DEF ValuesOK, PhaseInv, RunPhase, CausePhase, ContextOutcomeHasCause, AfterStore, NoOutcome
<1> QED BY <1>1, Invariance, PTL

\* A cleanup that has returned leaves no running leader behind, unless the system
\* refuses signals.
THEOREM LeaderStopped == Spec => []CleanupStopsLeader
<1>1. PhaseInv => CleanupStopsLeader
  BY DEF PhaseInv, LeaderPhase, CleanupStopsLeader
<1> QED BY <1>1, Invariance, PTL

\* A run that has not started maps to the contract's initial state.
LEMMA ContractInit == Init => Contract!Init
  BY DEF Init, Contract!Init

\* Every step of a run is a step of the contract or changes nothing it speaks of.
LEMMA ContractStep ==
  ValuesOK /\ PhaseInv /\ [Next]_vars => [Contract!Next]_(Contract!contractVars)
<1> SUFFICES ASSUME ValuesOK, PhaseInv, [Next]_vars
             PROVE  Contract!Next \/ UNCHANGED Contract!contractVars
  OBVIOUS
<1> DEFINE same == UNCHANGED <<result, done, open>>
           stop == start = "started" /\ cause # "none"
<1>1. same /\ (stop' = stop) => UNCHANGED Contract!contractVars
  BY DEF Contract!contractVars
<1>2. same /\ start' = start /\ (cause # "none" => cause' = cause)
        => Contract!AskStop \/ UNCHANGED Contract!contractVars
  BY DEF Contract!AskStop, Contract!contractVars
<1>3. CASE StartRun
  <2>1. same
    BY <1>3 DEF StartRun, StartRejected, PrepareProcess, LaunchFails, Launch, sendLocalEvent
  <2>2. ~stop /\ ~stop'
    BY <1>3 DEF StartRun, StartRejected, PrepareProcess, LaunchFails, Launch
  <2> QED BY <1>1, <2>1, <2>2
<1>4. CASE Scan
  <2>1. same /\ start' = start /\ cause' = cause
    BY <1>4 DEF Scan, ScanCheck, ReadRecord, ReadEnd, EmitSession, SendEvent, SendAborted,
       sendLocalEvent
  <2> QED BY <1>1, <2>1
<1>5. CASE Finish
  <2> USE DEF PhaseInv, FlagPhase, RunPhase, AfterStore, AfterEmit, AfterFinal
  <2>1. CASE StoreResult
    <3>1. result = NoOutcome /\ result' \in Outcomes
      BY <2>1 DEF StoreResult
    <3>2. UNCHANGED <<done, open, start, cause>>
      BY <2>1 DEF StoreResult
    <3> QED BY <3>1, <3>2 DEF Contract!Next, Contract!SettleAny, Contract!Settle
  <2>2. rpc \in AfterStore => result # NoOutcome
    BY DEF Outcomes, NoOutcome, Terminal
  <2>3. CASE CloseDone
    <3>1. result # NoOutcome /\ ~done /\ done'
      BY <2>2, <2>3 DEF CloseDone
    <3>2. UNCHANGED <<result, open, start, cause>>
      BY <2>3 DEF CloseDone
    <3> QED BY <3>1, <3>2 DEF Contract!Next, Contract!CloseDone
  <2>4. CASE CloseEvents
    <3>1. result # NoOutcome /\ open /\ ~open'
      BY <2>2, <2>4 DEF CloseEvents
    <3>2. UNCHANGED <<result, done, start, cause>>
      BY <2>4 DEF CloseEvents
    <3> QED BY <3>1, <3>2 DEF Contract!Next, Contract!CloseEvents
  <2>5. CASE DeferCancel
    BY <1>2, <2>5 DEF DeferCancel, endCtx, Contract!Next
  <2>6. CASE WaitProcess \/ RemoveTempDir \/ RunCleaned \/ Finalize \/ EmitTerminal \/ SendTerminal
    <3>1. same /\ start' = start /\ cause' = cause
      BY <2>6 DEF WaitProcess, RemoveTempDir, RunCleaned, Finalize, EmitTerminal, SendTerminal,
         sendLocalEvent
    <3> QED BY <1>1, <3>1
  <2> QED BY <1>5, <2>1, <2>3, <2>4, <2>5, <2>6 DEF Finish
<1>6. CASE Cleanup
  <2>1. same /\ start' = start /\ cause' = cause
    BY <1>6 DEF Cleanup, CleanupBegin, CleanupEnd
  <2> QED BY <1>1, <2>1
<1>7. ASSUME NEW c \in Callers, CancelEmit(c) \/ CancelProceeds(c)
      PROVE  Contract!Next \/ UNCHANGED Contract!contractVars
  <2>1. same /\ start' = start /\ (cause # "none" => cause' = cause)
    BY <1>7 DEF CancelProceeds, CancelEmit, CancelSend, CancelCleaned, CancelContext, cancelMoves,
       endCtx, sendLocalEvent
  <2> QED BY <1>2, <2>1 DEF Contract!Next
<1>8. CASE ContextWatch \/ LogWatch \/ Stderr
  <2>1. same /\ start' = start /\ cause' = cause
    BY <1>8 DEF ContextWatch, LogWatch, Stderr, ContextDone, ContextCleaned, WatchTick, WatchSend,
       WatchStop, StderrRead, StderrEnd, watcherMoves, sendLocalEvent
  <2> QED BY <1>1, <2>1
<1>9. CASE Process
  <2>1. same /\ start' = start /\ cause' = cause
    BY <1>9 DEF Process, ProcWrite, ChildExit, ExecKill, CloseReader, ProcText, ProcFork,
       ProcExit, procMoves
  <2> QED BY <1>1, <2>1
<1>10. CASE (\E why \in CtxCauses : ContextEnds(why)) \/ Consume
  <2>1. same /\ start' = start /\ (cause # "none" => cause' = cause)
    BY <1>10 DEF ContextEnds, Consume
  <2> QED BY <1>2, <2>1 DEF Contract!Next
<1>11. CASE Stop \/ UNCHANGED vars
  <2>1. same /\ start' = start /\ cause' = cause
    BY <1>11 DEF Stop, vars
  <2> QED BY <1>1, <2>1
<1> QED
  BY <1>3, <1>4, <1>5, <1>6, <1>7, <1>8, <1>9, <1>10, <1>11 DEF Next

\* The run handle implements the safety of the Run interface: one result, fixed
\* before done closes and before the event stream closes, each closed once.
THEOREM KeepsSafeContract == Spec => Contract!SafeSpec
  BY Invariance, ContractInit, ContractStep, PTL DEF Spec, Contract!SafeSpec
=============================================================================
