---------------------------- MODULE OpenCodeRun ----------------------------
(***************************************************************************)
(* One run of the OpenCode adapter (opencode/runtime.go): StartRun, the    *)
(* goroutine run() that decodes the native process' stdout, the stderr     *)
(* collector, the goroutine that waits for the context, the log watcher,   *)
(* the callers of Cancel, and the native process group itself.             *)
(*                                                                         *)
(* Each goroutine has a program counter; a step is the code between two    *)
(* points where another goroutine can see or change the shared state.      *)
(* What the process will write to stdout is fixed at the start (script);   *)
(* the pipe holds the records between the counters read and written.       *)
(***************************************************************************)
EXTENDS Naturals, Sequences

CONSTANTS
  Callers,      \* goroutines of the embedding program that may call Cancel
  Scripts,      \* the sequences of native records a process may write
  EventCap,     \* capacity of r.events (32 in the code)
  PipeCap,      \* records the stdout pipe holds before its writer blocks
  Features,     \* of the request: "temp" root, permission "audit", "session" ids
  CtxCauses,    \* how the context given to StartRun may end
  Texts,        \* where rate-limit text may appear: "stderr", "log"
  ChildModes,   \* the background children the process may leave in its group
  KillMayFail   \* may signalling the process group fail

\* "fatal" stands for every fatal event that is no rate limit: the categories
\* of classifyFatalEventError other than that one are folded into runtime_exit.
NativeKind == {"message", "final", "idle", "other", "fatal", "fatal_rate", "malformed"}
Fatal == {"fatal", "fatal_rate"}
Status == {"starting", "running", "completed", "failed", "cancelled"}
Terminal == {"completed", "failed", "cancelled"}
Category == {"none", "timeout", "cancellation", "rate_limit", "malformed_event",
             "runtime_exit", "runtime_unavailable"}

\* The two events StartRun emits always fit in the code's 32 slots: the
\* capacity is never scaled down so far that they do not.
ASSUME RunAssumption ==
  /\ Scripts \subseteq Seq(NativeKind)
  /\ EventCap \in Nat /\ EventCap >= 2
  /\ PipeCap \in Nat \ {0}
  /\ Features \subseteq {"temp", "audit", "session"}
  /\ CtxCauses \subseteq {"parent", "timeout"}
  /\ Texts \subseteq {"stderr", "log"}
  /\ ChildModes \subseteq {"detached", "attached"}
  /\ KillMayFail \in BOOLEAN

Outcomes == [status : Terminal, err : Category]
NoOutcome == [status |-> "starting", err |-> "none"]
Event == NativeKind \cup Status \cup {"session", "rate_limit", "permission"}

VARIABLES
  start,      \* StartRun: "new", "launch", "started", "rejected"
  tempDir,    \* the directory of createProcessTempDir
  cause,      \* why r.ctx is over; "none" while r.ctx.Err() is nil
  lifecycle,  \* r.lifecycle
  events,     \* content of the channel r.events
  open,       \* r.events is not closed
  consumed,   \* history: what the caller received from r.events
  done,       \* r.done is closed
  result,     \* r.result, what Wait returns
  rpc,        \* run(): program counter
  read,       \* run(): number of lines Scan has returned
  decodeErr,  \* run(): decodeErr
  saw,        \* r.sawFinal, r.sawIdle, r.sawOutput
  outcome,    \* run(): the value finalResult returned
  once,       \* r.cleanupOnce: "free", "grace" (SIGTERM sent), "done"
  cpc,        \* Cancel: program counter of each caller
  wpc,        \* cancelOnContextDone: program counter
  lpc,        \* watchLogRateLimits: program counter; "quiet" once it has reported
  spc,        \* captureStderr: "none", "reading", "done"
  stderr,     \* rate-limit text on stderr: "none", in the "pipe", in the "buffer"
  logRate,    \* the OpenCode log holds rate-limit text of this run
  proc,       \* the leader: "none", "running", "zombie", "reaped"
  how,        \* how it ended: "none", "ok", "fail", "signal"
  child,      \* a background child in its group: "none" or a ChildMode
  script,     \* the records the process writes to stdout
  written,    \* how many it has written
  outClosed   \* the read end of stdout was closed when the context ended

startVars == <<start, tempDir>>
chanVars  == <<events, open, consumed>>
endVars   == <<done, result>>
scanVars  == <<read, decodeErr, saw>>
runVars   == <<rpc, scanVars, outcome>>
watchVars == <<wpc, lpc, spc>>
textVars  == <<stderr, logRate>>
procVars  == <<proc, how, child, script, written, outClosed>>

vars == <<startVars, cause, lifecycle, chanVars, endVars, runVars, once, cpc, watchVars,
          textVars, procVars>>

Init ==
  /\ start = "new" /\ tempDir = "absent" /\ cause = "none" /\ lifecycle = "starting"
  /\ events = <<>> /\ open = TRUE /\ consumed = <<>> /\ done = FALSE /\ result = NoOutcome
  /\ rpc = "none" /\ read = 0 /\ decodeErr = "nil" /\ saw = {} /\ outcome = NoOutcome
  /\ once = "free" /\ cpc = [c \in Callers |-> "idle"]
  /\ wpc = "none" /\ lpc = "none" /\ spc = "none"
  /\ stderr = "none" /\ logRate = FALSE
  /\ proc = "none" /\ how = "none" /\ child = "none"
  /\ script \in Scripts /\ written = 0 /\ outClosed = FALSE

-----------------------------------------------------------------------------
(* Shared helpers.                                                         *)

\* r.ctx.Err(): a context keeps its first error.
ctxErr == CASE cause = "none"    -> "nil"
            [] cause = "timeout" -> "deadline"
            [] OTHER             -> "canceled"

endCtx(why) == cause' = IF cause = "none" THEN why ELSE cause

\* Mutant of sendLocalEvent: no look at the channel's capacity.
sendLocalEventUnbounded(e) ==
  /\ events' = IF open THEN Append(events, e) ELSE events
  /\ UNCHANGED <<open, consumed>>

\* sendLocalEvent: a full channel drops the event, and the panic of a send on
\* a closed one is recovered and drops it too.
sendLocalEvent(e) ==
  /\ events' = IF open /\ Len(events) < EventCap THEN Append(events, e) ELSE events
  /\ UNCHANGED <<open, consumed>>

\* Mutant of canTransition: only a repeated status is refused.
canTransitionTwice(to) == lifecycle # to

\* transitionLifecycle refuses a repeated status and anything after a terminal one.
canTransition(to) == lifecycle # to /\ lifecycle \notin Terminal

-----------------------------------------------------------------------------
(* StartRun.                                                               *)

\* A directive, session, provider/model, preflight or permission check, the
\* environment or the temp directory fails: no process, nothing left behind.
StartRejected ==
  /\ start = "new"
  /\ start' = "rejected"
  /\ endCtx("finish")
  /\ UNCHANGED <<tempDir, lifecycle, chanVars, endVars, runVars, once, cpc, watchVars,
                 textVars, procVars>>

\* emitPermissionAudit, when a permission policy is configured, and then
\* processSpec, which creates the temp directory when a temp root is.
PrepareProcess ==
  /\ start = "new"
  /\ start' = "launch"
  /\ IF "audit" \in Features THEN sendLocalEvent("permission") ELSE UNCHANGED chanVars
  /\ tempDir' = IF "temp" \in Features THEN "present" ELSE "absent"
  /\ UNCHANGED <<cause, lifecycle, endVars, runVars, once, cpc, watchVars, textVars, procVars>>

\* runner.Start fails (os/exec refuses a context that is over, too).
LaunchFails ==
  /\ start = "launch"
  /\ start' = "rejected"
  /\ tempDir' = IF tempDir = "present" THEN "removed" ELSE tempDir
  /\ endCtx("finish")
  /\ UNCHANGED <<lifecycle, chanVars, endVars, runVars, once, cpc, watchVars, textVars, procVars>>

\* The process runs: emitLifecycle(running), then the four goroutines (the log
\* watcher of a run whose log stays clean does nothing and is left out).
Launch ==
  /\ start = "launch"
  /\ cause = "none"
  /\ start' = "started"
  /\ lifecycle' = "running"
  /\ sendLocalEvent("running")
  /\ proc' = "running" /\ rpc' = "scan" /\ wpc' = "wait" /\ spc' = "reading"
  /\ lpc' = IF "log" \in Texts THEN "watch" ELSE "end"
  /\ UNCHANGED <<tempDir, cause, endVars, scanVars, outcome, once, cpc, textVars, how, child,
                 script, written, outClosed>>

-----------------------------------------------------------------------------
(* run(): scanNativeRecords and its callback.                              *)

\* The record in the callback's hands.
record == script[read]

\* scanNativeRecords returns e; postFinalDecodeWarning turns it into a warning
\* after a final event unless it is the SDK error of a fatal event.
endScan(e) ==
  /\ rpc' = "wait_proc"
  /\ decodeErr' = IF "final" \in saw /\ e \notin Fatal THEN "nil" ELSE e

\* The context check before each Scan.
ScanCheck ==
  /\ rpc = "scan"
  /\ IF cause = "none" THEN rpc' = "read" /\ UNCHANGED decodeErr ELSE endScan(ctxErr)
  /\ UNCHANGED <<startVars, cause, lifecycle, chanVars, endVars, read, saw, outcome, once, cpc,
                 watchVars, textVars, procVars>>

\* Scan returns a line.  A blank or undecodable one ends the scan; a record goes
\* to the callback, where updateSessionID may see a new session id.
ReadRecord ==
  /\ rpc = "read"
  /\ read < written
  /\ read' = read + 1
  /\ IF script[read + 1] = "malformed"
     THEN endScan("malformed")
     ELSE /\ rpc' = "send" \/ ("session" \in Features /\ rpc' = "session")
          /\ UNCHANGED decodeErr
  /\ UNCHANGED <<startVars, cause, lifecycle, chanVars, endVars, saw, outcome, once, cpc,
                 watchVars, textVars, procVars>>

\* Scan returns false: the pipe is drained and all its writers are gone, or the
\* read end was closed.
ReadEnd ==
  /\ rpc = "read"
  /\ outClosed \/ (read = written /\ proc # "running" /\ child # "attached")
  /\ endScan(ctxErr)
  /\ UNCHANGED <<startVars, cause, lifecycle, chanVars, endVars, read, saw, outcome, once, cpc,
                 watchVars, textVars, procVars>>

EmitSession ==
  /\ rpc = "session"
  /\ rpc' = "send"
  /\ sendLocalEvent("session")
  /\ UNCHANGED <<startVars, cause, lifecycle, endVars, scanVars, outcome, once, cpc, watchVars,
                 textVars, procVars>>

\* projectNative: what a record is evidence of, once its event has been sent.
evidence(k) == CASE k \in Fatal \cup {"final"} -> {"final"}
                 [] k = "idle"                 -> {"idle"}
                 [] k = "message"              -> {"output"}
                 [] OTHER                      -> {}

\* Mutant of SendEvent: a native event is dropped like a local one.
SendEventOrDrop ==
  /\ rpc = "send"
  /\ sendLocalEvent(record)
  /\ saw' = saw \cup evidence(record)
  /\ IF record \in Fatal THEN endScan(record) ELSE rpc' = "scan" /\ UNCHANGED decodeErr
  /\ UNCHANGED <<startVars, cause, lifecycle, endVars, read, outcome, once, cpc, watchVars,
                 textVars, procVars>>

\* sendEvent succeeds: the evidence is noted, and a fatal event ends the scan.
SendEvent ==
  /\ rpc = "send"
  /\ Len(events) < EventCap
  /\ events' = Append(events, record)
  /\ saw' = saw \cup evidence(record)
  /\ IF record \in Fatal THEN endScan(record) ELSE rpc' = "scan" /\ UNCHANGED decodeErr
  /\ UNCHANGED <<startVars, cause, lifecycle, open, consumed, endVars, read, outcome, once, cpc,
                 watchVars, textVars, procVars>>

\* sendEvent gives up because the context is over, and the callback returns its error.
SendAborted ==
  /\ rpc = "send"
  /\ cause # "none"
  /\ endScan(ctxErr)
  /\ UNCHANGED <<startVars, cause, lifecycle, chanVars, endVars, read, saw, outcome, once, cpc,
                 watchVars, textVars, procVars>>

-----------------------------------------------------------------------------
(* run(): after the scan.                                                  *)

\* proc.Wait() reaps the leader and closes both pipes, stderr's with whatever
\* captureStderr has not read yet.
WaitProcess ==
  /\ rpc = "wait_proc"
  /\ proc = "zombie"
  /\ rpc' = "wait_stderr"
  /\ proc' = "reaped"
  /\ UNCHANGED <<startVars, cause, lifecycle, chanVars, endVars, scanVars, outcome, once, cpc,
                 watchVars, textVars, how, child, script, written, outClosed>>

\* Mutant of RemoveTempDir: the directory goes before the stderr collector is done.
RemoveTempDirEarly ==
  /\ rpc = "wait_stderr"
  /\ rpc' = "cleanup"
  /\ tempDir' \in IF tempDir = "present" THEN {"removed", "left"} ELSE {tempDir}
  /\ UNCHANGED <<start, cause, lifecycle, chanVars, endVars, scanVars, outcome, once, cpc,
                 watchVars, textVars, procVars>>

\* <-r.stderrDone, then removeProcessTempDir, whose failure is only a warning.
RemoveTempDir ==
  /\ rpc = "wait_stderr"
  /\ spc = "done"
  /\ rpc' = "cleanup"
  /\ tempDir' \in IF tempDir = "present" THEN {"removed", "left"} ELSE {tempDir}
  /\ UNCHANGED <<start, cause, lifecycle, chanVars, endVars, scanVars, outcome, once, cpc,
                 watchVars, textVars, procVars>>

\* Mutants of RunCleaned: run() does not wait for a cleanup already begun, and it
\* ends its own context before finalResult looks at it.
RunCleanedAtOnce ==
  /\ rpc = "cleanup"
  /\ rpc' = "finalize"
  /\ UNCHANGED <<startVars, cause, lifecycle, chanVars, endVars, scanVars, outcome, once, cpc,
                 watchVars, textVars, procVars>>
RunCleanedCancels ==
  /\ rpc = "cleanup"
  /\ once = "done"
  /\ rpc' = "finalize"
  /\ endCtx("finish")
  /\ UNCHANGED <<startVars, lifecycle, chanVars, endVars, scanVars, outcome, once, cpc,
                 watchVars, textVars, procVars>>

\* r.cleanup returns: it ran here, or another goroutine's call has finished.
RunCleaned ==
  /\ rpc = "cleanup"
  /\ once = "done"
  /\ rpc' = "finalize"
  /\ UNCHANGED <<startVars, cause, lifecycle, chanVars, endVars, scanVars, outcome, once, cpc,
                 watchVars, textVars, procVars>>

completed == [status |-> "completed", err |-> "none"]
failed(category) == [status |-> "failed", err |-> category]

\* Mutant of contextOutcome: a deadline is blamed on the provider unread.
contextOutcomeUnread(e) ==
  IF e = "canceled" THEN [status |-> "cancelled", err |-> "cancellation"]
                    ELSE failed("rate_limit")

\* A run whose context ended; a deadline is a rate limit when the log says so.
contextOutcome(e) ==
  CASE e = "canceled" -> [status |-> "cancelled", err |-> "cancellation"]
    [] OTHER          -> failed(IF logRate THEN "rate_limit" ELSE "timeout")

\* classifyExitError
exitCategory == IF stderr = "buffer" THEN "rate_limit" ELSE "runtime_exit"

\* Mutant of processOutcome: any output outweighs the exit code.
processOutcomeLenient(db) ==
  IF saw # {} \/ (how = "ok" /\ db = "completed") THEN completed ELSE failed(exitCategory)

\* The part of finalResult for a scan that ended without error on a live context;
\* db is what reconcileFinalState finds in OpenCode's database.
processOutcome(db) ==
  CASE "final" \in saw /\ (how = "ok" \/ exitCategory = "runtime_exit") -> completed
    [] "final" \in saw /\ how # "ok" /\ exitCategory # "runtime_exit"  -> failed(exitCategory)
    [] "final" \notin saw /\ how # "ok"                -> failed(exitCategory)
    [] saw # {} /\ "final" \notin saw /\ how = "ok"    -> completed
    [] saw = {} /\ how = "ok" /\ db = "error"          -> failed("runtime_unavailable")
    [] saw = {} /\ how = "ok" /\ db = "completed"      -> completed
    [] saw = {} /\ how = "ok" /\ db = "open"           -> failed("runtime_exit")

finalResult(db) ==
  CASE decodeErr \in {"deadline", "canceled"}  -> contextOutcome(decodeErr)
    [] decodeErr = "malformed"                 -> failed("malformed_event")
    [] decodeErr = "fatal_rate"                -> failed("rate_limit")
    [] decodeErr = "fatal"                     -> failed("runtime_exit")
    [] decodeErr = "nil" /\ ctxErr # "nil"     -> contextOutcome(ctxErr)
    [] decodeErr = "nil" /\ ctxErr = "nil"     -> processOutcome(db)

\* What a query of OpenCode's database may say of the session's last message.
reconcileFinalState == {"error", "completed", "open"}

Finalize ==
  /\ rpc = "finalize"
  /\ rpc' = "emit"
  /\ \E db \in reconcileFinalState : outcome' = finalResult(db)
  /\ UNCHANGED <<startVars, cause, lifecycle, chanVars, endVars, scanVars, once, cpc, watchVars,
                 textVars, procVars>>

\* Mutant of EmitTerminal: the status is derived from the presence of an error.
EmitTerminalFromErr ==
  /\ rpc = "emit"
  /\ lifecycle' = IF lifecycle \in Terminal THEN lifecycle
                  ELSE IF outcome.err = "none" THEN "completed" ELSE "failed"
  /\ rpc' = "store"
  /\ UNCHANGED <<startVars, cause, chanVars, endVars, scanVars, outcome, once, cpc, watchVars,
                 textVars, procVars>>

\* emitLifecycle(result.Status): transitionLifecycle under eventMu ...
EmitTerminal ==
  /\ rpc = "emit"
  /\ \/ /\ canTransition(outcome.status)
        /\ lifecycle' = outcome.status
        /\ rpc' = "send_terminal"
     \/ /\ ~canTransition(outcome.status)
        /\ rpc' = "store"
        /\ UNCHANGED lifecycle
  /\ UNCHANGED <<startVars, cause, chanVars, endVars, scanVars, outcome, once, cpc, watchVars,
                 textVars, procVars>>

\* ... and its sendLocalEvent.
SendTerminal ==
  /\ rpc = "send_terminal"
  /\ rpc' = "store"
  /\ sendLocalEvent(outcome.status)
  /\ UNCHANGED <<startVars, cause, lifecycle, endVars, scanVars, outcome, once, cpc, watchVars,
                 textVars, procVars>>

\* Mutant of StoreResult: a refused transition skips the assignment.
StoreResultIfEmitted ==
  /\ rpc = "store"
  /\ rpc' = "defer_cancel"
  /\ result' = IF lifecycle = outcome.status THEN outcome ELSE result
  /\ UNCHANGED <<startVars, cause, lifecycle, chanVars, done, scanVars, outcome, once, cpc,
                 watchVars, textVars, procVars>>

\* r.result = result, under r.mu.
StoreResult ==
  /\ rpc = "store"
  /\ rpc' = "defer_cancel"
  /\ result' = outcome
  /\ UNCHANGED <<startVars, cause, lifecycle, chanVars, done, scanVars, outcome, once, cpc,
                 watchVars, textVars, procVars>>

\* The deferred r.cancel(), close(r.done) and close(r.events), in this order.
DeferCancel ==
  /\ rpc = "defer_cancel"
  /\ rpc' = "close_done"
  /\ endCtx("finish")
  /\ UNCHANGED <<startVars, lifecycle, chanVars, endVars, scanVars, outcome, once, cpc,
                 watchVars, textVars, procVars>>

CloseDone ==
  /\ rpc = "close_done"
  /\ rpc' = "close_events"
  /\ done' = TRUE
  /\ UNCHANGED <<startVars, cause, lifecycle, chanVars, result, scanVars, outcome, once, cpc,
                 watchVars, textVars, procVars>>

CloseEvents ==
  /\ rpc = "close_events"
  /\ rpc' = "end"
  /\ open' = FALSE
  /\ UNCHANGED <<startVars, cause, lifecycle, events, consumed, endVars, scanVars, outcome,
                 once, cpc, watchVars, textVars, procVars>>

-----------------------------------------------------------------------------
(* r.cleanup: one execProcess.Cancel per run, under cleanupOnce.  Whoever   *)
(* else calls cleanup waits until it is over.                               *)

\* A goroutine other than run() is inside r.cleanup.
othersCleaning == wpc = "cleanup" \/ \E c \in Callers : cpc[c] = "cleanup"

\* ProcessState.Exited(): the leader was reaped and did not die of a signal.
exited == proc = "reaped" /\ how \in {"ok", "fail"}

\* ESRCH: nobody is left in the process group (an unreaped leader counts).
groupGone == proc = "reaped" /\ child = "none"

\* Mutant of CleanupBegin: cleanup is left to Cancel and cancelOnContextDone.
CleanupBeginByOthers ==
  /\ once = "free"
  /\ othersCleaning
  /\ once' = IF exited \/ groupGone THEN "done" ELSE "grace"
  /\ UNCHANGED <<startVars, cause, lifecycle, chanVars, endVars, runVars, cpc, watchVars,
                 textVars, procVars>>

\* The first half of execProcess.Cancel, up to the wait after SIGTERM, which the
\* processes may ignore.  ProcessState is read without synchronisation with
\* cmd.Wait: a goroutine other than run() may still see it unset.
CleanupBegin ==
  /\ once = "free"
  /\ rpc = "cleanup" \/ othersCleaning
  /\ \E sawExited \in {exited} \cup (IF othersCleaning THEN {FALSE} ELSE {}) :
        once' = IF sawExited \/ groupGone THEN "done" ELSE "grace"
  /\ UNCHANGED <<startVars, cause, lifecycle, chanVars, endVars, runVars, cpc, watchVars,
                 textVars, procVars>>

\* Mutant of CleanupEnd: SIGTERM is trusted, no SIGKILL follows.
CleanupEndGently ==
  /\ once = "grace"
  /\ once' = "done"
  /\ UNCHANGED <<startVars, cause, lifecycle, chanVars, endVars, runVars, cpc, watchVars,
                 textVars, procVars>>

\* The second half: after two seconds or the end of the caller's context, SIGKILL
\* to the group unless the leader is seen to have exited by itself.
CleanupEnd ==
  /\ once = "grace"
  /\ once' = "done"
  /\ \/ /\ proc' = IF proc = "running" THEN "zombie" ELSE proc
        /\ how' = IF proc = "running" THEN "signal" ELSE how
        /\ child' = "none"
     \/ /\ exited \/ KillMayFail
        /\ UNCHANGED <<proc, how, child>>
  /\ UNCHANGED <<startVars, cause, lifecycle, chanVars, endVars, runVars, cpc, watchVars,
                 textVars, script, written, outClosed>>

-----------------------------------------------------------------------------
(* Cancel.                                                                  *)

cancelMoves(c, from, to) ==
  /\ cpc[c] = from
  /\ cpc' = [cpc EXCEPT ![c] = to]
  /\ UNCHANGED <<startVars, endVars, runVars, once, watchVars, textVars, procVars>>

\* emitLifecycle(cancelled): transitionLifecycle under eventMu ...
CancelEmit(c) ==
  /\ start = "started"
  /\ \/ /\ canTransition("cancelled")
        /\ lifecycle' = "cancelled"
        /\ cancelMoves(c, "idle", "send")
     \/ /\ ~canTransition("cancelled")
        /\ UNCHANGED lifecycle
        /\ cancelMoves(c, "idle", "cleanup")
  /\ UNCHANGED <<cause, chanVars>>

\* ... and its sendLocalEvent.
CancelSend(c) ==
  /\ cancelMoves(c, "send", "cleanup")
  /\ sendLocalEvent("cancelled")
  /\ UNCHANGED <<cause, lifecycle>>

\* r.cleanup(ctx, "caller_cancel") returns.
CancelCleaned(c) ==
  /\ cancelMoves(c, "cleanup", "cancel")
  /\ once = "done"
  /\ UNCHANGED <<cause, lifecycle, chanVars>>

\* Mutant of CancelContext: Cancel relies on its cleanup and leaves the context alone.
CancelContextNot(c) ==
  /\ cancelMoves(c, "cancel", "returned")
  /\ UNCHANGED <<cause, lifecycle, chanVars>>

\* r.cancel(); what follows only delays the return by at most 100 ms.
CancelContext(c) ==
  /\ cancelMoves(c, "cancel", "returned")
  /\ endCtx("caller")
  /\ UNCHANGED <<lifecycle, chanVars>>

-----------------------------------------------------------------------------
(* cancelOnContextDone, watchLogRateLimits, captureStderr.                  *)

watcherMoves ==
  UNCHANGED <<startVars, cause, lifecycle, endVars, runVars, once, cpc, logRate, procVars>>

\* Mutant of ContextDone: the goroutine does not return from a terminal lifecycle.
ContextDoneUnlessTerminal ==
  /\ wpc = "wait"
  /\ cause # "none" /\ lifecycle \notin Terminal
  /\ wpc' = "cleanup"
  /\ watcherMoves
  /\ UNCHANGED <<chanVars, lpc, spc, stderr>>

ContextDone ==
  /\ wpc = "wait"
  /\ cause # "none"
  /\ wpc' = IF lifecycle \in Terminal THEN "end" ELSE "cleanup"
  /\ watcherMoves
  /\ UNCHANGED <<chanVars, lpc, spc, stderr>>

ContextCleaned ==
  /\ wpc = "cleanup"
  /\ once = "done"
  /\ wpc' = "end"
  /\ watcherMoves
  /\ UNCHANGED <<chanVars, lpc, spc, stderr>>

\* A tick finds rate-limit text that liveRateLimitKey says is not reported yet.
WatchTick ==
  /\ lpc = "watch"
  /\ logRate
  /\ lpc' = "send"
  /\ watcherMoves
  /\ UNCHANGED <<chanVars, wpc, spc, stderr>>

WatchSend ==
  /\ lpc = "send"
  /\ lpc' = "quiet"
  /\ sendLocalEvent("rate_limit")
  /\ watcherMoves
  /\ UNCHANGED <<wpc, spc, stderr>>

WatchStop ==
  /\ lpc \in {"watch", "quiet"}
  /\ cause # "none" \/ done
  /\ lpc' = "end"
  /\ watcherMoves
  /\ UNCHANGED <<chanVars, wpc, spc, stderr>>

\* io.Copy into r.stderrBuffer while the read end is open.
StderrRead ==
  /\ spc = "reading"
  /\ stderr = "pipe" /\ proc # "reaped"
  /\ stderr' = "buffer"
  /\ watcherMoves
  /\ UNCHANGED <<chanVars, watchVars>>

\* The copy ends at EOF, or because cmd.Wait closed the read end.
StderrEnd ==
  /\ spc = "reading"
  /\ \/ proc = "reaped"
     \/ proc = "zombie" /\ child # "attached" /\ stderr # "pipe"
  /\ spc' = "done"
  /\ watcherMoves
  /\ UNCHANGED <<chanVars, wpc, lpc, stderr>>

-----------------------------------------------------------------------------
(* The native process and its group, os/exec and the contexts: external.    *)

procMoves ==
  UNCHANGED <<startVars, cause, lifecycle, chanVars, endVars, runVars, once, cpc, watchVars,
              script>>

\* A write blocks while the pipe is full.
ProcWrite ==
  /\ proc = "running" /\ written < Len(script)
  /\ written < read + PipeCap /\ ~outClosed
  /\ written' = written + 1
  /\ procMoves
  /\ UNCHANGED <<textVars, proc, how, child, outClosed>>

\* Rate-limit text on stderr, or in OpenCode's log.
ProcText(t) ==
  /\ proc = "running"
  /\ \/ t = "stderr" /\ stderr = "none" /\ stderr' = "pipe" /\ UNCHANGED logRate
     \/ t = "log" /\ ~logRate /\ logRate' = TRUE /\ UNCHANGED stderr
  /\ procMoves
  /\ UNCHANGED <<proc, how, child, written, outClosed>>

ProcFork(m) ==
  /\ proc = "running" /\ child = "none"
  /\ child' = m
  /\ procMoves
  /\ UNCHANGED <<textVars, proc, how, written, outClosed>>

ChildExit ==
  /\ child # "none"
  /\ child' = "none"
  /\ procMoves
  /\ UNCHANGED <<textVars, proc, how, written, outClosed>>

\* The process exits by itself when it has nothing left to write, fails anywhere
\* between two writes, or dies of a signal (SIGTERM, a crash).
ProcExit(h) ==
  /\ proc = "running"
  /\ h = "ok" => written = Len(script)
  /\ proc' = "zombie"
  /\ how' = h
  /\ procMoves
  /\ UNCHANGED <<textVars, child, written, outClosed>>

\* exec.CommandContext kills the leader, and only it, when the context is over.
ExecKill ==
  /\ cause # "none"
  /\ ProcExit("signal")

\* The goroutine of scanNativeRecords closes stdout when the context is over.
CloseReader ==
  /\ cause # "none"
  /\ rpc \in {"scan", "read", "session", "send"}
  /\ ~outClosed
  /\ outClosed' = TRUE
  /\ procMoves
  /\ UNCHANGED <<textVars, proc, how, child, written>>

\* The context given to StartRun ends: its parent is cancelled, or a deadline.
ContextEnds(why) ==
  /\ cause = "none"
  /\ start \in {"launch", "started"}
  /\ cause' = why
  /\ UNCHANGED <<startVars, lifecycle, chanVars, endVars, runVars, once, cpc, watchVars,
                 textVars, procVars>>

\* The embedding program receives from Events().
Consume ==
  /\ events # <<>>
  /\ consumed' = Append(consumed, Head(events))
  /\ events' = Tail(events)
  /\ UNCHANGED <<startVars, cause, lifecycle, open, endVars, runVars, once, cpc, watchVars,
                 textVars, procVars>>

-----------------------------------------------------------------------------
StartRun == StartRejected \/ PrepareProcess \/ LaunchFails \/ Launch

Scan == ScanCheck \/ ReadRecord \/ ReadEnd \/ EmitSession \/ SendEvent \/ SendAborted

Finish ==
  \/ WaitProcess \/ RemoveTempDir \/ RunCleaned \/ Finalize \/ EmitTerminal \/ SendTerminal
  \/ StoreResult \/ DeferCancel \/ CloseDone \/ CloseEvents

Cleanup == CleanupBegin \/ CleanupEnd

CancelProceeds(c) == CancelSend(c) \/ CancelCleaned(c) \/ CancelContext(c)

ContextWatch == ContextDone \/ ContextCleaned

LogWatch == WatchTick \/ WatchSend \/ WatchStop

Stderr == StderrRead \/ StderrEnd

Process ==
  \/ ProcWrite \/ ChildExit \/ ExecKill \/ CloseReader
  \/ \E t \in Texts : ProcText(t)
  \/ \E m \in ChildModes : ProcFork(m)
  \/ \E h \in {"ok", "fail", "signal"} : ProcExit(h)

\* StartRun failed, or every goroutine is gone and the stream is read: the run
\* may stay there.
Stop ==
  /\ start = "rejected" \/ (rpc = "end" /\ wpc = "end" /\ lpc = "end" /\ events = <<>>)
  /\ UNCHANGED vars

Next ==
  \/ StartRun \/ Scan \/ Finish \/ Cleanup
  \/ \E c \in Callers : CancelEmit(c) \/ CancelProceeds(c)
  \/ ContextWatch \/ LogWatch \/ Stderr \/ Process
  \/ \E why \in CtxCauses : ContextEnds(why)
  \/ Consume
  \/ Stop

Spec == Init /\ [][Next]_vars

(***************************************************************************)
(* Fairness.  Goroutines that can run are scheduled, timers fire, and      *)
(* os/exec kills: weak fairness of every step of the adapter.  Nothing is  *)
(* assumed of the caller (it need not read events, nor call Cancel) or of  *)
(* the process (it need not write or exit).                                *)
(***************************************************************************)
AdapterFairness ==
  /\ WF_vars(Scan) /\ WF_vars(Finish) /\ WF_vars(Cleanup)
  /\ \A c \in Callers : WF_vars(CancelProceeds(c))
  /\ WF_vars(ContextWatch)
  /\ WF_vars(WatchSend) /\ WF_vars(WatchStop)
  /\ WF_vars(Stderr)
  /\ WF_vars(ExecKill) /\ WF_vars(CloseReader)

FairSpec == Spec /\ AdapterFairness

\* A caller that drains Events(), a process that writes all it has to write and
\* then exits, and a child that lets go of the pipes some time.
WellBehaved ==
  /\ WF_vars(Consume)
  /\ WF_vars(ProcWrite)
  /\ WF_vars(ProcExit("ok"))
  /\ WF_vars(child = "attached" /\ ChildExit)

WellBehavedSpec == FairSpec /\ WellBehaved

-----------------------------------------------------------------------------
(* Properties.                                                             *)

RunPC == {"none", "scan", "read", "session", "send", "wait_proc", "wait_stderr", "cleanup",
          "finalize", "emit", "send_terminal", "store", "defer_cancel", "close_done",
          "close_events", "end"}

FlagsOK == open \in BOOLEAN /\ done \in BOOLEAN /\ logRate \in BOOLEAN /\ outClosed \in BOOLEAN

ChannelOK == events \in Seq(Event) /\ Len(events) <= EventCap /\ consumed \in Seq(Event)

PipeOK ==
  /\ script \in Scripts
  /\ written \in 0 .. Len(script) /\ read \in 0 .. written /\ written - read <= PipeCap

OutcomesOK == result \in Outcomes \cup {NoOutcome} /\ outcome \in Outcomes \cup {NoOutcome}

ControlOK ==
  /\ start \in {"new", "launch", "started", "rejected"}
  /\ tempDir \in {"absent", "present", "removed", "left"}
  /\ cause \in {"none", "caller", "finish", "parent", "timeout"}
  /\ lifecycle \in Status
  /\ rpc \in RunPC
  /\ decodeErr \in {"nil", "deadline", "canceled", "malformed"} \cup Fatal
  /\ saw \subseteq {"final", "idle", "output"}
  /\ once \in {"free", "grace", "done"}
  /\ cpc \in [Callers -> {"idle", "send", "cleanup", "cancel", "returned"}]
  /\ wpc \in {"none", "wait", "cleanup", "end"}
  /\ lpc \in {"none", "watch", "send", "quiet", "end"}
  /\ spc \in {"none", "reading", "done"}
  /\ stderr \in {"none", "pipe", "buffer"}
  /\ proc \in {"none", "running", "zombie", "reaped"}
  /\ how \in {"none", "ok", "fail", "signal"}
  /\ child \in {"none", "detached", "attached"}

\* Every variable stays in its range, the channel within its capacity and the
\* pipe within its own.
TypeOK == FlagsOK /\ ChannelOK /\ PipeOK /\ OutcomesOK /\ ControlOK

\* The process' temp directory outlives the process and the stderr collector
\* (the promise on MetadataTempRoot), and is never just forgotten: a StartRun
\* that fails and a run that is done have at least tried to remove it.
TempDirLifetime ==
  /\ start = "started" /\ tempDir \in {"removed", "left"} => proc = "reaped" /\ spc = "done"
  /\ start = "rejected" \/ done => tempDir # "present"

\* When Wait can return, there is a result to return, the leader is reaped, its
\* stderr is collected, the lifecycle has reached a terminal status, and the
\* one cleanup of the run is over: no signal is sent to the group afterwards.
DoneMeansSettled ==
  done => /\ result \in Outcomes
          /\ lifecycle \in Terminal
          /\ proc = "reaped" /\ spc = "done" /\ once = "done"

\* All that has entered the event channel.
stream == consumed \o events

\* The events of each prefix of s that are in kinds, in their order: SelectSeq as a
\* recursive function, which proofs can unfold.
select(chosen, e, kinds) == IF e \in kinds THEN Append(chosen, e) ELSE chosen
selections(s, kinds) ==
  LET first[i \in 0 .. Len(s)] == IF i = 0 THEN <<>> ELSE select(first[i - 1], s[i], kinds)
  IN  first

\* The events of s that are in kinds, and those that are native.
selected(s, kinds) == selections(s, kinds)[Len(s)]
native(s) == selected(s, NativeKind)

\* The records the scanner has handed to the callback.
handed == IF read > 0 /\ script[read] = "malformed" THEN read - 1 ELSE read

\* Native events reach the stream in the order they were written and without a
\* gap, whatever is dropped of the adapter's own events: only the one in hand
\* may be missing, for good when the context ends under it (sendEvent blocks).
NativeStreamInOrder ==
  LET n == Len(native(stream))
  IN  /\ native(stream) = SubSeq(script, 1, n)
      /\ \/ n = handed
         \/ n + 1 = handed /\ (rpc \in {"session", "send"} \/ cause # "none")

\* The events of a sequence that announce a terminal status.
terminalEvents(s) == selected(s, Terminal)

\* Cancel and run() race to end the lifecycle: the stream announces at most one
\* terminal status, and it is the one the lifecycle holds.
OneTerminalEvent ==
  /\ Len(terminalEvents(stream)) <= 1
  /\ \A i \in 1 .. Len(terminalEvents(stream)) : terminalEvents(stream)[i] = lifecycle

\* The lifecycle a caller saw and the result of Wait name the same status,
\* except that a Cancel may have marked a run cancelled that ended otherwise.
LifecycleMatchesResult ==
  done => \/ lifecycle = result.status
          \/ lifecycle = "cancelled" /\ \E c \in Callers : cpc[c] # "idle"

\* A run reported cancelled was cancelled by its caller or its parent context,
\* and one reported as timed out met its deadline: the run's own r.cancel() and
\* a Cancel that came too late leave no trace in the result.
ContextOutcomeHasCause ==
  /\ result.status = "cancelled" => cause \in {"caller", "parent"}
  /\ result.err = "timeout" => cause = "timeout"

\* A completed run has put a final event into the stream or its process exited
\* cleanly, and no fatal event came through.
CompletedIsEarned ==
  outcome.status = "completed" =>
    /\ how = "ok" \/ \E i \in 1 .. Len(stream) : stream[i] = "final"
    /\ \A i \in 1 .. Len(stream) : stream[i] \notin Fatal

\* A rate limit is reported only on evidence: text in the stderr buffer or the
\* log, or a fatal rate-limit event the caller can find in the stream.
RateLimitIsEvidenced ==
  result.err = "rate_limit" =>
    \/ stderr = "buffer" \/ logRate
    \/ \E i \in 1 .. Len(stream) : stream[i] = "fatal_rate"

\* Unless the system refuses the signals, whoever returns from r.cleanup leaves
\* no running leader behind, even when SIGTERM was ignored.
CleanupStopsLeader == once = "done" /\ ~KillMayFail => proc # "running"

\* The handle keeps the contract of the Run interface.
Contract == INSTANCE RunContract
  WITH outcome <- result, doneClosed <- done, eventsClosed <- ~open,
       stopAsked <- start = "started" /\ cause # "none"

\* Safety and liveness of the contract: one result, fixed before done and the
\* stream close, and a run whose context is over ends.
KeepsContract == Contract!Spec

\* Whoever calls Cancel gets the run to its end, though r.cancel() comes only
\* after the cleanup and the caller may never read an event.
CancelEndsRun == \A c \in Callers : cpc[c] # "idle" ~> done

\* No goroutine of a run outlives it.
GoroutinesEnd ==
  done ~> /\ rpc = "end" /\ wpc = "end" /\ lpc = "end" /\ spc = "done"
          /\ \A c \in Callers : cpc[c] \in {"idle", "returned"}

\* A drained run of a process that writes its records and exits, and whose child
\* lets go of the pipes, comes to an end by itself: no deadline and no Cancel is
\* needed.
RunEnds == WellBehaved => (start = "started" ~> done)

-----------------------------------------------------------------------------
(* What the documentation says and the code does not do.                   *)

\* "A run that has already transitioned to the cancelled lifecycle is now
\* reported as `cancellation`" (CHANGELOG.md).
CancelledIsReported == done /\ lifecycle = "cancelled" => result.err = "cancellation"

\* "Malformed output before a final result fails the run" (docs/opencode-adapter.md).
MalformedFailsRun == decodeErr = "malformed" ~> done

\* "Explicit provider failures such as rate-limit classifications still override
\* a final event when the stderr evidence is strong" (CHANGELOG.md).
StderrEvidenceCounts ==
  done /\ how = "fail" /\ decodeErr = "nil" /\ cause = "finish" /\ stderr # "none"
    => result.err = "rate_limit"

\* "The cleanup path also needs to terminate any subprocesses the CLI may have
\* spawned so tests and real runs do not leave stragglers behind" (CHANGELOG.md).
NoStragglers == done /\ (\E c \in Callers : cpc[c] = "returned") => child = "none"
=============================================================================
