---------------------------- MODULE PolicyRunner ----------------------------
(***************************************************************************)
(* One logical run of PolicyRunner (policy.go): the goroutine execute()    *)
(* that starts one attempt after the other as a resilience policy decides, *)
(* the goroutine that forwards the events of the attempt, and the callers  *)
(* of Cancel.  An attempt is a run handle of another runtime: all that is  *)
(* assumed of it is RunContract, which OpenCodeRun is shown to implement.  *)
(*                                                                         *)
(* A request is modelled by the alternatives whose settings were laid over *)
(* the original one; rate-limit details by the category of the error.      *)
(***************************************************************************)
EXTENDS Naturals

CONSTANTS
  Callers,       \* goroutines that may call Cancel
  Policies,      \* the policies a run may be given
  Alternatives,  \* number of fallback alternatives, targets 1 .. Alternatives
  MaxRounds,     \* bound: a caller's own policy stops after so many attempts
  Errors,        \* the categories an attempt may fail with
  EventCap,      \* capacity of r.events (64 in the code)
  MaxEvents,     \* bound: the events an attempt emits
  CtxCauses      \* how the context given to StartRun may end

Status == {"completed", "failed", "cancelled"}
Category == {"none", "cancellation", "timeout", "rate_limit", "runtime_exit", "unknown",
             "authentication", "configuration"}

\* BasicPolicy's MaxAttemptsPerTarget and RetryRateLimits, and whether MaxElapsed
\* is set; or a policy of the caller's own.
Policy == [custom : BOOLEAN, max : Nat, retryRateLimits : BOOLEAN, maxElapsed : BOOLEAN]

ASSUME PolicyAssumption ==
  /\ Policies \subseteq Policy /\ Alternatives \in Nat
  /\ MaxRounds \in Nat /\ MaxEvents \in Nat /\ EventCap \in Nat \ {0}
  /\ Errors \subseteq Category \ {"none", "cancellation"}
  /\ CtxCauses \subseteq {"parent", "timeout"}

Targets == 0 .. Alternatives
Outcomes == [status : Status, err : Category]
NoOutcome == [status |-> "empty", err |-> "none"]

\* A decision: what to do, after a delay or at once, on which target; err is
\* the error of a stop.
Decision == [kind : {"stop", "retry", "fallback", "other", "error"}, delay : BOOLEAN,
             target : Targets, err : Category]
NoDecision == [kind |-> "stop", delay |-> FALSE, target |-> 0, err |-> "none"]

VARIABLES
  policy,    \* r.policy
  pc,        \* execute(): program counter
  target,    \* execute(): targetIndex
  req,       \* execute(): the alternatives laid over the original request
  last,      \* execute(): last, with its error
  decision,  \* execute(): decision
  tries,     \* r.targetCounts
  attempts,  \* r.attempts: how many
  cause,     \* why r.ctx is over; "none" while it is not
  current,   \* r.current is set
  cpc,       \* Cancel: program counter of each caller
  result,    \* r.result, what Wait returns
  reported,  \* DroppedEvents of its metadata is not empty
  done,      \* r.done is closed
  events,    \* the number of events in r.events
  open,      \* r.events is not closed
  newest,    \* history: the attempt the newest event put into it is of
  missing,   \* history: an event is missing from it though nobody had stopped the run
  dropped,   \* r.droppedEvents is not empty
  fwd,       \* the forwarding goroutine: "none", "range", "send", "done"
  late,      \* history: the attempts started on a context that was over
  iLive,     \* an attempt's handle exists
  iResult, iDone, iClosed, iStop,  \* that handle, as RunContract sees it
  iEvents,   \* events in the attempt's channel
  iEmitted   \* events the attempt has emitted

loopVars   == <<target, req, last, decision, tries, attempts, late>>
endVars    == <<result, reported, done>>
chanVars   == <<events, open, newest, missing, dropped>>
handleVars == <<iResult, iDone, iClosed, iStop>>
innerVars  == <<iLive, handleVars, iEvents, iEmitted>>

vars == <<policy, pc, loopVars, cause, current, cpc, endVars, chanVars, fwd, innerVars>>

\* The attempt's handle; stopAsked is the end of its context.
Attempt == INSTANCE RunContract
  WITH outcome <- iResult, doneClosed <- iDone, eventsClosed <- iClosed, stopAsked <- iStop

Init ==
  /\ policy \in Policies /\ pc = "check" /\ target = 0 /\ req = {} /\ last = NoOutcome
  /\ decision = NoDecision
  /\ tries = [t \in Targets |-> 0] /\ attempts = 0 /\ late = 0
  /\ cause = "none" /\ current = FALSE /\ cpc = [c \in Callers |-> "idle"]
  /\ result = NoOutcome /\ reported = FALSE /\ done = FALSE
  /\ events = 0 /\ open = TRUE /\ newest = 0 /\ missing = FALSE /\ dropped = FALSE
  /\ fwd = "none" /\ iLive = FALSE
  /\ iResult = NoOutcome /\ iDone = FALSE /\ iClosed = FALSE /\ iStop = FALSE
  /\ iEvents = 0 /\ iEmitted = 0

-----------------------------------------------------------------------------
(* Contexts and events.                                                    *)

endCtx(why) == cause' = IF cause = "none" THEN why ELSE cause

\* contextPolicyError(r.ctx.Err())
contextPolicyError == IF cause = "timeout" THEN "timeout" ELSE "cancellation"

\* Mutants: an unbounded queue; a drop that is not recorded.
sendEventUnbounded(n) ==
  /\ events' = events + 1 /\ newest' = n
  /\ UNCHANGED <<missing, dropped, open>>

sendEventSilently(n) ==
  /\ \/ events < EventCap /\ events' = events + 1 /\ newest' = n /\ UNCHANGED missing
     \/ events = EventCap /\ missing' = TRUE /\ UNCHANGED <<events, newest>>
  /\ UNCHANGED <<dropped, open>>

\* sendEvent of an event of attempt n: it goes into the channel, or is recorded
\* as dropped when the channel is full; once the context is over it may also
\* vanish without a trace.
sendEvent(n) ==
  /\ \/ /\ events < EventCap
        /\ events' = events + 1 /\ newest' = n
        /\ UNCHANGED <<missing, dropped>>
     \/ /\ events = EventCap \/ cause # "none"
        /\ IF cause = "none" THEN missing' = TRUE /\ dropped' = TRUE
                             ELSE UNCHANGED <<missing, dropped>>
        /\ UNCHANGED <<events, newest>>
  /\ UNCHANGED open

-----------------------------------------------------------------------------
(* execute(): one turn of the loop.                                        *)

\* Mutant: an empty status is taken for success.
finishCompleted(status, err) ==
  /\ pc' = "defer_cancel"
  /\ result' = [status |-> IF status # "empty" THEN status ELSE "completed", err |-> err]
  /\ reported' = dropped
  /\ UNCHANGED done

\* finish: an empty status is derived from the error, and the dropped events
\* recorded so far go into the metadata.
finish(status, err) ==
  /\ pc' = "defer_cancel"
  /\ result' = [status |-> IF status # "empty" THEN status
                           ELSE IF err = "none" THEN "completed" ELSE "failed",
                err |-> err]
  /\ reported' = dropped
  /\ UNCHANGED done

\* The context check at the head of the loop; finishCancelled.
CheckContext ==
  /\ pc = "check"
  /\ IF cause = "none" THEN pc' = "start" /\ UNCHANGED endVars
                       ELSE finish("cancelled", contextPolicyError)
  /\ UNCHANGED <<policy, loopVars, cause, current, cpc, chanVars, fwd, innerVars>>

startErrors == Errors \cup (IF cause = "none" THEN {} ELSE {contextPolicyError})

\* runtime.StartRun fails: the attempt is over at once.
StartFails(e) ==
  /\ pc = "start"
  /\ pc' = "summarize"
  /\ tries' = [tries EXCEPT ![target] = @ + 1]
  /\ late' = IF cause = "none" THEN late ELSE late + 1
  /\ last' = [status |-> "failed", err |-> e]
  /\ UNCHANGED <<policy, target, req, decision, attempts, cause, current, cpc, endVars,
                 chanVars, fwd, innerVars>>

\* It succeeds, on a context derived from r.ctx.
StartAttempt ==
  /\ pc = "start"
  /\ pc' = "set_current"
  /\ tries' = [tries EXCEPT ![target] = @ + 1]
  /\ late' = IF cause = "none" THEN late ELSE late + 1
  /\ iLive' = TRUE
  /\ UNCHANGED <<policy, target, req, last, decision, attempts, cause, current, cpc, endVars,
                 chanVars, fwd, handleVars, iEvents, iEmitted>>

\* setCurrent, and the goroutine that forwards the events.
SetCurrent ==
  /\ pc = "set_current"
  /\ pc' = "wait"
  /\ current' = TRUE
  /\ fwd' = "range"
  /\ UNCHANGED <<policy, loopVars, cause, cpc, endVars, chanVars, innerVars>>

\* run.Wait(r.ctx) returns the result of the attempt, or an empty one because the
\* context is over; when both are ready, either.
AttemptWait ==
  /\ pc = "wait"
  /\ \/ iDone /\ last' = iResult
     \/ cause # "none" /\ last' = [status |-> "empty", err |-> contextPolicyError]
  /\ pc' = "drain"
  /\ UNCHANGED <<policy, target, req, decision, tries, attempts, late, cause, current, cpc,
                 endVars, chanVars, fwd, innerVars>>

\* Mutant: the attempt is over while its events are still forwarded.
DrainEventsNot ==
  /\ pc = "drain"
  /\ pc' = "summarize"
  /\ current' = FALSE
  /\ UNCHANGED <<policy, loopVars, cause, cpc, endVars, chanVars, fwd, innerVars>>

\* <-eventsDone, then clearCurrent: the handle is forgotten.
DrainEvents ==
  /\ pc = "drain"
  /\ fwd = "done"
  /\ pc' = "summarize"
  /\ fwd' = "none"
  /\ current' = FALSE
  /\ iLive' = FALSE /\ iResult' = NoOutcome /\ iDone' = FALSE /\ iClosed' = FALSE
  /\ iStop' = FALSE /\ iEvents' = 0 /\ iEmitted' = 0
  /\ UNCHANGED <<policy, loopVars, cause, cpc, endVars, chanVars>>

\* Mutant: no return after the result is stored.
SummarizeGoesOn ==
  /\ pc = "summarize"
  /\ attempts' = attempts + 1
  /\ IF last.err = "none"
     THEN pc' = "check" /\ result' = last /\ UNCHANGED <<reported, done>>
     ELSE pc' = "decide" /\ UNCHANGED endVars
  /\ UNCHANGED <<policy, target, req, last, decision, tries, late, cause, current, cpc,
                 chanVars, fwd, innerVars>>

\* summarizeAttempt; an attempt without an error ends the run.
Summarize ==
  /\ pc = "summarize"
  /\ attempts' = attempts + 1
  /\ IF last.err = "none" THEN finish(last.status, "none")
                          ELSE pc' = "decide" /\ UNCHANGED endVars
  /\ UNCHANGED <<policy, target, req, last, decision, tries, late, cause, current, cpc,
                 chanVars, fwd, innerVars>>

-----------------------------------------------------------------------------
(* The policy.                                                             *)

stop(e)  == [kind |-> "stop", delay |-> FALSE, target |-> target, err |-> e]
retry(d) == [kind |-> "retry", delay |-> d, target |-> target, err |-> "none"]
fallback(t) == [kind |-> "fallback", delay |-> FALSE, target |-> t, err |-> "none"]

defaultRetryable == last.err \in {"timeout", "runtime_exit", "rate_limit"}
defaultFallbackable == last.err \in {"timeout", "runtime_exit", "rate_limit", "unknown"}

hasFallback == target + 1 <= Alternatives

fallbackOrStop ==
  IF defaultFallbackable /\ hasFallback THEN fallback(target + 1) ELSE stop(last.err)

\* Mutant: one attempt too many.
canRetryOnceMore == tries[target] <= policy.max

canRetry == tries[target] < policy.max

\* BasicPolicy.Decide.  A retry is delayed or not, as the backoff and the rate
\* limit's own hints have it; the elapsed time may be exhausted at any decision.
basicDecisions ==
  IF cause # "none" THEN {stop(contextPolicyError)}
  ELSE (IF policy.maxElapsed THEN {stop(last.err)} ELSE {}) \cup
       IF \/ last.err = "rate_limit" /\ ~policy.retryRateLimits
          \/ last.err = "runtime_exit" /\ hasFallback /\ defaultFallbackable
          \/ ~(defaultRetryable /\ canRetry)
       THEN {fallbackOrStop} ELSE {retry(d) : d \in BOOLEAN}

\* A policy of the caller's own may fail, stop with the error at hand or one of its
\* own, retry, go to any target and answer with an unknown kind, each with a delay
\* or without, as long as it stops in the end.  Left out: a Request of its own
\* (decision.Request), a Target of its own, and a TargetIndex beyond the
\* alternatives, which the runner takes for the primary one.
customDecisions ==
  LET goOn == {[stop("none") EXCEPT !.kind = "other"]}
                \cup (IF attempts < MaxRounds
                      THEN {retry(FALSE)} \cup {fallback(t) : t \in Targets} ELSE {})
  IN  {stop("none"), stop("unknown"), [stop("unknown") EXCEPT !.kind = "error"]}
        \cup goOn \cup {[d EXCEPT !.delay = TRUE] : d \in goOn}

\* policy.Decide and normalizeDecision; an error ends the run.
Decide ==
  /\ pc = "decide"
  /\ decision' \in IF policy.custom THEN customDecisions ELSE basicDecisions
  /\ IF decision'.kind = "error" THEN finish(last.status, decision'.err)
                                 ELSE pc' = "record" /\ UNCHANGED endVars
  /\ UNCHANGED <<policy, target, req, last, tries, attempts, late, cause, current, cpc,
                 chanVars, fwd, innerVars>>

\* rateLimitFromResult
rateLimited == last.err = "rate_limit"

\* recordDecision, up to the event about a rate limit.
RecordRateLimit ==
  /\ pc = "record"
  /\ pc' = "announce"
  /\ IF decision.kind # "stop" /\ rateLimited
     THEN sendEvent(attempts) ELSE UNCHANGED chanVars
  /\ UNCHANGED <<policy, loopVars, cause, current, cpc, endVars, fwd, innerVars>>

\* A stop ends the run, with the error of the decision if it has one; any other
\* decision is announced with a retry or fallback event.
AnnounceDecision ==
  /\ pc = "announce"
  /\ \/ /\ decision.kind = "stop"
        /\ finish(last.status, IF decision.err # "none" THEN decision.err ELSE last.err)
        /\ UNCHANGED chanVars
     \/ /\ decision.kind # "stop"
        /\ sendEvent(attempts)
        /\ pc' = IF decision.delay THEN "sleep" ELSE "apply"
        /\ UNCHANGED endVars
  /\ UNCHANGED <<policy, loopVars, cause, current, cpc, fwd, innerVars>>

\* Mutant: the timer never ends the wait.
SleepOverNever == pc = "sleep" /\ UNCHANGED vars

\* r.sleep(r.ctx, decision.Delay)
SleepOver ==
  /\ pc = "sleep"
  /\ pc' = "apply"
  /\ UNCHANGED <<policy, loopVars, cause, current, cpc, endVars, chanVars, fwd, innerVars>>

SleepCancelled ==
  /\ pc = "sleep"
  /\ cause # "none"
  /\ finish(last.status, contextPolicyError)
  /\ UNCHANGED <<policy, loopVars, cause, current, cpc, chanVars, fwd, innerVars>>

\* Mutant: the settings are laid over the current request.
fallbackRequestStacked(t) == req \cup (IF t = 0 THEN {} ELSE {t})

\* fallbackRequest: the original request with the settings of the target.
fallbackRequest(t) == IF t = 0 THEN {} ELSE {t}

\* The next target and request; an unknown kind of decision ends the run.  The
\* next turn reads neither this decision nor the outcome it is about.
ApplyDecision ==
  /\ pc = "apply"
  /\ \/ /\ decision.kind = "other"
        /\ finish(last.status, "configuration")
        /\ UNCHANGED <<target, req, last, decision>>
     \/ /\ decision.kind \in {"retry", "fallback"}
        /\ target' = decision.target
        /\ req' = IF decision.kind = "retry" THEN req ELSE fallbackRequest(decision.target)
        /\ pc' = "check" /\ last' = NoOutcome /\ decision' = NoDecision
        /\ UNCHANGED endVars
  /\ UNCHANGED <<policy, tries, attempts, late, cause, current, cpc, chanVars, fwd, innerVars>>

-----------------------------------------------------------------------------
(* The deferred r.cancel(), close(r.events) and close(r.done), in order.   *)

DeferCancel ==
  /\ pc = "defer_cancel"
  /\ pc' = "close_events"
  /\ endCtx("finish")
  /\ UNCHANGED <<policy, loopVars, current, cpc, endVars, chanVars, fwd, innerVars>>

CloseEvents ==
  /\ pc = "close_events"
  /\ pc' = "close_done"
  /\ open' = FALSE
  /\ UNCHANGED <<policy, loopVars, cause, current, cpc, endVars, events, newest, missing,
                 dropped, fwd, innerVars>>

CloseDone ==
  /\ pc = "close_done"
  /\ pc' = "end"
  /\ done' = TRUE
  /\ UNCHANGED <<policy, loopVars, cause, current, cpc, result, reported, chanVars, fwd,
                 innerVars>>

-----------------------------------------------------------------------------
(* forwardEvents.                                                          *)

ForwardReceive ==
  /\ fwd = "range"
  /\ iEvents > 0
  /\ iEvents' = iEvents - 1
  /\ fwd' = "send"
  /\ UNCHANGED <<policy, pc, loopVars, cause, current, cpc, endVars, chanVars, iLive,
                 handleVars, iEmitted>>

ForwardSend ==
  /\ fwd = "send"
  /\ fwd' = "range"
  /\ sendEvent(attempts + 1)
  /\ UNCHANGED <<policy, pc, loopVars, cause, current, cpc, endVars, innerVars>>

\* The attempt's channel is closed and empty.
ForwardEnd ==
  /\ fwd = "range"
  /\ iEvents = 0 /\ iClosed
  /\ fwd' = "done"
  /\ UNCHANGED <<policy, pc, loopVars, cause, current, cpc, endVars, chanVars, innerVars>>

-----------------------------------------------------------------------------
(* Cancel.                                                                 *)

CancelContext(c) ==
  /\ cpc[c] = "idle"
  /\ cpc' = [cpc EXCEPT ![c] = "cancel"]
  /\ endCtx("caller")
  /\ UNCHANGED <<policy, pc, loopVars, current, endVars, chanVars, fwd, innerVars>>

\* current.Cancel(ctx), when there is an attempt to cancel.
CancelCurrent(c) ==
  /\ cpc[c] = "cancel"
  /\ cpc' = [cpc EXCEPT ![c] = "returned"]
  /\ iStop' = (iStop \/ current)
  /\ UNCHANGED <<policy, pc, loopVars, cause, current, endVars, chanVars, fwd, iLive, iResult,
                 iDone, iClosed, iEvents, iEmitted>>

-----------------------------------------------------------------------------
(* The attempt's runtime, contexts and consumer: external.                 *)

attemptMoves ==
  /\ iLive
  /\ UNCHANGED <<policy, pc, loopVars, cause, current, cpc, endVars, chanVars, fwd, iLive>>

\* What an attempt may report: cancelled only when its context is over.
attemptOutcomes ==
  {[status |-> "completed", err |-> "none"]}
    \cup {[status |-> "failed", err |-> e] : e \in Errors}
    \cup (IF iStop THEN {[status |-> "cancelled", err |-> "cancellation"]} ELSE {})

AttemptSettles ==
  /\ \E o \in attemptOutcomes : Attempt!Settle(o)
  /\ attemptMoves
  /\ UNCHANGED <<iEvents, iEmitted>>

\* The attempt's context is derived from r.ctx.
AttemptStops ==
  /\ cause # "none"
  /\ Attempt!AskStop
  /\ attemptMoves
  /\ UNCHANGED <<iEvents, iEmitted>>

AttemptCloses ==
  /\ Attempt!CloseDone \/ Attempt!CloseEvents
  /\ attemptMoves
  /\ UNCHANGED <<iEvents, iEmitted>>

AttemptEmits ==
  /\ ~iClosed /\ iEmitted < MaxEvents
  /\ iEvents' = iEvents + 1
  /\ iEmitted' = iEmitted + 1
  /\ attemptMoves
  /\ UNCHANGED handleVars

\* The context given to StartRun ends.
ContextEnds(why) ==
  /\ cause = "none"
  /\ cause' = why
  /\ UNCHANGED <<policy, pc, loopVars, current, cpc, endVars, chanVars, fwd, innerVars>>

Consume ==
  /\ events > 0
  /\ events' = events - 1
  /\ UNCHANGED <<policy, pc, loopVars, cause, current, cpc, endVars, open, newest, missing,
                 dropped, fwd, innerVars>>

-----------------------------------------------------------------------------
Loop ==
  \/ CheckContext \/ StartAttempt \/ SetCurrent \/ AttemptWait \/ DrainEvents \/ Summarize
  \/ \E e \in startErrors : StartFails(e)
  \/ Decide \/ RecordRateLimit \/ AnnounceDecision \/ SleepOver \/ SleepCancelled
  \/ ApplyDecision

Finish == DeferCancel \/ CloseEvents \/ CloseDone

Forward == ForwardReceive \/ ForwardSend \/ ForwardEnd

AttemptRuns == AttemptSettles \/ AttemptStops \/ AttemptCloses \/ AttemptEmits

\* The run is over and its stream is read.
Stop ==
  /\ pc = "end" /\ events = 0
  /\ UNCHANGED vars

Next ==
  \/ Loop \/ Finish \/ Forward \/ AttemptRuns
  \/ \E c \in Callers : CancelContext(c) \/ CancelCurrent(c)
  \/ \E why \in CtxCauses : ContextEnds(why)
  \/ Consume
  \/ Stop

Spec == Init /\ [][Next]_vars

(***************************************************************************)
(* Fairness: goroutines that can run are scheduled, timers fire, a policy  *)
(* answers, and an attempt keeps its contract: it ends once its context is *)
(* over.  Nothing is assumed of the caller, who need not read an event.    *)
(***************************************************************************)
RunnerFairness ==
  /\ WF_vars(Loop) /\ WF_vars(Finish) /\ WF_vars(Forward)
  /\ \A c \in Callers : WF_vars(CancelCurrent(c))
  /\ WF_vars(AttemptStops) /\ WF_vars(iStop /\ AttemptSettles) /\ WF_vars(AttemptCloses)

FairSpec == Spec /\ RunnerFairness

-----------------------------------------------------------------------------
(* Properties.                                                             *)

RunnerPC == {"check", "start", "set_current", "wait", "drain", "summarize", "decide", "record",
             "announce", "sleep", "apply", "defer_cancel", "close_events", "close_done", "end"}

\* Every variable stays in its range, and the channel within its capacity.
TypeOK ==
  /\ policy \in Policies /\ pc \in RunnerPC /\ target \in Targets /\ req \subseteq Targets
  /\ last \in [status : Status \cup {"empty"}, err : Category] /\ decision \in Decision
  /\ tries \in [Targets -> Nat] /\ attempts \in Nat /\ late \in Nat
  /\ cause \in {"none", "caller", "finish", "parent", "timeout"}
  /\ current \in BOOLEAN /\ cpc \in [Callers -> {"idle", "cancel", "returned"}]
  /\ result \in Outcomes \cup {NoOutcome} /\ reported \in BOOLEAN /\ done \in BOOLEAN
  /\ events \in 0 .. EventCap /\ newest \in Nat
  /\ open \in BOOLEAN /\ missing \in BOOLEAN /\ dropped \in BOOLEAN
  /\ fwd \in {"none", "range", "send", "done"}
  /\ iLive \in BOOLEAN /\ iResult \in Outcomes \cup {NoOutcome}
  /\ iDone \in BOOLEAN /\ iClosed \in BOOLEAN /\ iStop \in BOOLEAN
  /\ iEvents \in Nat /\ iEmitted \in 0 .. MaxEvents

\* BasicPolicy keeps its bounds: no target gets more attempts than
\* MaxAttemptsPerTarget (one, when that is zero), and the run takes the
\* alternatives in order: none after the current one has been tried.  Whatever a
\* policy answers, at most one attempt starts on a context that is already over:
\* the one that had passed the check before.
AttemptsBounded ==
  /\ ~policy.custom =>
       /\ \A t \in Targets : tries[t] <= 1 \/ tries[t] <= policy.max
       /\ \A t \in Targets : t > target => tries[t] = 0
  /\ late <= 1

\* The error of the result is that of the last attempt or of the context, or one
\* that a caller's own policy made up; a completed run is one without an error,
\* and only a run whose context was over is cancelled.
ResultExplained ==
  result # NoOutcome =>
    /\ \/ attempts > 0 /\ result.err = last.err
       \/ cause \in {"caller", "parent"} /\ result.err = "cancellation"
       \/ cause = "timeout" /\ result.err = "timeout"
       \/ policy.custom /\ result.err \in {"configuration", "unknown"}
    /\ result.status = "completed" <=> result.err = "none"
    /\ result.status = "cancelled" => cause \in {"caller", "parent", "timeout"}

\* The request an attempt is started with is the original one with the settings
\* of its own target, and of no alternative tried before it.
RequestIsFresh == pc = "start" => req = {target} \ {0}

\* The forwarding goroutine of one attempt is gone before the next attempt
\* starts: the stream never mixes attempts, and nothing is sent when it closes
\* (a send would panic the program: sendEvent does not recover).
AttemptsInOrder == [][events' > events => open /\ newest <= newest']_vars

\* The result tells of dropped events exactly when an event is missing from the
\* stream, whichever attempt it was of, up to where the context was over.
DropsAreReported == result # NoOutcome => missing = reported

\* The handle of the logical run keeps the contract of the Run interface, as long
\* as the handles of its attempts do.
Contract == INSTANCE RunContract
  WITH outcome <- result, doneClosed <- done, eventsClosed <- ~open, stopAsked <- cause # "none"
KeepsContract == Contract!Spec

\* A run whose attempts end by themselves ends by itself: retries and fallbacks
\* are bounded, and no wait is forever.
PolicyRunEnds == WF_vars(AttemptSettles) => <>done
=============================================================================
