--------------------------- MODULE ValidatingRun ---------------------------
(***************************************************************************)
(* One logical run of ValidatingRuntime (validation.go): the goroutine     *)
(* execute() that starts a run of the wrapped runtime, validates what it   *)
(* left behind and has it repaired by further runs, the goroutine that     *)
(* forwards the events of the inner run, and the callers of Cancel.  Of an *)
(* inner run only RunContract is assumed.                                  *)
(*                                                                         *)
(* The work directory holds one Markdown artifact, checked against a       *)
(* template; the other expectations and the caller's validators are one    *)
(* check that may come out any way.                                        *)
(***************************************************************************)
EXTENDS Naturals, Sequences, SequencesExt

CONSTANTS
  Callers,     \* goroutines that may call Cancel
  Specs,       \* the ValidationSpecs a run may be given
  Artifacts,   \* what an inner run may leave in the work directory
  Errors,      \* the categories an inner run may fail with
  EventCap,    \* capacity of r.events (64 in the code)
  MaxEvents,   \* bound: the events an inner run emits
  CtxCauses    \* how the context given to StartRun may end

Status == {"completed", "failed", "cancelled"}
Category == {"none", "cancellation", "timeout", "permission", "runtime_exit", "validation",
             "repair_exhausted"}

\* template: the headings of the template; required: its severity; max,
\* continue, fallback, onError: Repair.MaxAttempts, whether the repair request
\* continues the session, AllowFreshSessionFallback, FreshSessionFallbackOnError;
\* hook: a ShouldRepair of the caller's own.
Spec_ == [template : Seq(STRING), required : BOOLEAN, max : Nat, continue : BOOLEAN,
          fallback : BOOLEAN, onError : BOOLEAN, hook : BOOLEAN]

\* The artifact: can it be read, its headings, placeholders left in it.
Artifact == [readable : BOOLEAN, headings : Seq(STRING), slots : BOOLEAN]
NoArtifact == [readable |-> FALSE, headings |-> <<>>, slots |-> FALSE]

ASSUME ValidationAssumption ==
  /\ Specs \subseteq Spec_ /\ Artifacts \subseteq Artifact
  /\ Errors \subseteq Category \ {"none", "cancellation"}
  /\ EventCap \in Nat \ {0} /\ MaxEvents \in Nat
  /\ CtxCauses \subseteq {"parent", "timeout"}

Outcomes == [status : Status, err : Category]
NoOutcome == [status |-> "empty", err |-> "none"]

VARIABLES
  spec,      \* r.spec
  pc,        \* execute(): program counter
  phase,     \* what the inner run is for: "first", "repair", "fallback"
  last,      \* execute(): what startAndWait returned: err, and was the session unsupported
  out,       \* execute(): events it is about to send, one after the other
  history,   \* execute(): did each validation pass
  repairs,   \* execute(): number of repairSummaries
  started,   \* history: the number of inner runs started
  late,      \* history: the runs started on a context that was over
  cause,     \* why r.ctx is over; "none" while it is not
  current,   \* r.current is set
  cpc,       \* Cancel: program counter of each caller
  result,    \* r.result, what Wait returns
  done,      \* r.done is closed
  events,    \* the number of events in r.events
  open,      \* r.events is not closed
  newest,    \* history: the newest event put into it, and the inner runs started by then
  fwd,       \* the forwarding goroutine: "none", "range", "send", "done"
  artifact,  \* the artifact in the work directory
  iLive,     \* an inner run's handle exists
  iResult, iDone, iClosed, iStop,  \* that handle, as RunContract sees it
  iEvents,   \* events in the inner run's channel
  iEmitted   \* events the inner run has emitted

loopVars   == <<phase, last, out, history, repairs, started, late>>
endVars    == <<result, done>>
chanVars   == <<events, open, newest>>
handleVars == <<iResult, iDone, iClosed, iStop>>
innerVars  == <<artifact, iLive, handleVars, iEvents, iEmitted>>

vars == <<spec, pc, loopVars, cause, current, cpc, endVars, chanVars, fwd, innerVars>>

\* The inner run's handle; stopAsked is the end of its context.
Inner == INSTANCE RunContract
  WITH outcome <- iResult, doneClosed <- iDone, eventsClosed <- iClosed, stopAsked <- iStop

NotReturned == [err |-> "none", unsupported |-> FALSE]

Init ==
  /\ spec \in Specs /\ pc = "start" /\ phase = "first" /\ last = NotReturned /\ out = <<>>
  /\ history = <<>> /\ repairs = 0 /\ started = 0 /\ late = 0
  /\ cause = "none" /\ current = FALSE /\ cpc = [c \in Callers |-> "idle"]
  /\ result = NoOutcome /\ done = FALSE
  /\ events = 0 /\ open = TRUE /\ newest = [kind |-> "inner", run |-> 0] /\ fwd = "none"
  /\ artifact = NoArtifact /\ iLive = FALSE
  /\ iResult = NoOutcome /\ iDone = FALSE /\ iClosed = FALSE /\ iStop = FALSE
  /\ iEvents = 0 /\ iEmitted = 0

-----------------------------------------------------------------------------
(* Contexts and events.                                                    *)

endCtx(why) == cause' = IF cause = "none" THEN why ELSE cause

\* contextValidationError(r.ctx.Err())
contextValidationError == IF cause = "timeout" THEN "timeout" ELSE "cancellation"

\* Mutant: a send that does not look at the capacity.
sendEventUnbounded(kind) ==
  /\ events' = events + 1
  /\ newest' = [kind |-> kind, run |-> started]
  /\ UNCHANGED open

\* sendEvent: into the channel; dropped without a trace when that is full, and
\* perhaps when the context is over.
sendEvent(kind) ==
  /\ \/ /\ events < EventCap
        /\ events' = events + 1
        /\ newest' = [kind |-> kind, run |-> started]
     \/ (events = EventCap \/ cause # "none") /\ UNCHANGED <<events, newest>>
  /\ UNCHANGED open

\* execute() sends the next of its own events.
Say ==
  /\ out # <<>>
  /\ out' = Tail(out)
  /\ sendEvent(Head(out))
  /\ UNCHANGED <<spec, pc, phase, last, history, repairs, started, late, cause, current, cpc,
                 endVars, fwd, innerVars>>

\* execute() is at p with nothing left to send.
at(p) == pc = p /\ out = <<>>

-----------------------------------------------------------------------------
(* startAndWait.                                                           *)

\* Both ways StartRun can end count as one run.
starts ==
  /\ at("start")
  /\ started' = started + 1
  /\ late' = IF cause = "none" THEN late ELSE late + 1

returned(e, unsupported) ==
  /\ pc' = "returned"
  /\ last' = [err |-> e, unsupported |-> unsupported]

startErrors == Errors \cup (IF cause = "none" THEN {} ELSE {contextValidationError})

StartFails(e) ==
  /\ starts
  /\ returned(e, FALSE)
  /\ UNCHANGED <<spec, phase, out, history, repairs, cause, current, cpc, endVars, chanVars, fwd,
                 innerVars>>

\* The inner run starts on r.ctx.
StartInner ==
  /\ starts
  /\ pc' = "set_current"
  /\ iLive' = TRUE
  /\ UNCHANGED <<spec, phase, last, out, history, repairs, cause, current, cpc, endVars, chanVars,
                 fwd, artifact, handleVars, iEvents, iEmitted>>

\* setCurrent, and the goroutine that forwards the events.
SetCurrent ==
  /\ pc = "set_current"
  /\ pc' = "wait"
  /\ current' = TRUE
  /\ fwd' = "range"
  /\ UNCHANGED <<spec, loopVars, cause, cpc, endVars, chanVars, innerVars>>

\* run.Wait(r.ctx) returns the result of the inner run, whose metadata may say
\* that continuing the session was unsupported, or an empty one because the
\* context is over; when both are ready, either.
InnerWait ==
  /\ pc = "wait"
  /\ \/ /\ iDone
        /\ \E u \in {FALSE, spec.continue /\ phase = "repair"} :
             last' = [err |-> iResult.err, unsupported |-> u]
     \/ cause # "none" /\ last' = [NotReturned EXCEPT !.err = contextValidationError]
  /\ pc' = "drain"
  /\ UNCHANGED <<spec, phase, out, history, repairs, started, late, cause, current, cpc, endVars,
                 chanVars, fwd, innerVars>>

\* Mutant: the inner run is over while its events are still forwarded.
DrainEventsNot ==
  /\ pc = "drain"
  /\ pc' = "returned"
  /\ current' = FALSE
  /\ UNCHANGED <<spec, loopVars, cause, cpc, endVars, chanVars, fwd, innerVars>>

\* <-eventsDone, then clearCurrent: the handle is forgotten.
DrainEvents ==
  /\ pc = "drain"
  /\ fwd = "done"
  /\ pc' = "returned"
  /\ fwd' = "none"
  /\ current' = FALSE
  /\ iLive' = FALSE /\ iResult' = NoOutcome /\ iDone' = FALSE /\ iClosed' = FALSE
  /\ iStop' = FALSE /\ iEvents' = 0 /\ iEmitted' = 0
  /\ UNCHANGED <<spec, loopVars, cause, cpc, endVars, chanVars, artifact>>

-----------------------------------------------------------------------------
(* finish and the way out.                                                 *)

statusForError(err) == CASE err = "none"         -> "completed"
                         [] err = "cancellation" -> "cancelled"
                         [] OTHER                -> "failed"

finish(err) ==
  /\ pc' = "defer_cancel"
  /\ result' = [status |-> statusForError(err), err |-> err]
  /\ UNCHANGED done

\* The deferred r.cancel(), close(r.events) and close(r.done), in order.
DeferCancel ==
  /\ pc = "defer_cancel"
  /\ pc' = "close_events"
  /\ endCtx("finish")
  /\ UNCHANGED <<spec, loopVars, current, cpc, endVars, chanVars, fwd, innerVars>>

CloseEvents ==
  /\ pc = "close_events"
  /\ pc' = "close_done"
  /\ open' = FALSE
  /\ UNCHANGED <<spec, loopVars, cause, current, cpc, endVars, events, newest, fwd, innerVars>>

\* Mutant: the last deferred call is missing.
CloseDoneNot ==
  /\ pc = "close_done"
  /\ pc' = "end"
  /\ UNCHANGED <<spec, loopVars, cause, current, cpc, endVars, chanVars, fwd, innerVars>>

CloseDone ==
  /\ pc = "close_done"
  /\ pc' = "end"
  /\ done' = TRUE
  /\ UNCHANGED <<spec, loopVars, cause, current, cpc, result, chanVars, fwd, innerVars>>

-----------------------------------------------------------------------------
(* ValidateRun.                                                            *)

\* Where the document has heading h, from place pos on.
occurrences(observed, pos, h) == {i \in pos .. Len(observed) : observed[i] = h}

\* The search for h moves the cursor past it; one that fails exhausts the document.
searchFrom(observed, pos, h) ==
  IF occurrences(observed, pos, h) = {} THEN Len(observed) + 1
  ELSE Min(occurrences(observed, pos, h)) + 1

\* The cursor after the search for each of the expected headings, before any at 0.
cursor(expected, observed) ==
  LET pos[i \in 0 .. Len(expected)] ==
        IF i = 0 THEN 1 ELSE searchFrom(observed, pos[i - 1], expected[i])
  IN  pos

\* Mutant: the search for each heading starts over.
missingAnywhere(expected, observed) ==
  {i \in DOMAIN expected : occurrences(observed, 1, expected[i]) = {}}

\* missingInOrder: which of the expected headings are not found, each searched
\* from where the search before it ended.
missingInOrder(expected, observed) ==
  {i \in DOMAIN expected :
     occurrences(observed, cursor(expected, observed)[i - 1], expected[i]) = {}}

validateMarkdownTemplate ==
  /\ artifact.readable
  /\ spec.template # <<>>
  /\ missingInOrder(spec.template, artifact.headings) = {}
  /\ ~artifact.slots

\* How any other expectation or a validator of the caller may come out.
Checks == [skipped : BOOLEAN, passed : BOOLEAN, required : BOOLEAN]

\* aggregateValidation: only a required check that ran and failed counts.
aggregateValidation(checks) == \A c \in checks : c.skipped \/ c.passed \/ ~c.required

ValidateRun(other) ==
  aggregateValidation({[skipped |-> FALSE, passed |-> validateMarkdownTemplate,
                        required |-> spec.required], other})

-----------------------------------------------------------------------------
(* execute(): what follows the first run.                                  *)

\* Mutant: no return after the result is stored.
FirstReturnedGoesOn ==
  /\ at("returned") /\ phase = "first"
  /\ pc' = "validate"
  /\ out' = <<"validating", "validation.started">>
  /\ result' = IF last.err = "none" THEN result
               ELSE [status |-> statusForError(last.err), err |-> last.err]
  /\ UNCHANGED <<spec, phase, last, history, repairs, started, late, cause, current, cpc, done,
                 chanVars, fwd, innerVars>>

\* An inner run that failed ends the logical run; any other is validated.
FirstReturned ==
  /\ at("returned") /\ phase = "first"
  /\ \/ last.err # "none" /\ finish(last.err) /\ UNCHANGED out
     \/ /\ last.err = "none"
        /\ pc' = "validate"
        /\ out' = <<"validating", "validation.started">>
        /\ UNCHANGED endVars
  /\ UNCHANGED <<spec, phase, last, history, repairs, started, late, cause, current, cpc, chanVars,
                 fwd, innerVars>>

\* Mutant: the context is not looked at after the checks.
ValidateUnchecked ==
  /\ at("validate")
  /\ \E other \in Checks : history' = Append(history, ValidateRun(other))
  /\ out' = <<"validation.completed", "completed">>
  /\ pc' = "decide"
  /\ UNCHANGED <<spec, phase, last, repairs, started, late, cause, current, cpc, endVars,
                 chanVars, fwd, innerVars>>

\* The checks and, after them, the look at the context.  The lifecycle is said to
\* be completed whatever the checks found.
Validate ==
  /\ at("validate")
  /\ \/ /\ cause = "none"
        /\ \E other \in Checks : history' = Append(history, ValidateRun(other))
        /\ out' = <<"validation.completed", "completed">>
        /\ pc' = "decide"
     \/ /\ cause # "none"
        /\ out' = <<"cancelled">>
        /\ pc' = "cancelled"
        /\ UNCHANGED history
  /\ UNCHANGED <<spec, phase, last, repairs, started, late, cause, current, cpc, endVars,
                 chanVars, fwd, innerVars>>

ValidationCancelled ==
  /\ at("cancelled")
  /\ finish(contextValidationError)
  /\ UNCHANGED <<spec, loopVars, cause, current, cpc, chanVars, fwd, innerVars>>

passed == history[Len(history)]

ValidationPassed ==
  /\ at("decide") /\ passed
  /\ finish("none")
  /\ UNCHANGED <<spec, loopVars, cause, current, cpc, chanVars, fwd, innerVars>>

\* shouldRepair, up to the caller's hook: repairCtx.Attempt is repairs + 1.
repairLeft == spec.max > 0 /\ repairs + 1 <= spec.max

ValidationFailed ==
  /\ at("decide") /\ ~passed
  /\ ~repairLeft \/ spec.hook
  /\ finish(IF spec.max > 0 /\ repairs >= spec.max THEN "repair_exhausted" ELSE "validation")
  /\ UNCHANGED <<spec, loopVars, cause, current, cpc, chanVars, fwd, innerVars>>

-----------------------------------------------------------------------------
(* runRepair.                                                              *)

\* What the work directory holds is now the repair's to say (InnerSettles): nobody
\* looks at it before.
RepairStarts ==
  /\ at("decide") /\ ~passed /\ repairLeft
  /\ out' = <<"repairing", "repair.started">>
  /\ phase' = "repair"
  /\ pc' = "start"
  /\ artifact' = NoArtifact
  /\ UNCHANGED <<spec, last, history, repairs, started, late, cause, current, cpc, endVars,
                 chanVars, fwd, iLive, handleVars, iEvents, iEmitted>>

freshRepairFallbackAllowed == last.err \notin {"none", "cancellation", "timeout", "permission"}

unsupportedContinue == last.unsupported
failedContinue == spec.continue /\ spec.onError /\ freshRepairFallbackAllowed

\* The repair that continued the session is tried once more in a fresh one.
tryFresh == phase = "repair" /\ (unsupportedContinue \/ failedContinue) /\ spec.fallback

RepairFallsBack ==
  /\ at("returned") /\ phase # "first"
  /\ tryFresh
  /\ phase' = "fallback"
  /\ pc' = "start"
  /\ UNCHANGED <<spec, last, out, history, repairs, started, late, cause, current, cpc, endVars,
                 chanVars, fwd, innerVars>>

\* Mutant: a session that could not be continued is no error of its own; this is
\* what docs/wrappers.md:92 says of a denied permission.
repairErrorOfRun == last.err

\* The error runRepair returns: that of the run, unless the session could not be
\* continued and no fallback is allowed.
repairError == IF phase = "repair" /\ unsupportedContinue THEN "repair_exhausted" ELSE last.err

\* The repair is summarised and announced; without an error its output is validated.
RepairReturned ==
  /\ at("returned") /\ phase # "first" /\ ~tryFresh
  /\ repairs' = repairs + 1
  /\ \/ /\ repairError # "none"
        /\ pc' = "repair_failed"
        /\ out' = <<"repair.failed">>
     \/ /\ repairError = "none"
        /\ pc' = "validate"
        /\ out' = <<"repair.completed", "validating", "validation.started">>
  /\ UNCHANGED <<spec, phase, last, history, started, late, cause, current, cpc, endVars,
                 chanVars, fwd, innerVars>>

RepairFailed ==
  /\ at("repair_failed")
  /\ finish(repairError)
  /\ UNCHANGED <<spec, loopVars, cause, current, cpc, chanVars, fwd, innerVars>>

-----------------------------------------------------------------------------
(* forwardEvents.                                                          *)

ForwardReceive ==
  /\ fwd = "range"
  /\ iEvents > 0
  /\ iEvents' = iEvents - 1
  /\ fwd' = "send"
  /\ UNCHANGED <<spec, pc, loopVars, cause, current, cpc, endVars, chanVars, artifact, iLive,
                 handleVars, iEmitted>>

ForwardSend ==
  /\ fwd = "send"
  /\ fwd' = "range"
  /\ sendEvent("inner")
  /\ UNCHANGED <<spec, pc, loopVars, cause, current, cpc, endVars, innerVars>>

ForwardEnd ==
  /\ fwd = "range"
  /\ iEvents = 0 /\ iClosed
  /\ fwd' = "done"
  /\ UNCHANGED <<spec, pc, loopVars, cause, current, cpc, endVars, chanVars, innerVars>>

-----------------------------------------------------------------------------
(* Cancel.                                                                 *)

CancelContext(c) ==
  /\ cpc[c] = "idle"
  /\ cpc' = [cpc EXCEPT ![c] = "cancel"]
  /\ endCtx("caller")
  /\ UNCHANGED <<spec, pc, loopVars, current, endVars, chanVars, fwd, innerVars>>

\* current.Cancel(ctx), when there is an inner run to cancel.
CancelCurrent(c) ==
  /\ cpc[c] = "cancel"
  /\ cpc' = [cpc EXCEPT ![c] = "returned"]
  /\ iStop' = (iStop \/ current)
  /\ UNCHANGED <<spec, pc, loopVars, cause, current, endVars, chanVars, fwd, artifact, iLive,
                 iResult, iDone, iClosed, iEvents, iEmitted>>

-----------------------------------------------------------------------------
(* The wrapped runtime, contexts and consumer: external.                   *)

innerMoves ==
  /\ iLive
  /\ UNCHANGED <<spec, pc, loopVars, cause, current, cpc, endVars, chanVars, fwd, iLive>>

\* What an inner run may report: cancelled only when its context is over.
innerOutcomes ==
  {[status |-> "completed", err |-> "none"]}
    \cup {[status |-> "failed", err |-> e] : e \in Errors}
    \cup (IF iStop THEN {[status |-> "cancelled", err |-> "cancellation"]} ELSE {})

\* An inner run ends, leaving any artifact behind; that of a failed run is never
\* looked at.
InnerSettles ==
  /\ \E o \in innerOutcomes : Inner!Settle(o)
  /\ IF iResult'.err = "none" THEN artifact' \in Artifacts ELSE UNCHANGED artifact
  /\ innerMoves
  /\ UNCHANGED <<iEvents, iEmitted>>

\* The inner run's context is derived from r.ctx.
InnerStops ==
  /\ cause # "none"
  /\ Inner!AskStop
  /\ innerMoves
  /\ UNCHANGED <<artifact, iEvents, iEmitted>>

InnerCloses ==
  /\ Inner!CloseDone \/ Inner!CloseEvents
  /\ innerMoves
  /\ UNCHANGED <<artifact, iEvents, iEmitted>>

InnerEmits ==
  /\ ~iClosed /\ iEmitted < MaxEvents
  /\ iEvents' = iEvents + 1
  /\ iEmitted' = iEmitted + 1
  /\ innerMoves
  /\ UNCHANGED <<artifact, handleVars>>

\* The context given to StartRun ends.
ContextEnds(why) ==
  /\ cause = "none"
  /\ cause' = why
  /\ UNCHANGED <<spec, pc, loopVars, current, cpc, endVars, chanVars, fwd, innerVars>>

Consume ==
  /\ events > 0
  /\ events' = events - 1
  /\ UNCHANGED <<spec, pc, loopVars, cause, current, cpc, endVars, open, newest, fwd, innerVars>>

-----------------------------------------------------------------------------
StartAndWait ==
  \/ StartInner \/ SetCurrent \/ InnerWait \/ DrainEvents
  \/ \E e \in startErrors : StartFails(e)

Loop ==
  \/ Say \/ StartAndWait \/ FirstReturned
  \/ Validate \/ ValidationCancelled \/ ValidationPassed \/ ValidationFailed
  \/ RepairStarts \/ RepairFallsBack \/ RepairReturned \/ RepairFailed

Finish == DeferCancel \/ CloseEvents \/ CloseDone

Forward == ForwardReceive \/ ForwardSend \/ ForwardEnd

InnerRuns == InnerSettles \/ InnerStops \/ InnerCloses \/ InnerEmits

\* The run is over and its stream is read.
Stop ==
  /\ pc = "end" /\ events = 0
  /\ UNCHANGED vars

Next ==
  \/ Loop \/ Finish \/ Forward \/ InnerRuns
  \/ \E c \in Callers : CancelContext(c) \/ CancelCurrent(c)
  \/ \E why \in CtxCauses : ContextEnds(why)
  \/ Consume
  \/ Stop

Spec == Init /\ [][Next]_vars

(***************************************************************************)
(* Fairness: goroutines that can run are scheduled, validators and hooks   *)
(* answer, and an inner run keeps its contract: it ends once its context   *)
(* is over.  Nothing is assumed of the caller.                             *)
(***************************************************************************)
ValidationFairness ==
  /\ WF_vars(Loop) /\ WF_vars(Finish) /\ WF_vars(Forward)
  /\ \A c \in Callers : WF_vars(CancelCurrent(c))
  /\ WF_vars(InnerStops) /\ WF_vars(iStop /\ InnerSettles) /\ WF_vars(InnerCloses)

FairSpec == Spec /\ ValidationFairness

-----------------------------------------------------------------------------
(* Properties.                                                             *)

ValidationPC == {"start", "set_current", "wait", "drain", "returned", "validate", "cancelled",
                 "decide", "repair_failed", "defer_cancel", "close_events", "close_done", "end"}

\* The order in which the events around one inner run are sent.
EventOrder == <<"inner", "repair.completed", "repair.failed", "validating", "validation.started",
                "validation.completed", "cancelled", "completed", "repairing", "repair.started">>
EventKind == Range(EventOrder)
Event == [kind : EventKind, run : Nat]

\* Every variable stays in its range, and the channel within its capacity.
TypeOK ==
  /\ spec \in Specs /\ pc \in ValidationPC /\ phase \in {"first", "repair", "fallback"}
  /\ last \in [err : Category, unsupported : BOOLEAN] /\ out \in Seq(EventKind)
  /\ history \in Seq(BOOLEAN) /\ repairs \in Nat /\ started \in Nat /\ late \in Nat
  /\ cause \in {"none", "caller", "finish", "parent", "timeout"}
  /\ current \in BOOLEAN /\ cpc \in [Callers -> {"idle", "cancel", "returned"}]
  /\ result \in Outcomes \cup {NoOutcome} /\ done \in BOOLEAN
  /\ events \in 0 .. EventCap /\ newest \in Event
  /\ open \in BOOLEAN /\ fwd \in {"none", "range", "send", "done"}
  /\ artifact \in Artifacts \cup {NoArtifact}
  /\ iLive \in BOOLEAN /\ iResult \in Outcomes \cup {NoOutcome}
  /\ iDone \in BOOLEAN /\ iClosed \in BOOLEAN /\ iStop \in BOOLEAN
  /\ iEvents \in Nat /\ iEmitted \in 0 .. MaxEvents

\* The headings of the template are those of the artifact with some left out:
\* there are places for them, one after the other.
templateMatches ==
  \E at_ \in [DOMAIN spec.template -> DOMAIN artifact.headings] :
    /\ \A i \in DOMAIN spec.template : artifact.headings[at_[i]] = spec.template[i]
    /\ \A i, j \in DOMAIN spec.template : i < j => at_[i] < at_[j]

\* A logical run completes only when its last inner run had no error and the
\* output that run left behind passed every required check: whatever was
\* repaired before, the artifact in the work directory matches its template.
CompletedIsValidated ==
  result.status = "completed" =>
    /\ history # <<>> /\ passed
    /\ last.err = "none"
    /\ spec.required => artifact.readable /\ ~artifact.slots /\ templateMatches

\* Repair is bounded: no more repairs than MaxAttempts, each in at most two runs,
\* and one validation for the first run and for each repair that worked.  However
\* Cancel falls between the end of one inner run and the start of the next, at most
\* one is started on a context that is already over; a second one only as the
\* fresh-session fallback of that one.
RepairsBounded ==
  /\ repairs <= spec.max
  /\ started <= 1 + spec.max * (IF spec.fallback THEN 2 ELSE 1)
  /\ Len(history) <= 1 + repairs
  /\ late <= IF phase = "fallback" THEN 2 ELSE 1

\* The error of the result is that of the last inner run, or of the context; a
\* failed validation is the reason only when no repair was left or wanted, and
\* exhaustion only when MaxAttempts repairs were made.  A repair that could not
\* continue the session is the exception: with no fallback to a fresh session it
\* is always exhaustion, whatever the run's own error was.  (docs/wrappers.md:92
\* says otherwise: "Permission denial during repair remains `ErrorPermission`.")
ResultExplained ==
  result # NoOutcome =>
    \/ last.unsupported /\ result.err = "repair_exhausted" /\ ~spec.fallback /\ spec.continue
    \/ /\ ~last.unsupported
       /\ \/ result.err = last.err /\ (last.err = "none" => passed)
          \/ result.err = "cancellation" /\ cause \in {"caller", "parent"} /\ last.err = "none"
          \/ result.err = "timeout" /\ cause = "timeout" /\ last.err = "none"
          \/ result.err = "validation" /\ last.err = "none" /\ ~passed
                   /\ (spec.max = 0 \/ (spec.hook /\ repairs < spec.max))
          \/ result.err = "repair_exhausted" /\ last.err = "none" /\ ~passed /\ repairs = spec.max

place(e) == CHOOSE i \in DOMAIN EventOrder : EventOrder[i] = e.kind

\* The forwarding goroutine of an inner run is gone before the run is validated,
\* repaired or finished: the stream tells the story in order, and nothing is sent
\* once it is closed (a send would panic: sendEvent does not recover).
StreamInOrder ==
  [][events' > events =>
       /\ open
       /\ \/ newest.run < newest'.run
          \/ newest.run = newest'.run /\ place(newest) <= place(newest')]_vars

\* The handle of the logical run keeps the contract of the Run interface, as long
\* as the handles of its inner runs do.
Contract == INSTANCE RunContract
  WITH outcome <- result, doneClosed <- done, eventsClosed <- ~open, stopAsked <- cause # "none"
KeepsContract == Contract!Spec

\* A run whose inner runs end by themselves ends by itself: repair is bounded, and
\* no wait is forever.
ValidatedRunEnds == WF_vars(InnerSettles) => <>done
=============================================================================
