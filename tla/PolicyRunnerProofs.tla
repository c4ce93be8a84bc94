------------------------- MODULE PolicyRunnerProofs -------------------------
(***************************************************************************)
(* Theorems about PolicyRunner, for every set of policies, any number of   *)
(* alternatives and callers, every capacity and every choice of the other  *)
(* constants.                                                              *)
(*                                                                         *)
(* The inductive invariant says, conjunct by conjunct, what holds at each  *)
(* point of execute():                                                     *)
(*   PhaseInv     which goroutine and which handle exist, what is closed   *)
(*   CauseInv     a cancellation has its cause, also one that an attempt   *)
(*                reported                                                 *)
(*   LastInv      what the outcome of the last attempt looks like          *)
(*   DecisionInv  what the decision in hand may be                         *)
(*   TriesInv     how many attempts the next turn may still add            *)
(*   StreamInv    of which attempt the newest event is, what was dropped   *)
(***************************************************************************)
EXTENDS PolicyRunner, TLAPS

\* The groups of variables are only abbreviations.
USE DEF loopVars, endVars, chanVars, handleVars, innerVars

\* The points of execute() after finish, and those between a decision and its
\* effect.
AfterFinish == {"defer_cancel", "close_events", "close_done", "end"}
Deciding == {"record", "announce", "sleep", "apply"}

PhaseInv ==
  /\ iLive <=> pc \in {"set_current", "wait", "drain"}
  /\ fwd # "none" <=> pc \in {"wait", "drain"}
  /\ current <=> pc \in {"wait", "drain"}
  /\ result # NoOutcome <=> pc \in AfterFinish
  /\ done <=> pc = "end"
  /\ open <=> pc \notin {"close_done", "end"}

CauseInv ==
  /\ cause = "finish" => pc \in {"close_events", "close_done", "end"}
  /\ \A c \in Callers : cpc[c] # "idle" => cause # "none"
  /\ iStop \/ iResult.status = "cancelled" \/ last.status = "cancelled" => cause # "none"

LastInv ==
  /\ iDone => iResult # NoOutcome
  /\ iResult # NoOutcome => (iResult.status = "completed" <=> iResult.err = "none")
  /\ pc \in {"drain", "summarize", "decide"} \cup Deciding =>
       (last.status = "completed" <=> last.err = "none")
  /\ pc \in {"decide"} \cup Deciding => attempts > 0 /\ last.err # "none"

DecisionInv ==
  pc \in Deciding =>
    /\ decision.kind # "error"
    /\ decision.kind = "other" => policy.custom
    /\ decision.kind = "stop" => \/ decision.err \in {"none", last.err}
                                 \/ cause # "none" /\ decision.err = contextPolicyError
                                 \/ policy.custom /\ decision.err = "unknown"
    /\ decision.kind = "retry" => decision.target = target
    /\ decision.kind = "retry" /\ ~policy.custom => tries[target] < policy.max
    /\ decision.kind = "fallback" /\ ~policy.custom => decision.target = target + 1

TriesInv ==
  /\ AttemptsBounded
  /\ ~policy.custom /\ pc \in {"check", "start"} => tries[target] = 0 \/ tries[target] < policy.max
  /\ late > 0 => cause # "none"
  /\ pc = "start" => late = 0

StreamInv ==
  /\ newest <= IF pc \in {"wait", "drain", "summarize"} THEN attempts + 1 ELSE attempts
  /\ missing = dropped
  /\ pc \in AfterFinish => reported = missing

\* The request is always the one for the current target.
RequestInv == req = {target} \ {0}

-----------------------------------------------------------------------------
\* TypeOK in parts, each of which a step keeps for reasons of its own.
FlagsOK ==
  /\ current \in BOOLEAN /\ reported \in BOOLEAN /\ done \in BOOLEAN /\ open \in BOOLEAN
  /\ missing \in BOOLEAN /\ dropped \in BOOLEAN /\ iLive \in BOOLEAN /\ iDone \in BOOLEAN
  /\ iClosed \in BOOLEAN /\ iStop \in BOOLEAN

LoopOK ==
  /\ policy \in Policies /\ pc \in RunnerPC /\ target \in Targets /\ req \subseteq Targets
  /\ tries \in [Targets -> Nat] /\ attempts \in Nat /\ late \in Nat
  /\ cause \in {"none", "caller", "finish", "parent", "timeout"}
  /\ cpc \in [Callers -> {"idle", "cancel", "returned"}]
  /\ fwd \in {"none", "range", "send", "done"}

OutcomesOK ==
  /\ last \in [status : Status \cup {"empty"}, err : Category] /\ decision \in Decision
  /\ result \in Outcomes \cup {NoOutcome} /\ iResult \in Outcomes \cup {NoOutcome}

CountsOK ==
  events \in 0 .. EventCap /\ newest \in Nat /\ iEvents \in Nat /\ iEmitted \in 0 .. MaxEvents

\* Together they are TypeOK.
LEMMA TypeParts == TypeOK <=> FlagsOK /\ LoopOK /\ OutcomesOK /\ CountsOK
  BY DEF TypeOK, FlagsOK, LoopOK, OutcomesOK, CountsOK

\* What an attempt may report are outcomes.
LEMMA AttemptOutcome == attemptOutcomes \subseteq Outcomes
  BY PolicyAssumption DEF PolicyAssumption, attemptOutcomes, Outcomes, Status, Category

\* The errors of a context, and those StartRun may fail with.
LEMMA ErrorTypes ==
  /\ contextPolicyError \in {"timeout", "cancellation"}
  /\ startErrors \subseteq Category \ {"none"}
  /\ Errors \subseteq Category \ {"none"}
  BY PolicyAssumption DEF PolicyAssumption, contextPolicyError, startErrors, Category

\* A policy answers with decisions.
LEMMA DecisionTypes ==
  LoopOK /\ OutcomesOK => basicDecisions \cup customDecisions \subseteq Decision
<1> SUFFICES ASSUME LoopOK, OutcomesOK
             PROVE  basicDecisions \subseteq Decision /\ customDecisions \subseteq Decision
  OBVIOUS
<1>1. Alternatives \in Nat /\ target \in Targets /\ last.err \in Category
  BY PolicyAssumption DEF PolicyAssumption, LoopOK, OutcomesOK
<1>2. \A e \in Category : stop(e) \in Decision
  BY <1>1 DEF stop, Decision
<1>3. \A d \in BOOLEAN : retry(d) \in Decision
  BY <1>1 DEF retry, Decision, Category
<1>4. \A t \in Targets : fallback(t) \in Decision
  BY <1>1 DEF fallback, Decision, Category
<1>5. hasFallback => target + 1 \in Targets
  BY <1>1 DEF hasFallback, Targets
<1>6. fallbackOrStop \in Decision
  BY <1>1, <1>2, <1>4, <1>5 DEF fallbackOrStop
<1>7. contextPolicyError \in Category
  BY ErrorTypes DEF Category
<1>8. basicDecisions \subseteq Decision
  BY <1>1, <1>2, <1>3, <1>6, <1>7 DEF basicDecisions
<1>9. customDecisions \subseteq Decision
  <2>1. stop("none") \in Decision /\ stop("unknown") \in Decision
    BY <1>2 DEF Category
  <2>2. [stop("unknown") EXCEPT !.kind = "error"] \in Decision
    BY <2>1 DEF Decision
  <2>3. [stop("none") EXCEPT !.kind = "other"] \in Decision
    BY <2>1 DEF Decision
  <2>4. \A d \in Decision : [d EXCEPT !.delay = TRUE] \in Decision
    BY DEF Decision
  <2>5. retry(FALSE) \in Decision
    BY <1>3
  <2> HIDE DEF Decision, stop, retry, fallback
  <2> QED BY <1>4, <2>1, <2>2, <2>3, <2>4, <2>5 DEF customDecisions
<1> QED BY <1>8, <1>9

\* finish stores an outcome.
LEMMA FinishOutcome ==
  ASSUME NEW status \in Status \cup {"empty"}, NEW err \in Category, finish(status, err)
  PROVE  result' \in Outcomes
  BY DEF finish, Outcomes, Status

\* sendEvent marks a drop, if anything, and never touches the channel's state.
LEMMA SendFlags ==
  ASSUME FlagsOK, NEW n, sendEvent(n)
  PROVE  missing' \in BOOLEAN /\ dropped' \in BOOLEAN /\ open' = open
  BY DEF FlagsOK, sendEvent

\* Every step keeps the Boolean variables Boolean ...
LEMMA FlagsStep == FlagsOK /\ [Next]_vars => FlagsOK'
<1> SUFFICES ASSUME FlagsOK, [Next]_vars PROVE FlagsOK'
  OBVIOUS
<1>1. CASE Loop
  <2>1. CASE CheckContext
    BY <2>1 DEF CheckContext, finish, FlagsOK
  <2>2. CASE AttemptWait
    BY <2>2 DEF AttemptWait, FlagsOK
  <2>3. CASE DrainEvents
    BY <2>3 DEF DrainEvents, FlagsOK
  <2>4. CASE Summarize
    BY <2>4 DEF Summarize, finish, FlagsOK
  <2>5. ASSUME NEW e \in startErrors, StartFails(e) PROVE FlagsOK'
    BY <2>5 DEF StartFails, FlagsOK
  <2>6. CASE Decide
    BY <2>6 DEF Decide, finish, FlagsOK
  <2>7. CASE RecordRateLimit
    BY <2>7, SendFlags DEF RecordRateLimit, FlagsOK
  <2>8. CASE AnnounceDecision
    BY <2>8, SendFlags DEF AnnounceDecision, finish, FlagsOK
  <2>9. CASE SleepCancelled
    BY <2>9 DEF SleepCancelled, finish, FlagsOK
  <2>10. CASE ApplyDecision
    BY <2>10 DEF ApplyDecision, finish, FlagsOK
  <2>11. CASE StartAttempt
    BY <2>11 DEF StartAttempt, FlagsOK
  <2>12. CASE SetCurrent
    BY <2>12 DEF SetCurrent, FlagsOK
  <2>13. CASE SleepOver
    BY <2>13 DEF SleepOver, FlagsOK
  <2> QED BY <1>1, <2>1, <2>2, <2>3, <2>4, <2>5, <2>6, <2>7, <2>8, <2>9, <2>10, <2>11, <2>12,
     <2>13 DEF Loop
<1>2. CASE Finish
  <2>1. CASE DeferCancel
    BY <2>1 DEF DeferCancel, FlagsOK
  <2>2. CASE CloseEvents
    BY <2>2 DEF CloseEvents, FlagsOK
  <2>3. CASE CloseDone
    BY <2>3 DEF CloseDone, FlagsOK
  <2> QED BY <1>2, <2>1, <2>2, <2>3 DEF Finish
<1>3. CASE Forward
  BY <1>3, SendFlags DEF Forward, ForwardReceive, ForwardSend, ForwardEnd, FlagsOK
<1>4. CASE AttemptRuns
  <2>1. CASE AttemptSettles
    BY <2>1 DEF AttemptSettles, attemptMoves, Attempt!Settle, FlagsOK
  <2>2. CASE AttemptStops
    BY <2>2 DEF AttemptStops, attemptMoves, Attempt!AskStop, FlagsOK
  <2>3. CASE AttemptCloses
    BY <2>3 DEF AttemptCloses, attemptMoves, Attempt!CloseDone, Attempt!CloseEvents, FlagsOK
  <2>4. CASE AttemptEmits
    BY <2>4 DEF AttemptEmits, attemptMoves, FlagsOK
  <2> QED BY <1>4, <2>1, <2>2, <2>3, <2>4 DEF AttemptRuns
<1>5. ASSUME NEW c \in Callers, CancelContext(c) \/ CancelCurrent(c) PROVE FlagsOK'
  BY <1>5 DEF CancelContext, CancelCurrent, endCtx, FlagsOK
<1>6. ASSUME NEW why \in CtxCauses, ContextEnds(why) PROVE FlagsOK'
  BY <1>6 DEF ContextEnds, FlagsOK
<1>7. CASE Consume
  BY <1>7 DEF Consume, FlagsOK
<1>8. CASE Stop \/ UNCHANGED vars
  BY <1>8 DEF Stop, vars, FlagsOK
<1> QED BY <1>1, <1>2, <1>3, <1>4, <1>5, <1>6, <1>7, <1>8 DEF Next

\* ... the loop's variables in their ranges ...
LEMMA LoopStep == LoopOK /\ OutcomesOK /\ [Next]_vars => LoopOK'
<1> SUFFICES ASSUME LoopOK, OutcomesOK, [Next]_vars PROVE LoopOK'
  OBVIOUS
<1>1. CASE Loop
  <2>1. CASE ApplyDecision
    <3>1. decision.target \in Targets
      BY DEF OutcomesOK, Decision
    <3>2. fallbackRequest(decision.target) \subseteq Targets
      BY <3>1 DEF fallbackRequest
    <3> QED BY <2>1, <3>1, <3>2 DEF ApplyDecision, finish, LoopOK, RunnerPC
  <2>2. CASE CheckContext \/ StartAttempt \/ SetCurrent \/ AttemptWait \/ DrainEvents \/
         Summarize \/ Decide \/ RecordRateLimit \/ AnnounceDecision \/ SleepOver \/
         SleepCancelled \/ \E e \in startErrors : StartFails(e)
    BY <2>2 DEF CheckContext, StartAttempt, SetCurrent, AttemptWait, DrainEvents, Summarize,
       StartFails, Decide, RecordRateLimit, AnnounceDecision, SleepOver, SleepCancelled,
       sendEvent, finish, LoopOK, RunnerPC
  <2> QED BY <1>1, <2>1, <2>2 DEF Loop
<1>2. CASE Finish
  BY <1>2 DEF Finish, DeferCancel, CloseEvents, CloseDone, endCtx, LoopOK, RunnerPC
<1>3. CASE Forward
  BY <1>3 DEF Forward, ForwardReceive, ForwardSend, ForwardEnd, sendEvent, LoopOK, RunnerPC
<1>4. CASE AttemptRuns
  BY <1>4 DEF AttemptRuns, AttemptSettles, AttemptStops, AttemptCloses, AttemptEmits,
     attemptMoves, Attempt!Settle, Attempt!AskStop, Attempt!CloseDone, Attempt!CloseEvents,
     LoopOK, RunnerPC
<1>5. ASSUME NEW c \in Callers, CancelContext(c) \/ CancelCurrent(c) PROVE LoopOK'
  BY <1>5 DEF CancelContext, CancelCurrent, endCtx, LoopOK, RunnerPC
<1>6. ASSUME NEW why \in CtxCauses, ContextEnds(why) PROVE LoopOK'
  BY <1>6, PolicyAssumption DEF PolicyAssumption, ContextEnds, LoopOK
<1>7. CASE Consume
  BY <1>7 DEF Consume, LoopOK, RunnerPC
<1>8. CASE Stop \/ UNCHANGED vars
  BY <1>8 DEF Stop, vars, LoopOK, RunnerPC
<1> QED BY <1>1, <1>2, <1>3, <1>4, <1>5, <1>6, <1>7, <1>8 DEF Next

\* ... outcomes and decisions in theirs ...
LEMMA OutcomesStep == LoopOK /\ OutcomesOK /\ [Next]_vars => OutcomesOK'
<1> SUFFICES ASSUME LoopOK, OutcomesOK, [Next]_vars PROVE OutcomesOK'
  OBVIOUS
<1> USE FinishOutcome, ErrorTypes
<1>1. CASE Loop
  <2>1. CASE CheckContext
    <3>1. result' \in Outcomes \cup {NoOutcome}
      BY <2>1 DEF CheckContext, OutcomesOK, Status, Category
    <3> QED BY <2>1, <3>1 DEF CheckContext, OutcomesOK
  <2>2. CASE AttemptWait
    <3>1. iResult \in [status : Status \cup {"empty"}, err : Category]
      BY DEF OutcomesOK, Outcomes, NoOutcome, Category
    <3> QED BY <2>2, <3>1 DEF AttemptWait, OutcomesOK, Category
  <2>3. CASE Summarize
    <3>1. last.status \in Status \cup {"empty"} /\ "none" \in Category
      BY DEF OutcomesOK, Category
    <3> QED BY <2>3, <3>1 DEF Summarize, OutcomesOK
  <2>4. ASSUME NEW e \in startErrors, StartFails(e) PROVE OutcomesOK'
    BY <2>4 DEF StartFails, OutcomesOK, Status
  <2>5. CASE Decide
    <3>1. decision' \in Decision
      BY <2>5, DecisionTypes DEF Decide
    <3>2. last.status \in Status \cup {"empty"} /\ decision'.err \in Category
      BY <3>1 DEF OutcomesOK, Decision
    <3> QED BY <2>5, <3>1, <3>2 DEF Decide, OutcomesOK
  <2>6. CASE AnnounceDecision
    <3>1. last.status \in Status \cup {"empty"} /\ last.err \in Category
          /\ decision.err \in Category
      BY DEF OutcomesOK, Decision
    <3> QED BY <2>6, <3>1 DEF AnnounceDecision, OutcomesOK
  <2>7. CASE SleepCancelled
    <3>1. last.status \in Status \cup {"empty"} /\ contextPolicyError \in Category
      BY DEF OutcomesOK, Category
    <3> QED BY <2>7, <3>1 DEF SleepCancelled, OutcomesOK
  <2>8. CASE ApplyDecision
    <3>1. last.status \in Status \cup {"empty"} /\ "configuration" \in Category
          /\ "none" \in Category
      BY DEF OutcomesOK, Category
    <3>2. NoOutcome \in [status : Status \cup {"empty"}, err : Category]
      BY <3>1 DEF NoOutcome
    <3>3. NoDecision \in Decision
      BY <3>1, PolicyAssumption DEF NoDecision, Decision, Targets, PolicyAssumption
    <3> QED BY <2>8, <3>1, <3>2, <3>3 DEF ApplyDecision, OutcomesOK
  <2>9. CASE StartAttempt \/ SetCurrent \/ DrainEvents \/ RecordRateLimit \/ SleepOver
    BY <2>9 DEF StartAttempt, SetCurrent, DrainEvents, RecordRateLimit, SleepOver, sendEvent,
       OutcomesOK
  <2> QED BY <1>1, <2>1, <2>2, <2>3, <2>4, <2>5, <2>6, <2>7, <2>8, <2>9 DEF Loop
<1>2. CASE Finish
  BY <1>2 DEF Finish, DeferCancel, CloseEvents, CloseDone, endCtx, OutcomesOK
<1>3. CASE Forward
  BY <1>3 DEF Forward, ForwardReceive, ForwardSend, ForwardEnd, sendEvent, OutcomesOK
<1>4. CASE AttemptRuns
  <2>1. iResult' \in Outcomes \cup {NoOutcome}
    BY <1>4, AttemptOutcome DEF AttemptRuns, AttemptSettles, AttemptStops, AttemptCloses,
       AttemptEmits, Attempt!Settle, Attempt!AskStop, Attempt!CloseDone, Attempt!CloseEvents,
       OutcomesOK
  <2> QED BY <1>4, <2>1 DEF AttemptRuns, AttemptSettles, AttemptStops, AttemptCloses,
     AttemptEmits, attemptMoves, OutcomesOK
<1>5. ASSUME NEW c \in Callers, CancelContext(c) \/ CancelCurrent(c) PROVE OutcomesOK'
  BY <1>5 DEF CancelContext, CancelCurrent, endCtx, OutcomesOK
<1>6. ASSUME NEW why \in CtxCauses, ContextEnds(why) PROVE OutcomesOK'
  BY <1>6 DEF ContextEnds, OutcomesOK
<1>7. CASE Consume
  BY <1>7 DEF Consume, OutcomesOK
<1>8. CASE Stop \/ UNCHANGED vars
  BY <1>8 DEF Stop, vars, OutcomesOK
<1> QED BY <1>1, <1>2, <1>3, <1>4, <1>5, <1>6, <1>7, <1>8 DEF Next

\* ... and the channel within its capacity.
LEMMA CountsStep == LoopOK /\ CountsOK /\ [Next]_vars => CountsOK'
<1> SUFFICES ASSUME LoopOK, CountsOK, [Next]_vars PROVE CountsOK'
  OBVIOUS
<1> USE DEF PolicyAssumption
<1>1. CASE Loop
  <2>1. CASE CheckContext \/ StartAttempt \/ SetCurrent \/ AttemptWait \/ DrainEvents \/
         Summarize \/ Decide \/ RecordRateLimit \/ AnnounceDecision \/ SleepOver \/
         SleepCancelled \/ ApplyDecision \/ \E e \in startErrors : StartFails(e)
    BY <2>1, PolicyAssumption DEF CheckContext, StartAttempt, SetCurrent, AttemptWait,
       DrainEvents, Summarize, StartFails, Decide, RecordRateLimit, AnnounceDecision, SleepOver,
       SleepCancelled, ApplyDecision, sendEvent, finish, CountsOK, LoopOK
  <2> QED BY <1>1, <2>1 DEF Loop
<1>2. CASE Finish
  BY <1>2, PolicyAssumption DEF Finish, DeferCancel, CloseEvents, CloseDone, endCtx, CountsOK,
     LoopOK
<1>3. CASE Forward
  BY <1>3, PolicyAssumption DEF Forward, ForwardReceive, ForwardSend, ForwardEnd, sendEvent,
     CountsOK, LoopOK
<1>4. CASE AttemptRuns
  BY <1>4, PolicyAssumption DEF AttemptRuns, AttemptSettles, AttemptStops, AttemptCloses,
     AttemptEmits, attemptMoves, Attempt!Settle, Attempt!AskStop, Attempt!CloseDone,
     Attempt!CloseEvents, CountsOK, LoopOK
<1>5. ASSUME NEW c \in Callers, CancelContext(c) \/ CancelCurrent(c) PROVE CountsOK'
  BY <1>5, PolicyAssumption DEF CancelContext, CancelCurrent, endCtx, CountsOK, LoopOK
<1>6. ASSUME NEW why \in CtxCauses, ContextEnds(why) PROVE CountsOK'
  BY <1>6, PolicyAssumption DEF ContextEnds, CountsOK, LoopOK
<1>7. CASE Consume
  BY <1>7, PolicyAssumption DEF Consume, CountsOK, LoopOK
<1>8. CASE Stop \/ UNCHANGED vars
  BY <1>8, PolicyAssumption DEF Stop, vars, CountsOK, LoopOK
<1> QED BY <1>1, <1>2, <1>3, <1>4, <1>5, <1>6, <1>7, <1>8 DEF Next

-----------------------------------------------------------------------------
\* The result of a run is not the empty one.
LEMMA OutcomeIsOne == NoOutcome \notin Outcomes
  BY DEF NoOutcome, Outcomes, Status

\* Every step keeps the phases.
LEMMA PhaseStep == LoopOK /\ OutcomesOK /\ PhaseInv /\ [Next]_vars => PhaseInv'
<1> SUFFICES ASSUME LoopOK, OutcomesOK, PhaseInv, [Next]_vars PROVE PhaseInv'
  OBVIOUS
<1> USE FinishOutcome, ErrorTypes, OutcomeIsOne
<1>1. CASE Loop
  <2>1. CASE CheckContext
    <3>1. pc' \in AfterFinish => result' \in Outcomes
      BY <2>1 DEF CheckContext, LoopOK, OutcomesOK, PhaseInv, AfterFinish, Decision, Category,
         Status
    <3> QED BY <2>1, <3>1 DEF CheckContext, finish, sendEvent, PhaseInv, AfterFinish
  <2>2. CASE Summarize
    <3>1. pc' \in AfterFinish => result' \in Outcomes
      BY <2>2 DEF Summarize, LoopOK, OutcomesOK, PhaseInv, AfterFinish, Decision, Category, Status
    <3> QED BY <2>2, <3>1 DEF Summarize, finish, sendEvent, PhaseInv, AfterFinish
  <2>3. CASE Decide
    <3>1. decision' \in Decision
      BY <2>3, DecisionTypes DEF Decide
    <3>2. last.status \in Status \cup {"empty"} /\ decision'.err \in Category
      BY <3>1 DEF OutcomesOK, Decision
    <3>3. pc' \in AfterFinish => result' \in Outcomes
      BY <2>3, <3>2 DEF Decide, AfterFinish
    <3> QED BY <2>3, <3>3 DEF Decide, finish, PhaseInv, AfterFinish
  <2>4. CASE AnnounceDecision
    <3>1. last.status \in Status \cup {"empty"} /\ last.err \in Category
          /\ decision.err \in Category
      BY DEF OutcomesOK, Decision
    <3>2. CASE decision.kind = "stop"
      <4>1. result' \in Outcomes
        BY <2>4, <3>1, <3>2 DEF AnnounceDecision
      <4> QED BY <2>4, <3>2, <4>1 DEF AnnounceDecision, finish, PhaseInv, AfterFinish
    <3>3. CASE decision.kind # "stop"
      <4>1. pc' \in {"sleep", "apply"}
        BY <2>4, <3>3 DEF AnnounceDecision
      <4>2. UNCHANGED <<open, endVars, iLive, fwd, current>>
        BY <2>4, <3>3 DEF AnnounceDecision, sendEvent
      <4> QED BY <2>4, <4>1, <4>2 DEF AnnounceDecision, PhaseInv, AfterFinish
    <3> QED BY <3>2, <3>3
  <2>5. CASE SleepCancelled
    <3>1. pc' \in AfterFinish => result' \in Outcomes
      BY <2>5 DEF SleepCancelled, LoopOK, OutcomesOK, PhaseInv, AfterFinish, Decision, Category,
         Status
    <3> QED BY <2>5, <3>1 DEF SleepCancelled, finish, sendEvent, PhaseInv, AfterFinish
  <2>6. CASE ApplyDecision
    <3>1. pc' \in AfterFinish => result' \in Outcomes
      BY <2>6 DEF ApplyDecision, LoopOK, OutcomesOK, PhaseInv, AfterFinish, Decision, Category,
         Status
    <3> QED BY <2>6, <3>1 DEF ApplyDecision, finish, sendEvent, PhaseInv, AfterFinish
  <2>7. CASE StartAttempt \/ SetCurrent \/ AttemptWait \/ DrainEvents \/ RecordRateLimit \/
         SleepOver \/ \E e \in startErrors : StartFails(e)
    BY <2>7 DEF StartAttempt, SetCurrent, AttemptWait, DrainEvents, StartFails, RecordRateLimit,
       SleepOver, sendEvent, PhaseInv, AfterFinish
  <2> QED BY <1>1, <2>1, <2>2, <2>3, <2>4, <2>5, <2>6, <2>7 DEF Loop
<1>2. CASE Finish
  BY <1>2 DEF Finish, DeferCancel, CloseEvents, CloseDone, endCtx, PhaseInv, AfterFinish
<1>3. CASE Forward
  BY <1>3 DEF Forward, ForwardReceive, ForwardSend, ForwardEnd, sendEvent, PhaseInv, AfterFinish
<1>4. CASE AttemptRuns
  BY <1>4 DEF AttemptRuns, AttemptSettles, AttemptStops, AttemptCloses, AttemptEmits,
     attemptMoves, Attempt!Settle, Attempt!AskStop, Attempt!CloseDone, Attempt!CloseEvents,
     PhaseInv, AfterFinish
<1>5. ASSUME NEW c \in Callers, CancelContext(c) \/ CancelCurrent(c) PROVE PhaseInv'
  BY <1>5 DEF CancelContext, CancelCurrent, endCtx, PhaseInv, AfterFinish
<1>6. ASSUME NEW why \in CtxCauses, ContextEnds(why) PROVE PhaseInv'
  BY <1>6 DEF ContextEnds, PhaseInv, AfterFinish
<1>7. CASE Consume
  BY <1>7 DEF Consume, PhaseInv, AfterFinish
<1>8. CASE Stop \/ UNCHANGED vars
  BY <1>8 DEF Stop, vars, PhaseInv, AfterFinish
<1> QED BY <1>1, <1>2, <1>3, <1>4, <1>5, <1>6, <1>7, <1>8 DEF Next

\* The two ways on from an announced decision.
LEMMA Announced ==
  ASSUME AnnounceDecision
  PROVE  \/ /\ decision.kind = "stop" /\ pc' = "defer_cancel" /\ UNCHANGED chanVars
            /\ finish(last.status, IF decision.err # "none" THEN decision.err ELSE last.err)
         \/ /\ decision.kind # "stop" /\ pc' \in {"sleep", "apply"} /\ UNCHANGED endVars
            /\ sendEvent(attempts)
<1>1. CASE decision.kind = "stop"
  BY <1>1 DEF AnnounceDecision, finish
<1>2. CASE decision.kind # "stop"
  BY <1>2 DEF AnnounceDecision
<1> QED BY <1>1, <1>2

\* Every step keeps CauseInv: an attempt is cancelled only because the run was.
LEMMA CauseStep == LoopOK /\ PhaseInv /\ CauseInv /\ [Next]_vars => CauseInv'
<1> SUFFICES ASSUME LoopOK, PhaseInv, CauseInv, [Next]_vars PROVE CauseInv'
  OBVIOUS
<1>1. CASE Loop
  <2>1. CASE AttemptWait
    BY <2>1 DEF AttemptWait, CauseInv, LoopOK
  <2>2. CASE DrainEvents
    BY <2>2 DEF DrainEvents, NoOutcome, CauseInv, LoopOK
  <2>3. ASSUME NEW e \in startErrors, StartFails(e) PROVE CauseInv'
    BY <2>3 DEF StartFails, CauseInv, LoopOK
  <2>4. CASE Decide
    BY <2>4 DEF Decide, finish, CauseInv, LoopOK
  <2>5. CASE AnnounceDecision
    BY <2>5, Announced DEF AnnounceDecision, CauseInv
  <2>6. CASE ApplyDecision
    BY <2>6 DEF ApplyDecision, finish, NoOutcome, CauseInv, LoopOK
  <2>7. CASE CheckContext \/ StartAttempt \/ SetCurrent \/ Summarize \/ RecordRateLimit \/
         SleepOver \/ SleepCancelled
    BY <2>7 DEF CheckContext, StartAttempt, SetCurrent, Summarize, RecordRateLimit, SleepOver,
       SleepCancelled, sendEvent, finish, CauseInv, LoopOK
  <2> QED BY <1>1, <2>1, <2>2, <2>3, <2>4, <2>5, <2>6, <2>7 DEF Loop
<1>2. CASE Finish
  BY <1>2 DEF Finish, DeferCancel, CloseEvents, CloseDone, endCtx, CauseInv, LoopOK
<1>3. CASE Forward
  BY <1>3 DEF Forward, ForwardReceive, ForwardSend, ForwardEnd, sendEvent, CauseInv, LoopOK
<1>4. CASE AttemptRuns
  <2>1. CASE AttemptSettles
    BY <1>4, <2>1 DEF AttemptSettles, attemptMoves, Attempt!Settle, attemptOutcomes, CauseInv
  <2>2. CASE AttemptStops \/ AttemptCloses \/ AttemptEmits
    BY <1>4, <2>2 DEF AttemptStops, AttemptCloses, AttemptEmits, attemptMoves, Attempt!AskStop,
       Attempt!CloseDone, Attempt!CloseEvents, CauseInv
  <2> QED BY <1>4, <2>1, <2>2 DEF AttemptRuns
<1>5. ASSUME NEW c \in Callers, CancelContext(c) \/ CancelCurrent(c) PROVE CauseInv'
  <2>1. CASE CancelContext(c)
    BY <1>5, <2>1 DEF CancelContext, endCtx, CauseInv, LoopOK
  <2>2. CASE CancelCurrent(c)
    BY <1>5, <2>2 DEF CancelCurrent, CauseInv, LoopOK
  <2> QED BY <1>5, <2>1, <2>2
<1>6. ASSUME NEW why \in CtxCauses, ContextEnds(why) PROVE CauseInv'
  <2>1. why \in {"parent", "timeout"}
    BY PolicyAssumption DEF PolicyAssumption
  <2> QED BY <1>6, <2>1 DEF ContextEnds, CauseInv
<1>7. CASE Consume
  BY <1>7 DEF Consume, CauseInv, LoopOK
<1>8. CASE Stop \/ UNCHANGED vars
  BY <1>8 DEF Stop, vars, CauseInv, LoopOK
<1> QED BY <1>1, <1>2, <1>3, <1>4, <1>5, <1>6, <1>7, <1>8 DEF Next

\* Every step keeps LastInv: an attempt completes exactly when it has no error.
LEMMA LastStep == LoopOK /\ OutcomesOK /\ PhaseInv /\ LastInv /\ [Next]_vars => LastInv'
<1> SUFFICES ASSUME LoopOK, OutcomesOK, PhaseInv, LastInv, [Next]_vars PROVE LastInv'
  OBVIOUS
<1>1. CASE Loop
  <2>1. CASE AttemptWait
    BY <2>1, ErrorTypes DEF AttemptWait, LastInv, Deciding
  <2>2. CASE DrainEvents
    BY <2>2 DEF DrainEvents, NoOutcome, LastInv, Deciding
  <2>3. CASE Summarize
    BY <2>3 DEF Summarize, finish, LoopOK, LastInv, Deciding
  <2>4. ASSUME NEW e \in startErrors, StartFails(e) PROVE LastInv'
    BY <2>4, ErrorTypes DEF StartFails, LastInv, Deciding
  <2>5. CASE Decide
    BY <2>5 DEF Decide, finish, LastInv, Deciding
  <2>6. CASE AnnounceDecision
    BY <2>6, Announced DEF AnnounceDecision, LastInv, Deciding
  <2>7. CASE ApplyDecision
    BY <2>7 DEF ApplyDecision, finish, NoOutcome, LastInv, Deciding
  <2>8. CASE CheckContext \/ StartAttempt \/ SetCurrent \/ RecordRateLimit \/ SleepOver \/
         SleepCancelled
    BY <2>8 DEF CheckContext, StartAttempt, SetCurrent, RecordRateLimit, SleepOver,
       SleepCancelled, sendEvent, finish, LastInv, Deciding
  <2> QED BY <1>1, <2>1, <2>2, <2>3, <2>4, <2>5, <2>6, <2>7, <2>8 DEF Loop
<1>2. CASE Finish
  BY <1>2 DEF Finish, DeferCancel, CloseEvents, CloseDone, endCtx, LastInv, Deciding
<1>3. CASE Forward
  BY <1>3 DEF Forward, ForwardReceive, ForwardSend, ForwardEnd, sendEvent, LastInv, Deciding
<1>4. CASE AttemptRuns
  <2>1. CASE AttemptSettles
    <3>1. \A o \in attemptOutcomes : o # NoOutcome /\ (o.status = "completed" <=> o.err = "none")
      BY ErrorTypes, AttemptOutcome, OutcomeIsOne DEF attemptOutcomes
    <3> QED BY <1>4, <2>1, <3>1 DEF AttemptSettles, attemptMoves, Attempt!Settle, LastInv
  <2>2. CASE AttemptStops \/ AttemptCloses \/ AttemptEmits
    BY <1>4, <2>2 DEF AttemptStops, AttemptCloses, AttemptEmits, attemptMoves, Attempt!AskStop,
       Attempt!CloseDone, Attempt!CloseEvents, LastInv
  <2> QED BY <1>4, <2>1, <2>2 DEF AttemptRuns
<1>5. ASSUME NEW c \in Callers, CancelContext(c) \/ CancelCurrent(c) PROVE LastInv'
  BY <1>5 DEF CancelContext, CancelCurrent, endCtx, LastInv, Deciding
<1>6. ASSUME NEW why \in CtxCauses, ContextEnds(why) PROVE LastInv'
  BY <1>6 DEF ContextEnds, LastInv, Deciding
<1>7. CASE Consume
  BY <1>7 DEF Consume, LastInv, Deciding
<1>8. CASE Stop \/ UNCHANGED vars
  BY <1>8 DEF Stop, vars, LastInv, Deciding
<1> QED BY <1>1, <1>2, <1>3, <1>4, <1>5, <1>6, <1>7, <1>8 DEF Next

\* What a policy may answer: BasicPolicy retries only while the target has attempts
\* left and falls back only to the next one; a caller's policy may do anything
\* but retry another target.
Answer(d) ==
  /\ d.kind = "error" => policy.custom /\ d.err = "unknown"
  /\ d.kind = "other" => policy.custom
  /\ d.kind = "stop" => \/ d.err \in {"none", last.err}
                        \/ cause # "none" /\ d.err = contextPolicyError
                        \/ policy.custom /\ d.err = "unknown"
  /\ d.kind = "retry" => d.target = target
  /\ d.kind = "retry" /\ ~policy.custom => tries[target] < policy.max
  /\ d.kind = "fallback" /\ ~policy.custom => d.target = target + 1

\* Every policy answers so.
LEMMA Answers ==
  \A d \in IF policy.custom THEN customDecisions ELSE basicDecisions : Answer(d)
<1>1. ASSUME policy.custom, NEW d \in customDecisions PROVE Answer(d)
  <2>1. CASE d \in {stop("none"), stop("unknown"), [stop("unknown") EXCEPT !.kind = "error"]}
    BY <1>1, <2>1 DEF Answer, stop
  <2>2. CASE d = [stop("none") EXCEPT !.kind = "other"]
    BY <1>1, <2>2 DEF Answer, stop
  <2>3. CASE d = retry(FALSE)
    BY <1>1, <2>3 DEF Answer, retry
  <2>4. CASE \E t \in Targets : d = fallback(t)
    BY <1>1, <2>4 DEF Answer, fallback
  <2>5. CASE d = [[stop("none") EXCEPT !.kind = "other"] EXCEPT !.delay = TRUE]
    BY <1>1, <2>5 DEF Answer, stop
  <2>6. CASE d = [retry(FALSE) EXCEPT !.delay = TRUE]
    BY <1>1, <2>6 DEF Answer, retry
  <2>7. CASE \E t \in Targets : d = [fallback(t) EXCEPT !.delay = TRUE]
    BY <1>1, <2>7 DEF Answer, fallback
  <2> QED BY <1>1, <2>1, <2>2, <2>3, <2>4, <2>5, <2>6, <2>7 DEF customDecisions
<1>2. ASSUME ~policy.custom, NEW d \in basicDecisions PROVE Answer(d)
  <2>1. CASE cause # "none"
    BY <1>2, <2>1 DEF basicDecisions, Answer, stop
  <2>2. CASE d = stop(last.err)
    BY <1>2, <2>2 DEF Answer, stop
  <2>3. CASE d = fallback(target + 1)
    BY <1>2, <2>3 DEF Answer, fallback
  <2>4. CASE canRetry /\ \E b \in BOOLEAN : d = retry(b)
    BY <1>2, <2>4 DEF Answer, retry, canRetry
  <2> QED BY <1>2, <2>1, <2>2, <2>3, <2>4 DEF basicDecisions, fallbackOrStop
<1> QED BY <1>1, <1>2

\* Every step keeps DecisionInv: what the decision rests on does not change under it.
LEMMA DecisionStep ==
  LoopOK /\ OutcomesOK /\ PhaseInv /\ DecisionInv /\ [Next]_vars
    => DecisionInv'
<1> SUFFICES ASSUME LoopOK, OutcomesOK, PhaseInv, DecisionInv, [Next]_vars PROVE DecisionInv'
  OBVIOUS
<1>1. CASE Loop
  <2>1. CASE Decide
    <3>1. Answer(decision')
      BY <2>1, Answers DEF Decide
    <3>2. UNCHANGED <<policy, last, cause, target, tries>>
          /\ contextPolicyError' = contextPolicyError
      BY <2>1 DEF Decide, contextPolicyError
    <3>3. decision'.kind = "error" => pc' = "defer_cancel"
      BY <2>1 DEF Decide, finish
    <3> QED BY <3>1, <3>2, <3>3 DEF Answer, DecisionInv, Deciding
  <2>2. CASE RecordRateLimit
    BY <2>2 DEF RecordRateLimit, contextPolicyError, DecisionInv, Deciding
  <2>3. CASE AnnounceDecision
    <3>1. contextPolicyError' = contextPolicyError
      BY <2>3 DEF AnnounceDecision, contextPolicyError
    <3> QED BY <2>3, <3>1, Announced DEF AnnounceDecision, DecisionInv, Deciding
  <2>4. CASE SleepOver
    BY <2>4 DEF SleepOver, contextPolicyError, DecisionInv, Deciding
  <2>5. CASE SleepCancelled
    BY <2>5 DEF SleepCancelled, finish, DecisionInv, Deciding
  <2>6. CASE ApplyDecision
    BY <2>6 DEF ApplyDecision, finish, DecisionInv, Deciding
  <2>7. CASE CheckContext \/ StartAttempt \/ SetCurrent \/ AttemptWait \/ DrainEvents \/
         Summarize \/ \E e \in startErrors : StartFails(e)
    BY <2>7 DEF CheckContext, StartAttempt, SetCurrent, AttemptWait, DrainEvents, Summarize,
       StartFails, finish, DecisionInv, Deciding
  <2> QED BY <1>1, <2>1, <2>2, <2>3, <2>4, <2>5, <2>6, <2>7 DEF Loop
<1>2. CASE Finish
  BY <1>2 DEF Finish, DeferCancel, CloseEvents, CloseDone, DecisionInv, Deciding
<1>3. CASE Forward
  <2>1. contextPolicyError' = contextPolicyError
    BY <1>3 DEF Forward, ForwardReceive, ForwardSend, ForwardEnd, contextPolicyError
  <2> QED BY <1>3, <2>1 DEF Forward, ForwardReceive, ForwardSend, ForwardEnd, DecisionInv
<1>4. CASE AttemptRuns
  <2>1. UNCHANGED <<policy, pc, decision, last, cause, target, tries>>
    BY <1>4 DEF AttemptRuns, AttemptSettles, AttemptStops, AttemptCloses, AttemptEmits,
       attemptMoves
  <2> QED BY <2>1 DEF DecisionInv, contextPolicyError
<1>5. ASSUME NEW c \in Callers, CancelContext(c) \/ CancelCurrent(c) PROVE DecisionInv'
  <2>1. cause # "none" => cause' = cause
    BY <1>5 DEF CancelContext, CancelCurrent, endCtx
  <2>2. UNCHANGED <<policy, pc, decision, last, target, tries>>
    BY <1>5 DEF CancelContext, CancelCurrent
  <2> QED BY <2>1, <2>2 DEF DecisionInv, contextPolicyError
<1>6. ASSUME NEW why \in CtxCauses, ContextEnds(why) PROVE DecisionInv'
  BY <1>6 DEF ContextEnds, DecisionInv, contextPolicyError
<1>7. CASE Consume
  BY <1>7 DEF Consume, DecisionInv, contextPolicyError
<1>8. CASE Stop \/ UNCHANGED vars
  BY <1>8 DEF Stop, vars, DecisionInv, contextPolicyError
<1> QED BY <1>1, <1>2, <1>3, <1>4, <1>5, <1>6, <1>7, <1>8 DEF Next

\* Every step keeps TriesInv: an attempt is added only where one is left.
LEMMA TriesStep == LoopOK /\ OutcomesOK /\ DecisionInv /\ TriesInv /\ [Next]_vars => TriesInv'
<1> SUFFICES ASSUME LoopOK, OutcomesOK, DecisionInv, TriesInv, [Next]_vars PROVE TriesInv'
  OBVIOUS
<1>0. Alternatives \in Nat /\ policy.max \in Nat
  BY PolicyAssumption DEF PolicyAssumption, Policy, LoopOK
<1> USE <1>0 DEF LoopOK
<1>1. CASE Loop
  <2>1. CASE CheckContext
    BY <2>1 DEF CheckContext, finish, TriesInv, AttemptsBounded
  <2>2. CASE StartAttempt
    BY <2>2 DEF StartAttempt, Targets, TriesInv, AttemptsBounded
  <2>3. CASE Summarize
    BY <2>3 DEF Summarize, finish, TriesInv, AttemptsBounded
  <2>4. ASSUME NEW e \in startErrors, StartFails(e) PROVE TriesInv'
    BY <2>4 DEF StartFails, Targets, TriesInv, AttemptsBounded
  <2>5. CASE Decide
    BY <2>5 DEF Decide, finish, TriesInv, AttemptsBounded
  <2>6. CASE AnnounceDecision
    BY <2>6, Announced DEF AnnounceDecision, TriesInv, AttemptsBounded
  <2>7. CASE SleepCancelled
    BY <2>7 DEF SleepCancelled, finish, TriesInv, AttemptsBounded
  <2>8. CASE ApplyDecision
    <3>1. CASE decision.kind = "other"
      BY <2>8, <3>1 DEF ApplyDecision, finish, TriesInv, AttemptsBounded
    <3>2. CASE decision.kind \in {"retry", "fallback"}
      <4>1. /\ target' = decision.target /\ pc' = "check" /\ decision.target \in Targets
            /\ UNCHANGED <<policy, tries, late, cause>>
        BY <2>8, <3>2 DEF ApplyDecision, OutcomesOK, Decision
      <4> QED BY <2>8, <3>2, <4>1 DEF ApplyDecision, DecisionInv, Deciding, TriesInv,
         AttemptsBounded, Targets
    <3> QED BY <2>8, <3>1, <3>2 DEF ApplyDecision
  <2>9. CASE SetCurrent \/ AttemptWait \/ DrainEvents \/ RecordRateLimit \/ SleepOver
    BY <2>9 DEF SetCurrent, AttemptWait, DrainEvents, RecordRateLimit, SleepOver, sendEvent,
       finish, TriesInv, AttemptsBounded
  <2> QED BY <1>1, <2>1, <2>2, <2>3, <2>4, <2>5, <2>6, <2>7, <2>8, <2>9 DEF Loop
<1>2. CASE Finish
  BY <1>2 DEF Finish, DeferCancel, CloseEvents, CloseDone, endCtx, TriesInv, AttemptsBounded
<1>3. CASE Forward
  BY <1>3 DEF Forward, ForwardReceive, ForwardSend, ForwardEnd, sendEvent, TriesInv,
     AttemptsBounded
<1>4. CASE AttemptRuns
  BY <1>4 DEF AttemptRuns, AttemptSettles, AttemptStops, AttemptCloses, AttemptEmits,
     attemptMoves, Attempt!Settle, Attempt!AskStop, Attempt!CloseDone, Attempt!CloseEvents,
     TriesInv, AttemptsBounded
<1>5. ASSUME NEW c \in Callers, CancelContext(c) \/ CancelCurrent(c) PROVE TriesInv'
  BY <1>5 DEF CancelContext, CancelCurrent, endCtx, TriesInv, AttemptsBounded
<1>6. ASSUME NEW why \in CtxCauses, ContextEnds(why) PROVE TriesInv'
  BY <1>6 DEF ContextEnds, TriesInv, AttemptsBounded
<1>7. CASE Consume
  BY <1>7 DEF Consume, TriesInv, AttemptsBounded
<1>8. CASE Stop \/ UNCHANGED vars
  BY <1>8 DEF Stop, vars, TriesInv, AttemptsBounded
<1> QED BY <1>1, <1>2, <1>3, <1>4, <1>5, <1>6, <1>7, <1>8 DEF Next

\* An event that is sent is the newest one, or else its loss is recorded.
LEMMA Sent ==
  ASSUME missing = dropped, NEW n, sendEvent(n)
  PROVE  newest' \in {newest, n} /\ missing' = dropped'
<1>1. newest' \in {newest, n}
  BY DEF sendEvent
<1>2. missing' = dropped'
  BY DEF sendEvent
<1> QED BY <1>1, <1>2

\* Every step keeps StreamInv: events of an attempt are sent only while it runs.
LEMMA StreamStep == LoopOK /\ CountsOK /\ PhaseInv /\ StreamInv /\ [Next]_vars => StreamInv'
<1> SUFFICES ASSUME LoopOK, CountsOK, PhaseInv, StreamInv, [Next]_vars PROVE StreamInv'
  OBVIOUS
<1>1. CASE Loop
  <2>1. CASE CheckContext
    BY <2>1 DEF CheckContext, finish, StreamInv, LoopOK, CountsOK, AfterFinish
  <2>2. CASE Summarize
    BY <2>2 DEF Summarize, finish, StreamInv, LoopOK, CountsOK, AfterFinish
  <2>3. CASE Decide
    BY <2>3 DEF Decide, finish, StreamInv, LoopOK, CountsOK, AfterFinish
  <2>4. CASE RecordRateLimit
    BY <2>4, Sent DEF RecordRateLimit, StreamInv, LoopOK, CountsOK, AfterFinish
  <2>5. CASE AnnounceDecision
    <3>1. CASE decision.kind = "stop"
      BY <2>5, <3>1, Announced DEF AnnounceDecision, finish, StreamInv, LoopOK, CountsOK,
         AfterFinish
    <3>2. CASE decision.kind # "stop"
      BY <2>5, <3>2, Announced, Sent DEF AnnounceDecision, StreamInv, LoopOK, CountsOK, AfterFinish
    <3> QED BY <3>1, <3>2
  <2>6. CASE SleepCancelled
    BY <2>6 DEF SleepCancelled, finish, StreamInv, LoopOK, CountsOK, AfterFinish
  <2>7. CASE ApplyDecision
    BY <2>7 DEF ApplyDecision, finish, StreamInv, LoopOK, CountsOK, AfterFinish
  <2>8. CASE StartAttempt \/ SetCurrent \/ AttemptWait \/ DrainEvents \/ SleepOver \/ \E e \in
         startErrors : StartFails(e)
    BY <2>8 DEF StartAttempt, SetCurrent, AttemptWait, DrainEvents, StartFails, SleepOver,
       sendEvent, finish, StreamInv, LoopOK, CountsOK, AfterFinish
  <2> QED BY <1>1, <2>1, <2>2, <2>3, <2>4, <2>5, <2>6, <2>7, <2>8 DEF Loop
<1>2. CASE Finish
  BY <1>2 DEF Finish, DeferCancel, CloseEvents, CloseDone, endCtx, StreamInv, LoopOK, CountsOK,
     AfterFinish
<1>3. CASE Forward
  <2>1. pc \in {"wait", "drain"}
    BY <1>3 DEF Forward, ForwardReceive, ForwardSend, ForwardEnd, PhaseInv
  <2> QED BY <1>3, <2>1, Sent DEF Forward, ForwardReceive, ForwardSend, ForwardEnd, StreamInv,
     LoopOK, CountsOK, AfterFinish
<1>4. CASE AttemptRuns
  BY <1>4 DEF AttemptRuns, AttemptSettles, AttemptStops, AttemptCloses, AttemptEmits,
     attemptMoves, Attempt!Settle, Attempt!AskStop, Attempt!CloseDone, Attempt!CloseEvents,
     StreamInv, LoopOK, CountsOK, AfterFinish
<1>5. ASSUME NEW c \in Callers, CancelContext(c) \/ CancelCurrent(c) PROVE StreamInv'
  BY <1>5 DEF CancelContext, CancelCurrent, endCtx, StreamInv, LoopOK, CountsOK, AfterFinish
<1>6. ASSUME NEW why \in CtxCauses, ContextEnds(why) PROVE StreamInv'
  BY <1>6 DEF ContextEnds, StreamInv, LoopOK, CountsOK, AfterFinish
<1>7. CASE Consume
  BY <1>7 DEF Consume, StreamInv, LoopOK, CountsOK, AfterFinish
<1>8. CASE Stop \/ UNCHANGED vars
  BY <1>8 DEF Stop, vars, StreamInv, LoopOK, CountsOK, AfterFinish
<1> QED BY <1>1, <1>2, <1>3, <1>4, <1>5, <1>6, <1>7, <1>8 DEF Next

\* Every step keeps RequestInv: settings are laid over the original request.
LEMMA RequestStep ==
  LoopOK /\ OutcomesOK /\ DecisionInv /\ RequestInv /\ [Next]_vars
    => RequestInv'
<1> SUFFICES ASSUME LoopOK, OutcomesOK, DecisionInv, RequestInv, [Next]_vars PROVE RequestInv'
  OBVIOUS
<1>1. CASE Loop
  <2>1. CASE ApplyDecision
    BY <2>1 DEF ApplyDecision, fallbackRequest, DecisionInv, Deciding, RequestInv
  <2>2. CASE CheckContext \/ StartAttempt \/ SetCurrent \/ AttemptWait \/ DrainEvents \/
         Summarize \/ Decide \/ RecordRateLimit \/ AnnounceDecision \/ SleepOver \/
         SleepCancelled \/ \E e \in startErrors : StartFails(e)
    BY <2>2 DEF CheckContext, StartAttempt, SetCurrent, AttemptWait, DrainEvents, Summarize,
       StartFails, Decide, RecordRateLimit, AnnounceDecision, SleepOver, SleepCancelled,
       RequestInv
  <2> QED BY <1>1, <2>1, <2>2 DEF Loop
<1>2. CASE Finish
  BY <1>2 DEF Finish, DeferCancel, CloseEvents, CloseDone, endCtx, RequestInv
<1>3. CASE Forward
  BY <1>3 DEF Forward, ForwardReceive, ForwardSend, ForwardEnd, sendEvent, RequestInv
<1>4. CASE AttemptRuns
  BY <1>4 DEF AttemptRuns, AttemptSettles, AttemptStops, AttemptCloses, AttemptEmits,
     attemptMoves, Attempt!Settle, Attempt!AskStop, Attempt!CloseDone, Attempt!CloseEvents,
     RequestInv
<1>5. ASSUME NEW c \in Callers, CancelContext(c) \/ CancelCurrent(c) PROVE RequestInv'
  BY <1>5 DEF CancelContext, CancelCurrent, endCtx, RequestInv
<1>6. ASSUME NEW why \in CtxCauses, ContextEnds(why) PROVE RequestInv'
  BY <1>6 DEF ContextEnds, RequestInv
<1>7. CASE Consume
  BY <1>7 DEF Consume, RequestInv
<1>8. CASE Stop \/ UNCHANGED vars
  BY <1>8 DEF Stop, vars, RequestInv
<1> QED BY <1>1, <1>2, <1>3, <1>4, <1>5, <1>6, <1>7, <1>8 DEF Next

\* Every step keeps the result explained, and finish stores one that is.
LEMMA ResultStep ==
  LoopOK /\ OutcomesOK /\ PhaseInv /\ CauseInv /\ LastInv /\ DecisionInv /\ ResultExplained
    /\ [Next]_vars
    => ResultExplained'
<1> SUFFICES ASSUME LoopOK, OutcomesOK, PhaseInv, CauseInv, LastInv, DecisionInv,
                    ResultExplained, [Next]_vars
             PROVE  ResultExplained'
  OBVIOUS
<1> USE DEF PhaseInv, AfterFinish
<1>1. CASE Loop
  <2>1. CASE CheckContext
    BY <2>1 DEF CheckContext, finish, contextPolicyError, CauseInv, LoopOK, ResultExplained
  <2>2. CASE Summarize
    BY <2>2 DEF Summarize, finish, LastInv, CauseInv, LoopOK, ResultExplained
  <2>3. CASE Decide
    <3>1. Answer(decision')
      BY <2>3, Answers DEF Decide
    <3> QED BY <2>3, <3>1 DEF Decide, Answer, finish, LastInv, CauseInv, LoopOK, ResultExplained
  <2>4. CASE AnnounceDecision
    <3>1. CASE decision.kind = "stop"
      <4> DEFINE e == IF decision.err # "none" THEN decision.err ELSE last.err
      <4>1. /\ finish(last.status, e) /\ pc = "announce"
            /\ UNCHANGED <<policy, attempts, last, cause>>
        BY <2>4, <3>1, Announced DEF AnnounceDecision
      <4>2. attempts > 0 /\ last.err # "none" /\ last.status # "completed" /\ cause # "finish"
        BY <4>1 DEF LastInv, Deciding, CauseInv
      <4>3. /\ e # "none"
            /\ \/ e = last.err
               \/ cause # "none" /\ e = contextPolicyError
               \/ policy.custom /\ e = "unknown"
        <5>1. \/ decision.err \in {"none", last.err}
              \/ cause # "none" /\ decision.err = contextPolicyError
              \/ policy.custom /\ decision.err = "unknown"
          BY <3>1, <4>1 DEF DecisionInv, Deciding
        <5> QED BY <4>2, <5>1
      <4>4. last.status = "cancelled" => cause # "none"
        BY DEF CauseInv
      <4> HIDE DEF e
      <4>5. result'.err = e /\ result'.status # "completed"
            /\ (result'.status = "cancelled" => last.status = "cancelled")
        BY <4>1, <4>2, <4>3 DEF finish
      <4> QED BY <4>1, <4>2, <4>3, <4>4, <4>5 DEF contextPolicyError, LoopOK, ResultExplained
    <3>2. CASE decision.kind # "stop"
      BY <2>4, <3>2, Announced DEF AnnounceDecision, ResultExplained
    <3> QED BY <3>1, <3>2
  <2>5. CASE SleepCancelled
    BY <2>5 DEF SleepCancelled, finish, contextPolicyError, Deciding, LastInv, CauseInv, LoopOK,
       ResultExplained
  <2>6. CASE ApplyDecision
    BY <2>6 DEF ApplyDecision, finish, DecisionInv, Deciding, LastInv, CauseInv, LoopOK,
       ResultExplained
  <2>7. CASE StartAttempt \/ SetCurrent \/ AttemptWait \/ DrainEvents \/ RecordRateLimit \/
         SleepOver \/ \E e \in startErrors : StartFails(e)
    BY <2>7 DEF StartAttempt, SetCurrent, AttemptWait, DrainEvents, StartFails, RecordRateLimit,
       SleepOver, sendEvent, ResultExplained
  <2> QED BY <1>1, <2>1, <2>2, <2>3, <2>4, <2>5, <2>6, <2>7 DEF Loop
<1>2. CASE Finish
  BY <1>2 DEF Finish, DeferCancel, CloseEvents, CloseDone, endCtx, ResultExplained
<1>3. CASE Forward
  BY <1>3 DEF Forward, ForwardReceive, ForwardSend, ForwardEnd, sendEvent, ResultExplained
<1>4. CASE AttemptRuns
  BY <1>4 DEF AttemptRuns, AttemptSettles, AttemptStops, AttemptCloses, AttemptEmits,
     attemptMoves, Attempt!Settle, Attempt!AskStop, Attempt!CloseDone, Attempt!CloseEvents,
     ResultExplained
<1>5. ASSUME NEW c \in Callers, CancelContext(c) \/ CancelCurrent(c) PROVE ResultExplained'
  BY <1>5 DEF CancelContext, CancelCurrent, endCtx, ResultExplained
<1>6. ASSUME NEW why \in CtxCauses, ContextEnds(why) PROVE ResultExplained'
  BY <1>6 DEF ContextEnds, ResultExplained
<1>7. CASE Consume
  BY <1>7 DEF Consume, ResultExplained
<1>8. CASE Stop \/ UNCHANGED vars
  BY <1>8 DEF Stop, vars, ResultExplained
<1> QED BY <1>1, <1>2, <1>3, <1>4, <1>5, <1>6, <1>7, <1>8 DEF Next

-----------------------------------------------------------------------------
\* The inductive invariant.
TypeInv == FlagsOK /\ LoopOK /\ OutcomesOK /\ CountsOK

RunnerInv ==
  /\ PhaseInv /\ CauseInv /\ LastInv /\ DecisionInv /\ TriesInv /\ StreamInv /\ RequestInv
  /\ ResultExplained

\* The types hold initially ...
LEMMA TypeInit == Init => TypeInv
<1> SUFFICES ASSUME Init PROVE TypeInv
  OBVIOUS
<1>1. FlagsOK
  BY DEF Init, FlagsOK
<1>2. LoopOK
  BY PolicyAssumption DEF PolicyAssumption, Init, LoopOK, RunnerPC, Targets
<1>3. OutcomesOK
  <2>1. "none" \in Category /\ 0 \in Targets
    BY PolicyAssumption DEF PolicyAssumption, Category, Targets
  <2>2. NoOutcome \in [status : Status \cup {"empty"}, err : Category] /\ NoDecision \in Decision
    BY <2>1 DEF NoOutcome, NoDecision, Decision
  <2> QED BY <2>2 DEF Init, OutcomesOK
<1>4. CountsOK
  BY PolicyAssumption DEF PolicyAssumption, Init, CountsOK
<1> QED BY <1>1, <1>2, <1>3, <1>4 DEF TypeInv

\* ... and so does the rest of the invariant.
LEMMA RunnerInit == Init => RunnerInv
<1> SUFFICES ASSUME Init PROVE RunnerInv
  OBVIOUS
<1>1. PhaseInv /\ CauseInv /\ LastInv /\ DecisionInv
  BY DEF Init, PhaseInv, AfterFinish, CauseInv, LastInv, NoOutcome, DecisionInv, Deciding
<1>2. TriesInv
  <2>1. \A t \in Targets : tries[t] = 0
    BY DEF Init
  <2>2. 0 \in Targets
    BY PolicyAssumption DEF PolicyAssumption, Targets
  <2> QED BY <2>1, <2>2 DEF Init, TriesInv, AttemptsBounded
<1>3. StreamInv
  <2>1. newest = 0 /\ attempts = 0 /\ pc = "check"
    BY DEF Init
  <2>2. missing = dropped
    BY DEF Init
  <2> QED BY <2>1, <2>2 DEF StreamInv, AfterFinish
<1>4. RequestInv
  BY DEF Init, RequestInv
<1>5. ResultExplained
  BY DEF Init, ResultExplained
<1> QED BY <1>1, <1>2, <1>3, <1>4, <1>5 DEF RunnerInv

\* It holds throughout.
LEMMA RunnerInvariance == Spec => []TypeInv /\ []RunnerInv
<1>1. TypeInv /\ [Next]_vars => TypeInv'
  BY FlagsStep, LoopStep, OutcomesStep, CountsStep DEF TypeInv
<1>2. TypeInv /\ RunnerInv /\ [Next]_vars => RunnerInv'
  BY PhaseStep, CauseStep, LastStep, DecisionStep, TriesStep, StreamStep, RequestStep, ResultStep
     DEF TypeInv, RunnerInv
<1> QED BY <1>1, <1>2, TypeInit, RunnerInit, PTL DEF Spec

\* Type correctness; in particular the channel never exceeds its capacity.
THEOREM RunnerTypeCorrect == Spec => []TypeOK
<1>1. TypeInv => TypeOK
  BY TypeParts DEF TypeInv
<1> QED BY <1>1, RunnerInvariance, PTL

\* BasicPolicy never exceeds MaxAttemptsPerTarget, takes the alternatives in order,
\* and no policy makes the runner start a second attempt on an ended context.
THEOREM AttemptsAreBounded == Spec => []AttemptsBounded
<1>1. RunnerInv => AttemptsBounded
  BY DEF RunnerInv, TriesInv
<1> QED BY <1>1, RunnerInvariance, PTL

\* The result's error is that of the last attempt, of the context or of a caller's
\* own policy; completed means without an error, and cancelled has a cause.
THEOREM ResultIsExplained == Spec => []ResultExplained
<1>1. RunnerInv => ResultExplained
  BY DEF RunnerInv
<1> QED BY <1>1, RunnerInvariance, PTL

\* No attempt inherits the settings of an alternative tried before it.
THEOREM RequestsAreFresh == Spec => []RequestIsFresh
<1>1. RunnerInv => RequestIsFresh
  BY DEF RunnerInv, RequestInv, RequestIsFresh
<1> QED BY <1>1, RunnerInvariance, PTL

\* The result tells of dropped events exactly when some were dropped.
THEOREM DropsReported == Spec => []DropsAreReported
<1>1. RunnerInv => DropsAreReported
  BY DEF RunnerInv, PhaseInv, StreamInv, DropsAreReported
<1> QED BY <1>1, RunnerInvariance, PTL

\* Nothing is sent on the closed stream, and events of an attempt never follow
\* those of a later one.
THEOREM StreamKeepsOrder == Spec => AttemptsInOrder
<1> DEFINE A == events' > events => open /\ newest <= newest'
<1>1. TypeInv /\ RunnerInv /\ [Next]_vars => [A]_vars
  <2> SUFFICES ASSUME TypeInv, RunnerInv, Next, events' > events
               PROVE  open /\ newest <= newest'
    OBVIOUS
  <2> USE DEF TypeInv, RunnerInv, CountsOK, LoopOK
  <2>1. ASSUME NEW n, sendEvent(n) PROVE newest' = n
    BY <2>1 DEF sendEvent
  <2>2. CASE Loop
    <3>1. RecordRateLimit \/ AnnounceDecision
      BY <2>2 DEF Loop, CheckContext, StartAttempt, SetCurrent, AttemptWait, DrainEvents,
         Summarize, StartFails, Decide, SleepOver, SleepCancelled, ApplyDecision
    <3>2. pc \in {"record", "announce"} /\ sendEvent(attempts)
      BY <3>1, Announced DEF RecordRateLimit, AnnounceDecision
    <3> QED BY <2>1, <3>2 DEF PhaseInv, StreamInv
  <2>3. CASE Forward
    <3>1. fwd = "send" /\ sendEvent(attempts + 1)
      BY <2>3 DEF Forward, ForwardReceive, ForwardSend, ForwardEnd
    <3>2. pc \in {"wait", "drain"}
      BY <3>1 DEF PhaseInv
    <3> QED BY <2>1, <3>1, <3>2 DEF PhaseInv, StreamInv
  <2>4. CASE Consume
    BY <2>4 DEF Consume
  <2>5. ~(Finish \/ AttemptRuns \/ Stop)
    BY DEF Finish, DeferCancel, CloseEvents, CloseDone, AttemptRuns, AttemptSettles, AttemptStops,
       AttemptCloses, AttemptEmits, attemptMoves, Stop, vars
  <2>6. ~((\E c \in Callers : CancelContext(c) \/ CancelCurrent(c))
          \/ \E why \in CtxCauses : ContextEnds(why))
    BY DEF CancelContext, CancelCurrent, ContextEnds
  <2> QED BY <2>2, <2>3, <2>4, <2>5, <2>6 DEF Next
<1> QED BY <1>1, RunnerInvariance, PTL DEF Spec, AttemptsInOrder

\* Every step of the logical run is a step of the contract or changes nothing it
\* speaks of.
LEMMA ContractStep ==
  TypeInv /\ TypeInv' /\ RunnerInv /\ RunnerInv' /\ [Next]_vars
    => [Contract!Next]_(Contract!contractVars)
<1> SUFFICES ASSUME TypeInv, TypeInv', RunnerInv, RunnerInv', [Next]_vars
             PROVE  Contract!Next \/ UNCHANGED Contract!contractVars
  OBVIOUS
<1> USE DEF TypeInv, RunnerInv, PhaseInv
<1>1. UNCHANGED <<result, done, open>> /\ (cause # "none" => cause' = cause)
        => Contract!AskStop \/ UNCHANGED Contract!contractVars
  BY DEF Contract!AskStop, Contract!contractVars
<1>2. CASE Loop
  <2>1. UNCHANGED <<done, cause, open>>
    BY <1>2, Announced DEF Loop, CheckContext, StartAttempt, SetCurrent, AttemptWait, DrainEvents,
       Summarize, StartFails, Decide, RecordRateLimit, AnnounceDecision, SleepOver,
       SleepCancelled, ApplyDecision, finish, sendEvent
  <2>2. result = NoOutcome
    BY <1>2 DEF Loop, CheckContext, StartAttempt, SetCurrent, AttemptWait, DrainEvents, Summarize,
       StartFails, Decide, RecordRateLimit, AnnounceDecision, SleepOver, SleepCancelled,
       ApplyDecision, AfterFinish
  <2>3. result' = NoOutcome \/ result' \in Outcomes
    BY DEF OutcomesOK
  <2>4. result' \in Outcomes => Contract!SettleAny
    BY <2>1, <2>2 DEF Contract!SettleAny, Contract!Settle
  <2> QED BY <2>1, <2>2, <2>3, <2>4 DEF Contract!Next, Contract!contractVars
<1>3. CASE DeferCancel
  BY <1>1, <1>3 DEF DeferCancel, endCtx, Contract!Next
<1>4. CASE CloseEvents
  <2>1. result # NoOutcome /\ open /\ ~open'
    BY <1>4 DEF CloseEvents, AfterFinish
  <2>2. UNCHANGED <<result, done, cause>>
    BY <1>4 DEF CloseEvents
  <2> QED BY <2>1, <2>2 DEF Contract!Next, Contract!CloseEvents
<1>5. CASE CloseDone
  <2>1. result # NoOutcome /\ ~done /\ done'
    BY <1>5 DEF CloseDone, AfterFinish
  <2>2. UNCHANGED <<result, open, cause>>
    BY <1>5 DEF CloseDone
  <2> QED BY <2>1, <2>2 DEF Contract!Next, Contract!CloseDone
<1>6. CASE Forward \/ AttemptRuns \/ Consume \/ Stop \/ UNCHANGED vars
  <2>1. UNCHANGED <<result, done, open, cause>>
    BY <1>6 DEF Forward, ForwardReceive, ForwardSend, ForwardEnd, sendEvent, AttemptRuns,
       AttemptSettles, AttemptStops, AttemptCloses, AttemptEmits, attemptMoves, Consume, Stop,
       vars
  <2> QED BY <2>1 DEF Contract!contractVars
<1>7. ASSUME \/ \E c \in Callers : CancelContext(c) \/ CancelCurrent(c)
             \/ \E why \in CtxCauses : ContextEnds(why)
      PROVE  Contract!Next \/ UNCHANGED Contract!contractVars
  BY <1>1, <1>7 DEF CancelContext, CancelCurrent, ContextEnds, endCtx, Contract!Next
<1> QED BY <1>2, <1>3, <1>4, <1>5, <1>6, <1>7 DEF Next, Finish

\* The handle of the logical run implements the safety of the Run interface: one
\* result, fixed before the stream and done are closed, each closed once.
THEOREM RunnerKeepsSafeContract == Spec => Contract!SafeSpec
<1>1. Init => Contract!Init
  BY DEF Init, Contract!Init
<1> QED BY <1>1, ContractStep, RunnerInvariance, PTL DEF Spec, Contract!SafeSpec
=============================================================================
