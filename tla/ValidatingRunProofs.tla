------------------------ MODULE ValidatingRunProofs ------------------------
(***************************************************************************)
(* Theorems about ValidatingRun, for every set of validation specs and     *)
(* artifacts, any number of callers, every capacity and every choice of    *)
(* the other constants.                                                    *)
(*                                                                         *)
(* The inductive invariant says, conjunct by conjunct, what holds at each  *)
(* point of execute():                                                     *)
(*   PhaseInv    which goroutine and which handle exist, what is closed    *)
(*   CauseInv    what the end of the context says of the point reached     *)
(*   PassedInv   what the last validation says of the work directory       *)
(*   ErrorInv    which error each way out has in hand                      *)
(*   SessionInv  when the session can have been impossible to continue     *)
(*   BudgetInv   how many inner runs and validations each repair adds      *)
(*   LateInv     how often an inner run was started on an ended context    *)
(*   QueueInv    which events may still be waiting to be sent              *)
(*   OrderInv    where the newest event stands in the story of its run     *)
(***************************************************************************)
EXTENDS ValidatingRun, NumberFacts

\* The groups of variables are only abbreviations.
USE DEF loopVars, endVars, chanVars, handleVars, innerVars

\* The points of execute() after finish, and those of a run that was started.
AfterFinish == {"defer_cancel", "close_events", "close_done", "end"}
Running == {"set_current", "wait", "drain", "returned"}

PhaseInv ==
  /\ iLive <=> pc \in {"set_current", "wait", "drain"}
  /\ fwd # "none" <=> pc \in {"wait", "drain"}
  /\ result # NoOutcome <=> pc \in AfterFinish
  /\ done <=> pc = "end"
  /\ open <=> pc \notin {"close_done", "end"}

CauseInv ==
  /\ cause = "finish" => pc \in {"close_events", "close_done", "end"}
  /\ pc = "cancelled" => cause # "none"

\* A validation that passed speaks of the artifact that is still there.
PassedInv ==
  pc = "decide" \/ result.status = "completed" =>
    /\ history # <<>>
    /\ passed /\ spec.required => validateMarkdownTemplate

ErrorInv ==
  /\ pc \in {"validate", "cancelled", "decide"} => last.err = "none"
  /\ pc = "repair_failed" => phase # "first" /\ ~tryFresh /\ repairError # "none"
  /\ result.status = "completed" => result.err = "none" /\ last.err = "none" /\ passed

\* Only a repair that continues the session finds that unsupported, and what it left
\* behind is not validated.
SessionInv ==
  /\ last.unsupported => spec.continue
  /\ pc \in {"drain", "returned", "repair_failed"} /\ last.unsupported => phase = "repair"
  /\ pc \in {"validate", "cancelled", "decide"} => ~last.unsupported

\* The inner runs of the repair that is not over yet.
runsOfRepair ==
  IF phase = "first" \/ pc \notin {"start"} \cup Running THEN 0
  ELSE (IF phase = "fallback" THEN 1 ELSE 0) + (IF pc \in Running THEN 1 ELSE 0)

BudgetInv ==
  /\ repairs <= spec.max
  /\ phase = "fallback" => spec.fallback
  /\ phase = "first" => repairs = 0
  /\ phase # "first" /\ pc \in {"start"} \cup Running => repairs < spec.max
  /\ phase = "first" => started = IF pc = "start" THEN 0 ELSE 1
  /\ started <= 1 + (IF spec.fallback THEN repairs + repairs ELSE repairs) + runsOfRepair
  /\ Len(history) <= 1 + repairs
  /\ pc = "validate" => Len(history) <= repairs
  /\ phase = "first" /\ pc \in {"start"} \cup Running => history = <<>>

LateInv ==
  /\ late > 0 => cause # "none"
  /\ late <= IF phase = "fallback" THEN 2 ELSE 1
  /\ pc = "start" => late <= IF phase = "fallback" THEN 1 ELSE 0
  /\ pc = "decide" => late = 0

\* What execute() may still have to send at p.
queueAt(p) ==
  CASE p = "start" -> {<<>>, <<"repair.started">>, <<"repairing", "repair.started">>}
    [] p = "validate" -> {<<>>, <<"validation.started">>, <<"validating", "validation.started">>,
                          <<"repair.completed", "validating", "validation.started">>}
    [] p = "cancelled" -> {<<>>, <<"cancelled">>}
    [] p = "decide" -> {<<>>, <<"completed">>, <<"validation.completed", "completed">>}
    [] p = "repair_failed" -> {<<>>, <<"repair.failed">>}
    [] OTHER -> {<<>>}

QueueInv == out \in queueAt(pc)

\* The last place of the story an event may have at p.
lastPlace(p) ==
  CASE p \in Running -> 1
    [] p = "repair_failed" -> 3
    [] p = "validate" -> 5
    [] p = "cancelled" -> 7
    [] p = "decide" -> 8
    [] OTHER -> 10

OrderInv ==
  /\ newest.run <= started
  /\ newest.run = started =>
       place(newest) <= IF out = <<>> THEN lastPlace(pc)
                        ELSE place([kind |-> Head(out), run |-> started])

ValidationInv ==
  /\ PhaseInv /\ CauseInv /\ PassedInv /\ ErrorInv /\ SessionInv /\ BudgetInv /\ LateInv
  /\ QueueInv /\ OrderInv /\ ResultExplained

-----------------------------------------------------------------------------
(* The search for the headings of the template, by induction (UpTo).       *)

\* A search finds the first of the occurrences.
LEMMA SearchFinds ==
  ASSUME NEW observed, Len(observed) \in Nat, NEW pos \in Nat, NEW h,
         occurrences(observed, pos, h) # {}
  PROVE  /\ searchFrom(observed, pos, h) - 1 \in occurrences(observed, pos, h)
         /\ \A i \in occurrences(observed, pos, h) : searchFrom(observed, pos, h) <= i + 1
         /\ searchFrom(observed, pos, h) \in Nat
<1> DEFINE O == occurrences(observed, pos, h)
<1>1. O \in SUBSET Nat
  BY DEF occurrences
<1>2. \E n \in O : \A m \in O : n <= m
  BY <1>1, LeastNumber
<1>3. Min(O) \in O /\ \A m \in O : Min(O) <= m
  BY <1>2 DEF Min
<1>4. searchFrom(observed, pos, h) = Min(O) + 1
  BY DEF searchFrom
<1> QED BY <1>1, <1>3, <1>4

\* The cursor is well defined: each of its values comes from the one before.
LEMMA CursorSteps ==
  ASSUME NEW expected, Len(expected) \in Nat, NEW observed
  PROVE  /\ cursor(expected, observed)[0] = 1
         /\ \A i \in 1 .. Len(expected) :
              cursor(expected, observed)[i] =
                searchFrom(observed, cursor(expected, observed)[i - 1], expected[i])
<1> DEFINE run(f, n) == f = [i \in 0 .. n |-> IF i = 0 THEN 1
                                             ELSE searchFrom(observed, f[i - 1], expected[i])]
           S == {n \in Nat : \E f : run(f, n)}
<1>1. 0 \in S
  <2>1. run([i \in 0 .. 0 |-> 1], 0)
    OBVIOUS
  <2> QED BY <2>1
<1>2. ASSUME NEW n \in Nat, n \in S PROVE n + 1 \in S
  <2>1. PICK f : run(f, n)
    BY <1>2
  <2> DEFINE g == [i \in 0 .. n + 1 |-> IF i <= n THEN f[i]
                                        ELSE searchFrom(observed, f[n], expected[n + 1])]
  <2>2. \A i \in 0 .. n : g[i] = f[i]
    OBVIOUS
  <2>3. \A i \in 0 .. n + 1 : g[i] = IF i = 0 THEN 1
                                     ELSE searchFrom(observed, g[i - 1], expected[i])
    <3> SUFFICES ASSUME NEW i \in 0 .. n + 1
                 PROVE  g[i] = IF i = 0 THEN 1 ELSE searchFrom(observed, g[i - 1], expected[i])
      OBVIOUS
    <3>1. CASE i = 0
      BY <2>1, <2>2, <3>1
    <3>2. CASE i \in 1 .. n
      <4>1. i - 1 \in 0 .. n /\ g[i - 1] = f[i - 1] /\ g[i] = f[i]
        BY <2>2, <3>2
      <4>2. f[i] = searchFrom(observed, f[i - 1], expected[i])
        BY <2>1, <3>2
      <4> QED BY <3>2, <4>1, <4>2
    <3>3. CASE i = n + 1
      <4>1. g[i] = searchFrom(observed, f[n], expected[n + 1]) /\ g[n] = f[n] /\ i - 1 = n
        BY <2>2, <3>3
      <4> QED BY <3>3, <4>1
    <3> QED BY <3>1, <3>2, <3>3
  <2>4. run(g, n + 1)
    <3> DEFINE e(i) == IF i = 0 THEN 1 ELSE searchFrom(observed, g[i - 1], expected[i])
    <3>1. g = [i \in 0 .. n + 1 |-> g[i]]
      OBVIOUS
    <3>2. \A i \in 0 .. n + 1 : g[i] = e(i)
      BY <2>3
    <3> HIDE DEF g
    <3> QED BY <3>1, <3>2
  <2> HIDE DEF g, run
  <2> QED BY <2>4
<1>3. \A i \in 0 .. Len(expected) : i \in S
  <2> DEFINE n == Len(expected)
  <2> HIDE DEF S
  <2>1. \A i \in 0 .. n : i + 1 \in 0 .. n /\ i \in S => i + 1 \in S
    BY <1>2
  <2> HIDE DEF n
  <2>2. n \in Nat
    BY DEF n
  <2>3. \A i \in 0 .. n : i \in S
    BY <1>1, <2>1, <2>2, UpTo
  <2> QED BY <2>3 DEF n
<1>4. \E f : run(f, Len(expected))
  BY <1>3
<1>5. run(cursor(expected, observed), Len(expected))
  BY <1>4 DEF cursor
<1> QED BY <1>5

\* There are places for the expected headings, one after the other.
matches(expected, observed) ==
  \E at_ \in [DOMAIN expected -> DOMAIN observed] :
    /\ \A i \in DOMAIN expected : observed[at_[i]] = expected[i]
    /\ \A i, j \in DOMAIN expected : i < j => at_[i] < at_[j]

\* The places the search finds stand in the order of the template, and are the
\* first that do.
LEMMA SearchIsGreedy ==
  ASSUME NEW expected \in Seq(STRING), NEW observed \in Seq(STRING)
  PROVE  missingInOrder(expected, observed) = {} <=> matches(expected, observed)
<1> DEFINE n == Len(expected)
           c == cursor(expected, observed)
<1>0. /\ n \in Nat /\ Len(observed) \in Nat /\ DOMAIN expected = 1 .. n
      /\ DOMAIN observed = 1 .. Len(observed)
  OBVIOUS
<1>1. c[0] = 1 /\ \A i \in 1 .. n : c[i] = searchFrom(observed, c[i - 1], expected[i])
  BY <1>0, CursorSteps
<1>2. missingInOrder(expected, observed) = {} <=>
        \A i \in 1 .. n : occurrences(observed, c[i - 1], expected[i]) # {}
  BY <1>0 DEF missingInOrder
<1> HIDE DEF n, c
<1>3. ASSUME \A i \in 1 .. n : occurrences(observed, c[i - 1], expected[i]) # {}
      PROVE  \E at_ \in [1 .. n -> DOMAIN observed] :
               /\ \A i \in 1 .. n : observed[at_[i]] = expected[i]
               /\ \A i, j \in 1 .. n : i < j => at_[i] < at_[j]
  <2> DEFINE N == {k \in 0 .. n : c[k] \in Nat}
  <2>1. \A i \in 0 .. n : i \in N
    <3>1. ASSUME NEW i \in 0 .. n, i + 1 \in 0 .. n, c[i] \in Nat PROVE c[i + 1] \in Nat
      <4>1. i + 1 \in 1 .. n /\ (i + 1) - 1 = i
        BY <1>0, <3>1
      <4>2. c[i + 1] = searchFrom(observed, c[i], expected[i + 1])
            /\ occurrences(observed, c[i], expected[i + 1]) # {}
        BY <1>1, <1>3, <4>1
      <4> QED BY <1>0, <3>1, <4>2, SearchFinds
    <3>2. 0 \in N /\ \A i \in 0 .. n : i + 1 \in 0 .. n /\ i \in N => i + 1 \in N
      BY <1>0, <1>1, <3>1
    <3> HIDE DEF N
    <3> QED BY <1>0, <3>2, UpTo
  <2>2. ASSUME NEW i \in 1 .. n
        PROVE  /\ c[i - 1] \in Nat /\ c[i] \in Nat
               /\ c[i] - 1 \in occurrences(observed, c[i - 1], expected[i])
    <3>1. i - 1 \in 0 .. n /\ i \in 0 .. n
      BY <1>0
    <3>2. c[i - 1] \in Nat /\ c[i] \in Nat
      BY <2>1, <3>1
    <3> QED BY <1>0, <1>1, <1>3, <3>2, SearchFinds
  <2>3. \A i \in 1 .. n : /\ c[i] - 1 \in DOMAIN observed /\ observed[c[i] - 1] = expected[i]
                          /\ c[i - 1] < c[i]
    <3> SUFFICES ASSUME NEW i \in 1 .. n
                 PROVE  /\ c[i] - 1 \in DOMAIN observed /\ observed[c[i] - 1] = expected[i]
                        /\ c[i - 1] < c[i]
      OBVIOUS
    <3>1. c[i - 1] >= 1
      <4>1. CASE i = 1
        BY <1>1, <4>1
      <4>2. CASE i # 1
        <5>1. i - 1 \in 1 .. n
          BY <1>0, <4>2
        <5>2. c[i - 1] - 1 \in occurrences(observed, c[i - 1 - 1], expected[i - 1])
              /\ c[i - 1] \in Nat /\ c[i - 1 - 1] \in Nat
          BY <2>2, <5>1
        <5> QED BY <5>2 DEF occurrences
      <4> QED BY <4>1, <4>2
    <3> QED BY <1>0, <2>2, <3>1 DEF occurrences
  <2> DEFINE M(i) == {k \in 0 .. n : i < k => c[i] < c[k]}
  <2>4. \A i \in 1 .. n : \A j \in 0 .. n : j \in M(i)
    <3> SUFFICES ASSUME NEW i \in 1 .. n
                 PROVE  \A j \in 0 .. n : j \in M(i)
      OBVIOUS
    <3>1. ASSUME NEW j \in 0 .. n, j + 1 \in 0 .. n, i < j => c[i] < c[j], i < j + 1
          PROVE  c[i] < c[j + 1]
      <4>1. j + 1 \in 1 .. n /\ (j + 1) - 1 = j
        BY <1>0, <3>1
      <4>2. c[j] < c[j + 1] /\ c[j] \in Nat /\ c[j + 1] \in Nat /\ c[i] \in Nat
        BY <2>2, <2>3, <4>1
      <4>3. i = j \/ i < j
        BY <1>0, <3>1
      <4> QED BY <3>1, <4>2, <4>3
    <3>2. 0 \in M(i) /\ \A j \in 0 .. n : j + 1 \in 0 .. n /\ j \in M(i) => j + 1 \in M(i)
      BY <1>0, <3>1
    <3> HIDE DEF M
    <3> QED BY <1>0, <3>2, UpTo
  <2> DEFINE a == [i \in 1 .. n |-> c[i] - 1]
  <2>5. a \in [1 .. n -> DOMAIN observed] /\ \A i \in 1 .. n : observed[a[i]] = expected[i]
    BY <2>3
  <2>6. \A i, j \in 1 .. n : i < j => a[i] < a[j]
    <3> SUFFICES ASSUME NEW i \in 1 .. n, NEW j \in 1 .. n, i < j PROVE a[i] < a[j]
      OBVIOUS
    <3>1. j \in 0 .. n /\ c[i] < c[j] /\ c[i] \in Nat /\ c[j] \in Nat
      BY <1>0, <2>2, <2>4
    <3> QED BY <3>1
  <2> HIDE DEF a
  <2> QED BY <2>5, <2>6
<1>4. ASSUME NEW a \in [1 .. n -> DOMAIN observed],
             \A i \in 1 .. n : observed[a[i]] = expected[i],
             \A i, j \in 1 .. n : i < j => a[i] < a[j]
      PROVE  \A i \in 1 .. n : occurrences(observed, c[i - 1], expected[i]) # {}
  <2> DEFINE ahead(k) == c[k] \in Nat /\ (k + 1 \in 1 .. n => c[k] <= a[k + 1])
  <2>1. \A i \in 0 .. n : i + 1 \in 1 .. n /\ ahead(i) =>
                            a[i + 1] \in occurrences(observed, c[i], expected[i + 1])
    BY <1>0, <1>4 DEF occurrences
  <2>2. ASSUME NEW i \in 0 .. n, i + 1 \in 0 .. n, ahead(i) PROVE ahead(i + 1)
    <3>1. i + 1 \in 1 .. n /\ (i + 1) - 1 = i
      BY <1>0, <2>2
    <3>2. a[i + 1] \in occurrences(observed, c[i], expected[i + 1])
      BY <2>1, <2>2, <3>1
    <3>3. c[i + 1] = searchFrom(observed, c[i], expected[i + 1])
      BY <1>1, <3>1
    <3>4. c[i + 1] <= a[i + 1] + 1 /\ c[i + 1] \in Nat
      BY <1>0, <2>2, <3>2, <3>3, SearchFinds
    <3>5. ASSUME (i + 1) + 1 \in 1 .. n PROVE c[i + 1] <= a[(i + 1) + 1]
      <4>1. a[i + 1] < a[(i + 1) + 1] /\ a[i + 1] \in Nat /\ a[(i + 1) + 1] \in Nat
        BY <1>0, <1>4, <3>1, <3>5
      <4> QED BY <3>4, <4>1
    <3> QED BY <3>4, <3>5
  <2>3. ahead(0)
    BY <1>0, <1>1, <1>4
  <2> DEFINE A == {k \in 0 .. n : ahead(k)}
  <2>4. \A i \in 0 .. n : i \in A
    <3> HIDE DEF ahead
    <3>1. 0 \in A /\ \A i \in 0 .. n : i + 1 \in 0 .. n /\ i \in A => i + 1 \in A
      BY <1>0, <2>2, <2>3
    <3> HIDE DEF A
    <3> QED BY <1>0, <3>1, UpTo
  <2> QED
    <3> SUFFICES ASSUME NEW i \in 1 .. n PROVE occurrences(observed, c[i - 1], expected[i]) # {}
      OBVIOUS
    <3>1. i - 1 \in 0 .. n /\ (i - 1) + 1 = i
      BY <1>0
    <3> QED BY <2>1, <2>4, <3>1
<1> QED BY <1>0, <1>2, <1>3, <1>4 DEF matches

-----------------------------------------------------------------------------
\* TypeOK in parts, each of which a step keeps for reasons of its own.
FlagsOK ==
  /\ current \in BOOLEAN /\ done \in BOOLEAN /\ open \in BOOLEAN /\ iLive \in BOOLEAN
  /\ iDone \in BOOLEAN /\ iClosed \in BOOLEAN /\ iStop \in BOOLEAN

LoopOK ==
  /\ spec \in Specs /\ pc \in ValidationPC /\ phase \in {"first", "repair", "fallback"}
  /\ repairs \in Nat /\ started \in Nat /\ late \in Nat
  /\ cause \in {"none", "caller", "finish", "parent", "timeout"}
  /\ cpc \in [Callers -> {"idle", "cancel", "returned"}]
  /\ fwd \in {"none", "range", "send", "done"}
  /\ artifact \in Artifacts \cup {NoArtifact}

HistoryOK == history \in Seq(BOOLEAN) /\ out \in Seq(EventKind)

OutcomesOK ==
  /\ last \in [err : Category, unsupported : BOOLEAN]
  /\ result \in Outcomes \cup {NoOutcome} /\ iResult \in Outcomes \cup {NoOutcome}

CountsOK ==
  events \in 0 .. EventCap /\ newest \in Event /\ iEvents \in Nat /\ iEmitted \in 0 .. MaxEvents

\* Together they are TypeOK.
LEMMA TypeParts == TypeOK <=> FlagsOK /\ LoopOK /\ HistoryOK /\ OutcomesOK /\ CountsOK
  BY DEF TypeOK, FlagsOK, LoopOK, HistoryOK, OutcomesOK, CountsOK

\* The kinds of events.
LEMMA EventKinds ==
  EventKind = {"inner", "repair.completed", "repair.failed", "validating", "validation.started",
               "validation.completed", "cancelled", "completed", "repairing", "repair.started"}
  BY DEF EventKind, EventOrder, Range

\* Up to three of them are a sequence of events.
LEMMA Announcements ==
  ASSUME NEW a \in EventKind, NEW b \in EventKind, NEW c \in EventKind
  PROVE  <<a>> \in Seq(EventKind) /\ <<a, b>> \in Seq(EventKind) /\ <<a, b, c>> \in Seq(EventKind)
  OBVIOUS

\* What execute() announces.
LEMMA Announced ==
  /\ <<"validating", "validation.started">> \in Seq(EventKind)
  /\ <<"validation.completed", "completed">> \in Seq(EventKind)
  /\ <<"cancelled">> \in Seq(EventKind) /\ <<"repair.failed">> \in Seq(EventKind)
  /\ <<"repairing", "repair.started">> \in Seq(EventKind)
  /\ <<"repair.completed", "validating", "validation.started">> \in Seq(EventKind)
<1>1. /\ "validating" \in EventKind /\ "validation.started" \in EventKind
      /\ "validation.completed" \in EventKind /\ "completed" \in EventKind
      /\ "cancelled" \in EventKind /\ "repair.failed" \in EventKind /\ "repairing" \in EventKind
      /\ "repair.started" \in EventKind /\ "repair.completed" \in EventKind
  BY EventKinds
<1> QED BY <1>1, Announcements

\* What an inner run may report are outcomes.
LEMMA InnerOutcome == innerOutcomes \subseteq Outcomes
  BY ValidationAssumption DEF ValidationAssumption, innerOutcomes, Outcomes, Status, Category

\* The errors of a context, and those StartRun may fail with.
LEMMA ErrorTypes ==
  /\ contextValidationError \in {"timeout", "cancellation"}
  /\ startErrors \subseteq Category \ {"none"}
  BY ValidationAssumption DEF ValidationAssumption, contextValidationError, startErrors, Category

\* The spec of the run is one; its limit is a number.
LEMMA SpecType == LoopOK => spec \in Spec_ /\ spec.max \in Nat
  BY ValidationAssumption DEF ValidationAssumption, LoopOK, Spec_

\* finish stores an outcome, completed exactly when there is no error.
LEMMA FinishOutcome ==
  ASSUME NEW err \in Category, finish(err)
  PROVE  /\ result' \in Outcomes /\ result'.err = err
         /\ result'.status = "completed" <=> err = "none"
  BY DEF finish, statusForError, Outcomes, Status

\* The result of a run is not the empty one.
LEMMA OutcomeIsOne == NoOutcome \notin Outcomes
  BY DEF NoOutcome, Outcomes, Status

\* Every step keeps the Boolean variables Boolean ...
LEMMA FlagsStep == FlagsOK /\ [Next]_vars => FlagsOK'
<1> SUFFICES ASSUME FlagsOK, [Next]_vars PROVE FlagsOK'
  OBVIOUS
<1>1. CASE Loop
  <2>1. CASE Say
    BY <2>1 DEF Say, sendEvent, FlagsOK
  <2>2. CASE StartInner
    BY <2>2 DEF StartInner, starts, FlagsOK
  <2>3. CASE SetCurrent
    BY <2>3 DEF SetCurrent, FlagsOK
  <2>4. CASE DrainEvents
    BY <2>4 DEF DrainEvents, FlagsOK
  <2>5. CASE FirstReturned
    BY <2>5 DEF FirstReturned, finish, FlagsOK
  <2>6. CASE ValidationCancelled
    BY <2>6 DEF ValidationCancelled, finish, FlagsOK
  <2>7. CASE ValidationPassed
    BY <2>7 DEF ValidationPassed, finish, FlagsOK
  <2>8. CASE ValidationFailed
    BY <2>8 DEF ValidationFailed, finish, FlagsOK
  <2>9. CASE RepairFailed
    BY <2>9 DEF RepairFailed, finish, FlagsOK
  <2>10. CASE InnerWait \/ Validate \/ RepairStarts \/ RepairFallsBack \/ RepairReturned \/ \E e
         \in startErrors : StartFails(e)
    BY <2>10 DEF InnerWait, StartFails, Validate, RepairStarts, RepairFallsBack, RepairReturned,
       starts, returned, at, FlagsOK
    <2> QED BY <1>1, <2>1, <2>2, <2>3, <2>4, <2>5, <2>6, <2>7, <2>8, <2>9, <2>10 DEF Loop,
       StartAndWait
<1>2. CASE Finish
  BY <1>2 DEF Finish, DeferCancel, CloseEvents, CloseDone, endCtx, FlagsOK
<1>3. CASE Forward
  BY <1>3 DEF Forward, ForwardReceive, ForwardSend, ForwardEnd, sendEvent, FlagsOK
<1>4. CASE InnerRuns
  BY <1>4 DEF InnerRuns, InnerSettles, InnerStops, InnerCloses, InnerEmits, innerMoves,
     Inner!Settle, Inner!AskStop, Inner!CloseDone, Inner!CloseEvents, FlagsOK
<1>5. ASSUME NEW c \in Callers, CancelContext(c) \/ CancelCurrent(c) PROVE FlagsOK'
  BY <1>5 DEF CancelContext, CancelCurrent, endCtx, FlagsOK
<1>6. ASSUME NEW why \in CtxCauses, ContextEnds(why) PROVE FlagsOK'
  BY <1>6 DEF ContextEnds, FlagsOK
<1>7. CASE Consume
  BY <1>7 DEF Consume, FlagsOK
<1>8. CASE Stop \/ UNCHANGED vars
  BY <1>8 DEF Stop, vars, FlagsOK
<1> QED BY <1>1, <1>2, <1>3, <1>4, <1>5, <1>6, <1>7, <1>8 DEF Next

\* ... the loop's variables in their ranges ...
LEMMA LoopStep == LoopOK /\ [Next]_vars => LoopOK'
<1> SUFFICES ASSUME LoopOK, [Next]_vars PROVE LoopOK'
  OBVIOUS
<1>1. CASE Loop
  <2>1. CASE Say \/ StartInner \/ SetCurrent \/ InnerWait \/ DrainEvents \/ FirstReturned \/
         Validate \/ ValidationCancelled \/ ValidationPassed \/ ValidationFailed \/ RepairStarts
         \/ RepairFallsBack \/ RepairReturned \/ RepairFailed \/ \E e \in startErrors :
         StartFails(e)
    BY <2>1 DEF Say, StartInner, SetCurrent, InnerWait, DrainEvents, StartFails, FirstReturned,
       Validate, ValidationCancelled, ValidationPassed, ValidationFailed, RepairStarts,
       RepairFallsBack, RepairReturned, RepairFailed, starts, returned, at, finish, LoopOK,
       ValidationPC
    <2> QED BY <1>1, <2>1 DEF Loop, StartAndWait
<1>2. CASE Finish
  BY <1>2 DEF Finish, DeferCancel, CloseEvents, CloseDone, endCtx, LoopOK, ValidationPC
<1>3. CASE Forward
  BY <1>3 DEF Forward, ForwardReceive, ForwardSend, ForwardEnd, sendEvent, LoopOK, ValidationPC
<1>4. CASE InnerRuns
  BY <1>4 DEF InnerRuns, InnerSettles, InnerStops, InnerCloses, InnerEmits, innerMoves,
     Inner!Settle, Inner!AskStop, Inner!CloseDone, Inner!CloseEvents, LoopOK
<1>5. ASSUME NEW c \in Callers, CancelContext(c) \/ CancelCurrent(c) PROVE LoopOK'
  BY <1>5 DEF CancelContext, CancelCurrent, endCtx, LoopOK, ValidationPC
<1>6. ASSUME NEW why \in CtxCauses, ContextEnds(why) PROVE LoopOK'
  BY <1>6, ValidationAssumption DEF ValidationAssumption, ContextEnds, LoopOK
<1>7. CASE Consume
  BY <1>7 DEF Consume, LoopOK, ValidationPC
<1>8. CASE Stop \/ UNCHANGED vars
  BY <1>8 DEF Stop, vars, LoopOK, ValidationPC
<1> QED BY <1>1, <1>2, <1>3, <1>4, <1>5, <1>6, <1>7, <1>8 DEF Next

\* ... sequences of what they are sequences of ...
LEMMA HistoryStep == HistoryOK /\ [Next]_vars => HistoryOK'
<1> SUFFICES ASSUME HistoryOK, [Next]_vars PROVE HistoryOK'
  OBVIOUS
<1> USE Announced
<1>1. CASE Loop
  <2>1. CASE Say
    BY <2>1 DEF Say, HistoryOK
  <2>2. CASE FirstReturned
    BY <2>2 DEF FirstReturned, HistoryOK
  <2>3. CASE Validate
    <3>1. CASE cause = "none"
      <4>1. PICK other \in Checks : history' = Append(history, ValidateRun(other))
        BY <2>3, <3>1 DEF Validate
      <4>2. ValidateRun(other) \in BOOLEAN
        BY DEF ValidateRun, aggregateValidation
      <4>3. history' \in Seq(BOOLEAN)
        BY <4>1, <4>2 DEF HistoryOK
      <4>4. out' \in Seq(EventKind)
        BY <2>3, <3>1 DEF Validate
      <4> QED BY <4>3, <4>4 DEF HistoryOK
    <3>2. CASE cause # "none"
      BY <2>3, <3>2 DEF Validate, HistoryOK
    <3> QED BY <3>1, <3>2
  <2>4. CASE RepairStarts
    BY <2>4 DEF RepairStarts, HistoryOK
  <2>5. CASE RepairReturned
    BY <2>5 DEF RepairReturned, HistoryOK
  <2>6. CASE StartInner \/ SetCurrent \/ InnerWait \/ DrainEvents \/ ValidationCancelled \/
         ValidationPassed \/ ValidationFailed \/ RepairFallsBack \/ RepairFailed \/ \E e \in
         startErrors : StartFails(e)
    BY <2>6 DEF StartInner, SetCurrent, InnerWait, DrainEvents, StartFails, ValidationCancelled,
       ValidationPassed, ValidationFailed, RepairFallsBack, RepairFailed, starts, returned, at,
       HistoryOK
    <2> QED BY <1>1, <2>1, <2>2, <2>3, <2>4, <2>5, <2>6 DEF Loop, StartAndWait
<1>2. CASE Finish
  BY <1>2 DEF Finish, DeferCancel, CloseEvents, CloseDone, endCtx, HistoryOK
<1>3. CASE Forward
  BY <1>3 DEF Forward, ForwardReceive, ForwardSend, ForwardEnd, sendEvent, HistoryOK
<1>4. CASE InnerRuns
  BY <1>4 DEF InnerRuns, InnerSettles, InnerStops, InnerCloses, InnerEmits, innerMoves,
     Inner!Settle, Inner!AskStop, Inner!CloseDone, Inner!CloseEvents, HistoryOK
<1>5. ASSUME NEW c \in Callers, CancelContext(c) \/ CancelCurrent(c) PROVE HistoryOK'
  BY <1>5 DEF CancelContext, CancelCurrent, endCtx, HistoryOK
<1>6. ASSUME NEW why \in CtxCauses, ContextEnds(why) PROVE HistoryOK'
  BY <1>6 DEF ContextEnds, HistoryOK
<1>7. CASE Consume
  BY <1>7 DEF Consume, HistoryOK
<1>8. CASE Stop \/ UNCHANGED vars
  BY <1>8 DEF Stop, vars, HistoryOK
<1> QED BY <1>1, <1>2, <1>3, <1>4, <1>5, <1>6, <1>7, <1>8 DEF Next

\* ... outcomes in theirs ...
LEMMA OutcomesStep == LoopOK /\ OutcomesOK /\ [Next]_vars => OutcomesOK'
<1> SUFFICES ASSUME LoopOK, OutcomesOK, [Next]_vars PROVE OutcomesOK'
  OBVIOUS
<1> USE FinishOutcome, ErrorTypes
<1>1. CASE Loop
  <2>1. CASE InnerWait
    <3>1. iResult.err \in Category /\ contextValidationError \in Category
      BY DEF OutcomesOK, Outcomes, NoOutcome, Category
    <3>2. PICK e \in Category, u \in BOOLEAN : last' = [err |-> e, unsupported |-> u]
      BY <2>1, <3>1 DEF InnerWait, NotReturned
    <3> QED BY <2>1, <3>2 DEF InnerWait, OutcomesOK
  <2>2. ASSUME NEW e \in startErrors, StartFails(e) PROVE OutcomesOK'
    BY <2>2 DEF StartFails, returned, OutcomesOK
  <2>3. CASE FirstReturned
    <3>1. last.err \in Category
      BY DEF OutcomesOK, Category
    <3> QED BY <2>3, <3>1 DEF FirstReturned, OutcomesOK
  <2>4. CASE ValidationCancelled
    <3>1. contextValidationError \in Category
      BY DEF OutcomesOK, Category
    <3> QED BY <2>4, <3>1 DEF ValidationCancelled, OutcomesOK
  <2>5. CASE ValidationPassed
    <3>1. "none" \in Category
      BY DEF OutcomesOK, Category
    <3> QED BY <2>5, <3>1 DEF ValidationPassed, OutcomesOK
  <2>6. CASE ValidationFailed
    <3>1. "repair_exhausted" \in Category /\ "validation" \in Category
      BY DEF Category
    <3> QED BY <2>6, <3>1 DEF ValidationFailed, OutcomesOK
  <2>7. CASE RepairFailed
    <3>1. repairError \in Category
      BY DEF OutcomesOK, Category, repairError
    <3> QED BY <2>7, <3>1 DEF RepairFailed, OutcomesOK
  <2>8. CASE Say \/ StartInner \/ SetCurrent \/ DrainEvents \/ Validate \/ RepairStarts \/
         RepairFallsBack \/ RepairReturned
    BY <2>8 DEF Say, StartInner, SetCurrent, DrainEvents, Validate, RepairStarts, RepairFallsBack,
       RepairReturned, starts, at, OutcomesOK
    <2> QED BY <1>1, <2>1, <2>2, <2>3, <2>4, <2>5, <2>6, <2>7, <2>8 DEF Loop, StartAndWait
<1>2. CASE Finish
  BY <1>2 DEF Finish, DeferCancel, CloseEvents, CloseDone, endCtx, OutcomesOK
<1>3. CASE Forward
  BY <1>3 DEF Forward, ForwardReceive, ForwardSend, ForwardEnd, sendEvent, OutcomesOK
<1>4. CASE InnerRuns
  <2>1. iResult' \in Outcomes \cup {NoOutcome}
    BY <1>4, InnerOutcome DEF InnerRuns, InnerSettles, InnerStops, InnerCloses, InnerEmits,
       Inner!Settle, Inner!AskStop, Inner!CloseDone, Inner!CloseEvents, OutcomesOK
  <2> QED BY <1>4, <2>1 DEF InnerRuns, InnerSettles, InnerStops, InnerCloses, InnerEmits,
     innerMoves, OutcomesOK
<1>5. ASSUME NEW c \in Callers, CancelContext(c) \/ CancelCurrent(c) PROVE OutcomesOK'
  BY <1>5 DEF CancelContext, CancelCurrent, endCtx, OutcomesOK
<1>6. ASSUME NEW why \in CtxCauses, ContextEnds(why) PROVE OutcomesOK'
  BY <1>6 DEF ContextEnds, OutcomesOK
<1>7. CASE Consume
  BY <1>7 DEF Consume, OutcomesOK
<1>8. CASE Stop \/ UNCHANGED vars
  BY <1>8 DEF Stop, vars, OutcomesOK
<1> QED BY <1>1, <1>2, <1>3, <1>4, <1>5, <1>6, <1>7, <1>8 DEF Next

\* ... and the channel within its capacity.
LEMMA CountsStep == LoopOK /\ HistoryOK /\ CountsOK /\ [Next]_vars => CountsOK'
<1> SUFFICES ASSUME LoopOK, HistoryOK, CountsOK, [Next]_vars PROVE CountsOK'
  OBVIOUS
<1> USE DEF ValidationAssumption
<1>1. CASE Loop
  <2>1. CASE Say
    <3>1. Head(out) \in EventKind
      BY <2>1 DEF Say, HistoryOK
    <3> QED BY <2>1, <3>1, ValidationAssumption DEF Say, sendEvent, CountsOK, LoopOK, Event
  <2>2. CASE StartInner \/ SetCurrent \/ InnerWait \/ DrainEvents \/ FirstReturned \/ Validate
         \/ ValidationCancelled \/ ValidationPassed \/ ValidationFailed \/ RepairStarts \/
         RepairFallsBack \/ RepairReturned \/ RepairFailed \/ \E e \in startErrors :
         StartFails(e)
    BY <2>2, ValidationAssumption DEF StartInner, SetCurrent, InnerWait, DrainEvents, StartFails,
       FirstReturned, Validate, ValidationCancelled, ValidationPassed, ValidationFailed,
       RepairStarts, RepairFallsBack, RepairReturned, RepairFailed, starts, returned, at,
       CountsOK, LoopOK
    <2> QED BY <1>1, <2>1, <2>2 DEF Loop, StartAndWait
<1>2. CASE Finish
  BY <1>2, ValidationAssumption DEF Finish, DeferCancel, CloseEvents, CloseDone, endCtx, CountsOK,
     LoopOK
<1>3. CASE Forward
  <2>1. "inner" \in EventKind
    BY EventKinds
  <2> QED BY <1>3, <2>1, ValidationAssumption DEF Forward, ForwardReceive, ForwardSend,
     ForwardEnd, sendEvent, CountsOK, LoopOK, Event
<1>4. CASE InnerRuns
  BY <1>4, ValidationAssumption DEF InnerRuns, InnerSettles, InnerStops, InnerCloses, InnerEmits,
     innerMoves, Inner!Settle, Inner!AskStop, Inner!CloseDone, Inner!CloseEvents, CountsOK, LoopOK
<1>5. ASSUME NEW c \in Callers, CancelContext(c) \/ CancelCurrent(c) PROVE CountsOK'
  BY <1>5, ValidationAssumption DEF CancelContext, CancelCurrent, endCtx, CountsOK, LoopOK
<1>6. ASSUME NEW why \in CtxCauses, ContextEnds(why) PROVE CountsOK'
  BY <1>6, ValidationAssumption DEF ContextEnds, CountsOK, LoopOK
<1>7. CASE Consume
  BY <1>7, ValidationAssumption DEF Consume, CountsOK, LoopOK
<1>8. CASE Stop \/ UNCHANGED vars
  BY <1>8, ValidationAssumption DEF Stop, vars, CountsOK, LoopOK
<1> QED BY <1>1, <1>2, <1>3, <1>4, <1>5, <1>6, <1>7, <1>8 DEF Next

-----------------------------------------------------------------------------

\* Every step keeps the phases.
LEMMA PhaseStep == LoopOK /\ OutcomesOK /\ PhaseInv /\ [Next]_vars => PhaseInv'
<1> SUFFICES ASSUME LoopOK, OutcomesOK, PhaseInv, [Next]_vars PROVE PhaseInv'
  OBVIOUS
<1> USE FinishOutcome, ErrorTypes, OutcomeIsOne
<1>1. CASE Loop
  <2>1. CASE Say
    BY <2>1 DEF Say, sendEvent, PhaseInv, AfterFinish
  <2>2. CASE FirstReturned
    <3>1. last.err \in Category
      BY DEF OutcomesOK, Category
    <3>2. pc' = "defer_cancel" => result' \in Outcomes
      BY <2>2, <3>1 DEF FirstReturned
    <3> QED BY <2>2, <3>2 DEF FirstReturned, at, finish, PhaseInv, AfterFinish
  <2>3. CASE ValidationCancelled
    <3>1. contextValidationError \in Category
      BY DEF OutcomesOK, Category
    <3>2. pc' = "defer_cancel" => result' \in Outcomes
      BY <2>3, <3>1 DEF ValidationCancelled
    <3> QED BY <2>3, <3>2 DEF ValidationCancelled, at, finish, PhaseInv, AfterFinish
  <2>4. CASE ValidationPassed
    <3>1. "none" \in Category
      BY DEF OutcomesOK, Category
    <3>2. pc' = "defer_cancel" => result' \in Outcomes
      BY <2>4, <3>1 DEF ValidationPassed
    <3> QED BY <2>4, <3>2 DEF ValidationPassed, at, finish, PhaseInv, AfterFinish
  <2>5. CASE ValidationFailed
    <3>1. "repair_exhausted" \in Category /\ "validation" \in Category
      BY DEF Category
    <3>2. result' \in Outcomes
      BY <2>5, <3>1 DEF ValidationFailed
    <3> QED BY <2>5, <3>2 DEF ValidationFailed, at, finish, PhaseInv, AfterFinish
  <2>6. CASE RepairFailed
    <3>1. repairError \in Category
      BY DEF OutcomesOK, Category, repairError
    <3>2. pc' = "defer_cancel" => result' \in Outcomes
      BY <2>6, <3>1 DEF RepairFailed
    <3> QED BY <2>6, <3>2 DEF RepairFailed, at, finish, PhaseInv, AfterFinish
  <2>7. CASE StartInner \/ SetCurrent \/ InnerWait \/ DrainEvents \/ Validate \/ RepairStarts \/
         RepairFallsBack \/ RepairReturned \/ \E e \in startErrors : StartFails(e)
    BY <2>7 DEF StartInner, SetCurrent, InnerWait, DrainEvents, StartFails, Validate,
       RepairStarts, RepairFallsBack, RepairReturned, starts, returned, at, PhaseInv, AfterFinish
    <2> QED BY <1>1, <2>1, <2>2, <2>3, <2>4, <2>5, <2>6, <2>7 DEF Loop, StartAndWait
<1>2. CASE Finish
  BY <1>2 DEF Finish, DeferCancel, CloseEvents, CloseDone, endCtx, PhaseInv, AfterFinish
<1>3. CASE Forward
  BY <1>3 DEF Forward, ForwardReceive, ForwardSend, ForwardEnd, sendEvent, PhaseInv, AfterFinish
<1>4. CASE InnerRuns
  BY <1>4 DEF InnerRuns, InnerSettles, InnerStops, InnerCloses, InnerEmits, innerMoves,
     Inner!Settle, Inner!AskStop, Inner!CloseDone, Inner!CloseEvents, PhaseInv, AfterFinish
<1>5. ASSUME NEW c \in Callers, CancelContext(c) \/ CancelCurrent(c) PROVE PhaseInv'
  BY <1>5 DEF CancelContext, CancelCurrent, endCtx, PhaseInv, AfterFinish
<1>6. ASSUME NEW why \in CtxCauses, ContextEnds(why) PROVE PhaseInv'
  BY <1>6 DEF ContextEnds, PhaseInv, AfterFinish
<1>7. CASE Consume
  BY <1>7 DEF Consume, PhaseInv, AfterFinish
<1>8. CASE Stop \/ UNCHANGED vars
  BY <1>8 DEF Stop, vars, PhaseInv, AfterFinish
<1> QED BY <1>1, <1>2, <1>3, <1>4, <1>5, <1>6, <1>7, <1>8 DEF Next

\* Every step keeps CauseInv.
LEMMA CauseStep == LoopOK /\ PhaseInv /\ CauseInv /\ [Next]_vars => CauseInv'
<1> SUFFICES ASSUME LoopOK, PhaseInv, CauseInv, [Next]_vars PROVE CauseInv'
  OBVIOUS
<1>1. CASE Loop
  <2>1. CASE Say \/ StartInner \/ SetCurrent \/ InnerWait \/ DrainEvents \/ FirstReturned \/
         Validate \/ ValidationCancelled \/ ValidationPassed \/ ValidationFailed \/ RepairStarts
         \/ RepairFallsBack \/ RepairReturned \/ RepairFailed \/ \E e \in startErrors :
         StartFails(e)
    BY <2>1 DEF Say, StartInner, SetCurrent, InnerWait, DrainEvents, StartFails, FirstReturned,
       Validate, ValidationCancelled, ValidationPassed, ValidationFailed, RepairStarts,
       RepairFallsBack, RepairReturned, RepairFailed, starts, returned, at, finish, CauseInv
    <2> QED BY <1>1, <2>1 DEF Loop, StartAndWait
<1>2. CASE Finish
  BY <1>2 DEF Finish, DeferCancel, CloseEvents, CloseDone, endCtx, CauseInv
<1>3. CASE Forward
  BY <1>3 DEF Forward, ForwardReceive, ForwardSend, ForwardEnd, sendEvent, CauseInv
<1>4. CASE InnerRuns
  BY <1>4 DEF InnerRuns, InnerSettles, InnerStops, InnerCloses, InnerEmits, innerMoves,
     Inner!Settle, Inner!AskStop, Inner!CloseDone, Inner!CloseEvents, CauseInv
<1>5. ASSUME NEW c \in Callers, CancelContext(c) \/ CancelCurrent(c) PROVE CauseInv'
  BY <1>5 DEF CancelContext, CancelCurrent, endCtx, CauseInv, LoopOK
<1>6. ASSUME NEW why \in CtxCauses, ContextEnds(why) PROVE CauseInv'
  <2>1. why \in {"parent", "timeout"}
    BY ValidationAssumption DEF ValidationAssumption
  <2> QED BY <1>6, <2>1 DEF ContextEnds, CauseInv
<1>7. CASE Consume
  BY <1>7 DEF Consume, CauseInv
<1>8. CASE Stop \/ UNCHANGED vars
  BY <1>8 DEF Stop, vars, CauseInv
<1> QED BY <1>1, <1>2, <1>3, <1>4, <1>5, <1>6, <1>7, <1>8 DEF Next

\* What the end of a validation and the result say together with the artifact they
\* speak of stays true while none of them changes.
LEMMA PassedStays ==
  ASSUME PassedInv, UNCHANGED <<spec, history, artifact, result>>, pc' = "decide" => pc = "decide"
  PROVE  PassedInv'
<1>1. passed' = passed /\ validateMarkdownTemplate' = validateMarkdownTemplate
  BY DEF passed, validateMarkdownTemplate
<1> QED BY <1>1 DEF PassedInv

\* A validation that passes found a required artifact as its template wants it.
LEMMA ValidationChecks ==
  ASSUME NEW other \in Checks, ValidateRun(other), spec.required
  PROVE  validateMarkdownTemplate
<1> DEFINE c == [skipped |-> FALSE, passed |-> validateMarkdownTemplate,
                 required |-> spec.required]
<1>1. c.skipped \/ c.passed \/ ~c.required
  BY DEF ValidateRun, aggregateValidation
<1> QED BY <1>1

\* Every step keeps PassedInv: the artifact changes only while an inner run lives.
LEMMA PassedStep ==
  LoopOK /\ HistoryOK /\ OutcomesOK /\ PhaseInv /\ ErrorInv /\ PassedInv /\ [Next]_vars
    => PassedInv'
<1> SUFFICES ASSUME LoopOK, HistoryOK, OutcomesOK, PhaseInv, ErrorInv, PassedInv, [Next]_vars
             PROVE  PassedInv'
  OBVIOUS
<1> USE PassedStays
<1>1. CASE Loop
  <2>1. CASE FirstReturned
    <3>1. last.err \in Category /\ ~(pc' = "decide")
      BY <2>1 DEF FirstReturned, finish, OutcomesOK
    <3>2. CASE last.err # "none"
      <4>1. result'.status # "completed"
        BY <2>1, <3>1, <3>2, FinishOutcome DEF FirstReturned
      <4> QED BY <3>1, <4>1 DEF PassedInv
    <3>3. CASE last.err = "none"
      BY <2>1, <3>1, <3>3 DEF FirstReturned
    <3> QED BY <3>2, <3>3
  <2>2. CASE Validate
    <3>1. result = NoOutcome /\ result' = result
      BY <2>2 DEF Validate, at, PhaseInv, AfterFinish
    <3>2. CASE cause = "none"
      <4>1. PICK other \in Checks : history' = Append(history, ValidateRun(other))
        BY <2>2, <3>2 DEF Validate
      <4>2. ValidateRun(other) \in BOOLEAN
        BY DEF ValidateRun, aggregateValidation
      <4>3. history' # <<>> /\ passed' = ValidateRun(other)
        BY <4>1, <4>2 DEF passed, HistoryOK
      <4>4. UNCHANGED <<spec, artifact>> /\ validateMarkdownTemplate' = validateMarkdownTemplate
        BY <2>2 DEF Validate, validateMarkdownTemplate
      <4>5. ValidateRun(other) /\ spec.required => validateMarkdownTemplate
        BY ValidationChecks
      <4> QED BY <4>3, <4>4, <4>5 DEF PassedInv
    <3>3. CASE cause # "none"
      <4>1. pc' # "decide" /\ result'.status # "completed"
        BY <2>2, <3>1, <3>3 DEF Validate, NoOutcome
      <4> QED BY <4>1 DEF PassedInv
    <3> QED BY <3>2, <3>3
  <2>3. CASE ValidationCancelled
    <3>1. contextValidationError \in Category \ {"none"}
      BY ErrorTypes DEF Category
    <3>2. pc' # "decide" /\ result'.status # "completed"
      BY <2>3, <3>1, FinishOutcome DEF ValidationCancelled, finish
    <3> QED BY <3>2 DEF PassedInv
  <2>4. CASE ValidationPassed
    <3>1. pc = "decide" /\ UNCHANGED <<spec, history, artifact>>
      BY <2>4 DEF ValidationPassed, at
    <3>2. passed' = passed /\ validateMarkdownTemplate' = validateMarkdownTemplate
      BY <3>1 DEF passed, validateMarkdownTemplate
    <3> QED BY <3>1, <3>2 DEF PassedInv
  <2>5. CASE ValidationFailed
    <3>1. "repair_exhausted" \in Category /\ "validation" \in Category
      BY DEF Category
    <3>2. pc' # "decide" /\ result'.status # "completed"
      BY <2>5, <3>1, FinishOutcome DEF ValidationFailed, finish
    <3> QED BY <3>2 DEF PassedInv
  <2>6. CASE RepairStarts
    <3>1. pc' # "decide" /\ result' = NoOutcome
      BY <2>6 DEF RepairStarts, at, PhaseInv, AfterFinish
    <3> QED BY <3>1 DEF PassedInv, NoOutcome
  <2>7. CASE RepairFailed
    <3>1. repairError \in Category \ {"none"}
      BY <2>7 DEF RepairFailed, at, ErrorInv, OutcomesOK, repairError, Category
    <3>2. pc' # "decide" /\ result'.status # "completed"
      BY <2>7, <3>1, FinishOutcome DEF RepairFailed, finish
    <3> QED BY <3>2 DEF PassedInv
  <2>8. CASE Say \/ StartInner \/ SetCurrent \/ InnerWait \/ DrainEvents \/ RepairFallsBack \/
         RepairReturned \/ \E e \in startErrors : StartFails(e)
    BY <2>8 DEF Say, StartInner, SetCurrent, InnerWait, DrainEvents, StartFails, RepairFallsBack,
       RepairReturned, starts, returned, at, PassedInv
    <2> QED BY <1>1, <2>1, <2>2, <2>3, <2>4, <2>5, <2>6, <2>7, <2>8 DEF Loop, StartAndWait
<1>2. CASE Finish
  BY <1>2 DEF Finish, DeferCancel, CloseEvents, CloseDone, endCtx, PassedInv
<1>3. CASE Forward
  BY <1>3 DEF Forward, ForwardReceive, ForwardSend, ForwardEnd, sendEvent, PassedInv
<1>4. CASE InnerRuns
  <2>1. pc' = pc /\ pc \in {"set_current", "wait", "drain"} /\ result' = result
    BY <1>4 DEF InnerRuns, InnerSettles, InnerStops, InnerCloses, InnerEmits, innerMoves, PhaseInv
  <2>2. result = NoOutcome
    BY <2>1 DEF PhaseInv, AfterFinish
  <2> QED BY <2>1, <2>2 DEF PassedInv, NoOutcome
<1>5. ASSUME NEW c \in Callers, CancelContext(c) \/ CancelCurrent(c) PROVE PassedInv'
  BY <1>5 DEF CancelContext, CancelCurrent, endCtx, PassedInv
<1>6. ASSUME NEW why \in CtxCauses, ContextEnds(why) PROVE PassedInv'
  BY <1>6 DEF ContextEnds, PassedInv
<1>7. CASE Consume
  BY <1>7 DEF Consume, PassedInv
<1>8. CASE Stop \/ UNCHANGED vars
  BY <1>8 DEF Stop, vars, PassedInv
<1> QED BY <1>1, <1>2, <1>3, <1>4, <1>5, <1>6, <1>7, <1>8 DEF Next

\* ErrorInv speaks of these only.
LEMMA ErrorStays ==
  ASSUME ErrorInv, UNCHANGED <<spec, phase, last, history, result>>,
         pc' \in {"validate", "cancelled", "decide", "repair_failed"} => pc' = pc
  PROVE  ErrorInv'
<1>1. tryFresh' = tryFresh /\ repairError' = repairError /\ passed' = passed
  BY DEF tryFresh, unsupportedContinue, failedContinue, freshRepairFallbackAllowed, repairError,
     passed
<1> QED BY <1>1 DEF ErrorInv

\* Every step keeps ErrorInv.
LEMMA ErrorStep == LoopOK /\ OutcomesOK /\ PhaseInv /\ ErrorInv /\ [Next]_vars => ErrorInv'
<1> SUFFICES ASSUME LoopOK, OutcomesOK, PhaseInv, ErrorInv, [Next]_vars PROVE ErrorInv'
  OBVIOUS
<1> USE ErrorStays
<1>1. CASE Loop
  <2>1. CASE InnerWait
    <3>1. result' = NoOutcome
      BY <2>1 DEF InnerWait, at, PhaseInv, AfterFinish
    <3> QED BY <2>1, <3>1 DEF InnerWait, ErrorInv, NoOutcome
  <2>2. ASSUME NEW e \in startErrors, StartFails(e) PROVE ErrorInv'
    <3>1. result' = NoOutcome
      BY <2>2 DEF StartFails, starts, at, PhaseInv, AfterFinish
    <3> QED BY <2>2, <3>1 DEF StartFails, returned, ErrorInv, NoOutcome
  <2>3. CASE FirstReturned
    <3>1. last.err \in Category
      BY DEF OutcomesOK
    <3>2. CASE last.err # "none"
      <4>1. result'.status # "completed" /\ pc' = "defer_cancel"
        BY <2>3, <3>1, <3>2, FinishOutcome DEF FirstReturned, finish
      <4> QED BY <4>1 DEF ErrorInv
    <3>3. CASE last.err = "none"
      <4>1. result' = NoOutcome /\ pc' = "validate" /\ last' = last
        BY <2>3, <3>3 DEF FirstReturned, at, PhaseInv, AfterFinish
      <4> QED BY <3>3, <4>1 DEF ErrorInv, NoOutcome
    <3> QED BY <3>2, <3>3
  <2>4. CASE Validate
    <3>1. /\ result' = NoOutcome /\ pc' \in {"decide", "cancelled"}
          /\ last' = last /\ last.err = "none"
      BY <2>4 DEF Validate, at, PhaseInv, AfterFinish, ErrorInv
    <3> QED BY <3>1 DEF ErrorInv, NoOutcome
  <2>5. CASE ValidationCancelled
    <3>1. contextValidationError \in Category \ {"none"}
      BY ErrorTypes DEF Category
    <3>2. pc' = "defer_cancel" /\ result'.status # "completed"
      BY <2>5, <3>1, FinishOutcome DEF ValidationCancelled, finish
    <3> QED BY <3>2 DEF ErrorInv
  <2>6. CASE ValidationPassed
    <3>1. result'.err = "none" /\ last' = last /\ last.err = "none" /\ pc' = "defer_cancel"
      BY <2>6 DEF ValidationPassed, at, finish, ErrorInv
    <3>2. passed /\ passed' = passed
      BY <2>6 DEF ValidationPassed, passed
    <3> QED BY <3>1, <3>2 DEF ErrorInv
  <2>7. CASE ValidationFailed
    <3>1. "repair_exhausted" \in Category /\ "validation" \in Category
      BY DEF Category
    <3>2. pc' = "defer_cancel" /\ result'.status # "completed"
      BY <2>7, <3>1, FinishOutcome DEF ValidationFailed, finish
    <3> QED BY <3>2 DEF ErrorInv
  <2>8. CASE RepairStarts
    <3>1. result' = NoOutcome
      BY <2>8 DEF RepairStarts, at, PhaseInv, AfterFinish
    <3> QED BY <2>8, <3>1 DEF RepairStarts, ErrorInv, NoOutcome
  <2>9. CASE RepairFallsBack
    <3>1. result' = NoOutcome
      BY <2>9 DEF RepairFallsBack, at, PhaseInv, AfterFinish
    <3> QED BY <2>9, <3>1 DEF RepairFallsBack, ErrorInv, NoOutcome
  <2>10. CASE RepairReturned
    <3>1. result' = NoOutcome
      BY <2>10 DEF RepairReturned, at, PhaseInv, AfterFinish
    <3>2. tryFresh' = tryFresh /\ repairError' = repairError /\ last' = last /\ phase' = phase
      BY <2>10 DEF RepairReturned, tryFresh, unsupportedContinue, failedContinue,
         freshRepairFallbackAllowed, repairError
    <3>3. CASE repairError # "none"
      <4>1. pc' = "repair_failed" /\ phase # "first" /\ ~tryFresh
        BY <2>10, <3>3 DEF RepairReturned
      <4> QED BY <3>1, <3>2, <3>3, <4>1 DEF ErrorInv, NoOutcome
    <3>4. CASE repairError = "none"
      <4>1. pc' = "validate" /\ last.err = "none"
        BY <2>10, <3>4 DEF RepairReturned, repairError
      <4> QED BY <3>1, <3>2, <4>1 DEF ErrorInv, NoOutcome
    <3> QED BY <3>3, <3>4
  <2>11. CASE RepairFailed
    <3>1. repairError \in Category \ {"none"}
      BY <2>11 DEF RepairFailed, at, ErrorInv, OutcomesOK, repairError, Category
    <3>2. pc' = "defer_cancel" /\ result'.status # "completed"
      BY <2>11, <3>1, FinishOutcome DEF RepairFailed, finish
    <3> QED BY <3>2 DEF ErrorInv
  <2>12. CASE Say \/ StartInner \/ SetCurrent \/ DrainEvents
    BY <2>12 DEF Say, StartInner, SetCurrent, DrainEvents, starts, at, ErrorInv
    <2> QED BY <1>1, <2>1, <2>2, <2>3, <2>4, <2>5, <2>6, <2>7, <2>8, <2>9, <2>10, <2>11, <2>12 DEF
     Loop, StartAndWait
<1>2. CASE Finish
  BY <1>2 DEF Finish, DeferCancel, CloseEvents, CloseDone, endCtx, ErrorInv
<1>3. CASE Forward
  BY <1>3 DEF Forward, ForwardReceive, ForwardSend, ForwardEnd, sendEvent, ErrorInv
<1>4. CASE InnerRuns
  <2>1. UNCHANGED <<spec, pc, phase, last, history, result>>
    BY <1>4 DEF InnerRuns, InnerSettles, InnerStops, InnerCloses, InnerEmits, innerMoves
  <2> QED BY <2>1
<1>5. ASSUME NEW c \in Callers, CancelContext(c) \/ CancelCurrent(c) PROVE ErrorInv'
  BY <1>5 DEF CancelContext, CancelCurrent, endCtx, ErrorInv
<1>6. ASSUME NEW why \in CtxCauses, ContextEnds(why) PROVE ErrorInv'
  BY <1>6 DEF ContextEnds, ErrorInv
<1>7. CASE Consume
  BY <1>7 DEF Consume, ErrorInv
<1>8. CASE Stop \/ UNCHANGED vars
  BY <1>8 DEF Stop, vars, ErrorInv
<1> QED BY <1>1, <1>2, <1>3, <1>4, <1>5, <1>6, <1>7, <1>8 DEF Next

\* SessionInv speaks of these only.
LEMMA SessionStays ==
  ASSUME SessionInv, UNCHANGED <<spec, phase, last>>,
         pc' \in {"drain", "returned", "repair_failed", "validate", "cancelled", "decide"}
           => pc' = pc
  PROVE  SessionInv'
  BY DEF SessionInv

\* Every step keeps SessionInv.
LEMMA SessionStep == SessionInv /\ [Next]_vars => SessionInv'
<1> SUFFICES ASSUME SessionInv, [Next]_vars PROVE SessionInv'
  OBVIOUS
<1>1. CASE Loop
  <2>1. CASE InnerWait
    <3>1. pc' = "drain" /\ UNCHANGED <<spec, phase>>
      BY <2>1 DEF InnerWait
    <3>2. \/ \E u \in {FALSE, spec.continue /\ phase = "repair"} :
               last' = [err |-> iResult.err, unsupported |-> u]
          \/ last' = [NotReturned EXCEPT !.err = contextValidationError]
      BY <2>1 DEF InnerWait
    <3>3. ASSUME last'.unsupported PROVE spec.continue /\ phase = "repair"
      <4>1. CASE last' = [NotReturned EXCEPT !.err = contextValidationError]
        BY <3>3, <4>1 DEF NotReturned
      <4>2. CASE \E u \in {FALSE, spec.continue /\ phase = "repair"} :
                   last' = [err |-> iResult.err, unsupported |-> u]
        <5>1. PICK u \in {FALSE, spec.continue /\ phase = "repair"} :
                last' = [err |-> iResult.err, unsupported |-> u]
          BY <4>2
        <5>2. u = FALSE \/ u = (spec.continue /\ phase = "repair")
          BY Zenon
        <5>3. u = last'.unsupported
          BY <5>1
        <5> QED BY <3>3, <5>2, <5>3, Zenon
      <4> QED BY <3>2, <4>1, <4>2
    <3> QED BY <3>1, <3>3 DEF SessionInv
  <2>2. ASSUME NEW e \in startErrors, StartFails(e) PROVE SessionInv'
    BY <2>2 DEF StartFails, returned, SessionInv
  <2>3. CASE DrainEvents
    BY <2>3 DEF DrainEvents, SessionInv
  <2>4. CASE FirstReturned
    <3>1. /\ phase = "first" /\ pc = "returned" /\ UNCHANGED <<spec, phase, last>>
          /\ pc' \in {"defer_cancel", "validate"}
      BY <2>4 DEF FirstReturned, at, finish
    <3> QED BY <3>1 DEF SessionInv
  <2>5. CASE Validate
    BY <2>5 DEF Validate, at, SessionInv
  <2>6. CASE ValidationCancelled \/ ValidationPassed \/ ValidationFailed \/ RepairFailed
    BY <2>6, SessionStays DEF ValidationCancelled, ValidationPassed, ValidationFailed,
       RepairFailed, finish
  <2>7. CASE RepairStarts \/ RepairFallsBack
    BY <2>7 DEF RepairStarts, RepairFallsBack, SessionInv
  <2>8. CASE RepairReturned
    <3>1. pc = "returned" /\ UNCHANGED <<spec, phase, last>>
      BY <2>8 DEF RepairReturned, at
    <3>2. pc' = "repair_failed" \/ (pc' = "validate" /\ repairError = "none")
      BY <2>8 DEF RepairReturned
    <3> QED BY <3>1, <3>2 DEF SessionInv, repairError, unsupportedContinue
  <2>9. CASE Say \/ StartInner \/ SetCurrent
    BY <2>9, SessionStays DEF Say, StartInner, SetCurrent, starts, at
  <2> QED BY <1>1, <2>1, <2>2, <2>3, <2>4, <2>5, <2>6, <2>7, <2>8, <2>9 DEF Loop, StartAndWait
<1>2. CASE Finish
  BY <1>2, SessionStays DEF Finish, DeferCancel, CloseEvents, CloseDone
<1>3. CASE Forward
  BY <1>3, SessionStays DEF Forward, ForwardReceive, ForwardSend, ForwardEnd
<1>4. CASE InnerRuns
  <2>1. UNCHANGED <<spec, pc, phase, last>>
    BY <1>4 DEF InnerRuns, InnerSettles, InnerStops, InnerCloses, InnerEmits, innerMoves
  <2> QED BY <2>1, SessionStays
<1>5. ASSUME NEW c \in Callers, CancelContext(c) \/ CancelCurrent(c) PROVE SessionInv'
  BY <1>5, SessionStays DEF CancelContext, CancelCurrent
<1>6. ASSUME NEW why \in CtxCauses, ContextEnds(why) PROVE SessionInv'
  BY <1>6, SessionStays DEF ContextEnds
<1>7. CASE Consume
  BY <1>7, SessionStays DEF Consume
<1>8. CASE Stop \/ UNCHANGED vars
  BY <1>8, SessionStays DEF Stop, vars
<1> QED BY <1>1, <1>2, <1>3, <1>4, <1>5, <1>6, <1>7, <1>8 DEF Next

\* Every step keeps BudgetInv: a repair is counted when it is over, and has two
\* inner runs only with a fallback.
LEMMA BudgetStep == LoopOK /\ HistoryOK /\ BudgetInv /\ [Next]_vars => BudgetInv'
<1> SUFFICES ASSUME LoopOK, HistoryOK, BudgetInv, [Next]_vars PROVE BudgetInv'
  OBVIOUS
<1>0. spec.max \in Nat /\ Len(history) \in Nat
  BY SpecType DEF HistoryOK
<1> USE <1>0 DEF LoopOK
<1>1. CASE Loop
  <2>1. CASE Say
    BY <2>1 DEF Say, at, BudgetInv, runsOfRepair, Running
  <2>2. CASE StartInner
    BY <2>2 DEF StartInner, starts, at, BudgetInv, runsOfRepair, Running
  <2>3. ASSUME NEW e \in startErrors, StartFails(e) PROVE BudgetInv'
    BY <2>3 DEF StartFails, starts, at, returned, BudgetInv, runsOfRepair, Running
  <2>4. CASE FirstReturned
    BY <2>4 DEF FirstReturned, at, finish, BudgetInv, runsOfRepair, Running
  <2>5. CASE Validate
    <3>1. Len(history') \in {Len(history), Len(history) + 1}
      BY <2>5 DEF Validate, HistoryOK
    <3> QED BY <2>5, <3>1 DEF Validate, at, BudgetInv, runsOfRepair, Running
  <2>6. CASE ValidationCancelled
    BY <2>6 DEF ValidationCancelled, at, finish, BudgetInv, runsOfRepair, Running
  <2>7. CASE ValidationPassed
    BY <2>7 DEF ValidationPassed, at, finish, BudgetInv, runsOfRepair, Running
  <2>8. CASE ValidationFailed
    BY <2>8 DEF ValidationFailed, at, finish, BudgetInv, runsOfRepair, Running
  <2>9. CASE RepairStarts
    BY <2>9 DEF RepairStarts, at, repairLeft, BudgetInv, runsOfRepair, Running
  <2>10. CASE RepairFallsBack
    BY <2>10 DEF RepairFallsBack, at, tryFresh, BudgetInv, runsOfRepair, Running
  <2>11. CASE RepairReturned
    BY <2>11 DEF RepairReturned, at, tryFresh, BudgetInv, runsOfRepair, Running
  <2>12. CASE RepairFailed
    BY <2>12 DEF RepairFailed, at, finish, BudgetInv, runsOfRepair, Running
  <2>13. CASE SetCurrent \/ InnerWait \/ DrainEvents
    BY <2>13 DEF SetCurrent, InnerWait, DrainEvents, at, BudgetInv, runsOfRepair, Running
    <2> QED BY <1>1, <2>1, <2>2, <2>3, <2>4, <2>5, <2>6, <2>7, <2>8, <2>9, <2>10, <2>11, <2>12,
       <2>13 DEF Loop, StartAndWait
<1>2. CASE Finish
  BY <1>2 DEF Finish, DeferCancel, CloseEvents, CloseDone, endCtx, BudgetInv, runsOfRepair,
     Running
<1>3. CASE Forward
  BY <1>3 DEF Forward, ForwardReceive, ForwardSend, ForwardEnd, sendEvent, BudgetInv,
     runsOfRepair, Running
<1>4. CASE InnerRuns
  <2>1. UNCHANGED <<spec, pc, phase, history, repairs, started>>
    BY <1>4 DEF InnerRuns, InnerSettles, InnerStops, InnerCloses, InnerEmits, innerMoves
  <2> QED BY <2>1 DEF BudgetInv, runsOfRepair, Running
<1>5. ASSUME NEW c \in Callers, CancelContext(c) \/ CancelCurrent(c) PROVE BudgetInv'
  BY <1>5 DEF CancelContext, CancelCurrent, endCtx, BudgetInv, runsOfRepair, Running
<1>6. ASSUME NEW why \in CtxCauses, ContextEnds(why) PROVE BudgetInv'
  BY <1>6 DEF ContextEnds, BudgetInv, runsOfRepair, Running
<1>7. CASE Consume
  BY <1>7 DEF Consume, BudgetInv, runsOfRepair, Running
<1>8. CASE Stop \/ UNCHANGED vars
  BY <1>8 DEF Stop, vars, BudgetInv, runsOfRepair, Running
<1> QED BY <1>1, <1>2, <1>3, <1>4, <1>5, <1>6, <1>7, <1>8 DEF Next

\* Every step keeps LateInv: a run started late is never followed by a repair.
LEMMA LateStep == LoopOK /\ LateInv /\ [Next]_vars => LateInv'
<1> SUFFICES ASSUME LoopOK, LateInv, [Next]_vars PROVE LateInv'
  OBVIOUS
<1>1. CASE Loop
  <2>1. CASE Say
    BY <2>1 DEF Say, LateInv, LoopOK
  <2>2. CASE StartInner
    BY <2>2 DEF StartInner, starts, at, LateInv, LoopOK
  <2>3. ASSUME NEW e \in startErrors, StartFails(e) PROVE LateInv'
    BY <2>3 DEF StartFails, starts, at, returned, LateInv, LoopOK
  <2>4. CASE FirstReturned
    BY <2>4 DEF FirstReturned, finish, LateInv, LoopOK
  <2>5. CASE Validate
    BY <2>5 DEF Validate, at, LateInv, LoopOK
  <2>6. CASE ValidationCancelled
    BY <2>6 DEF ValidationCancelled, finish, LateInv, LoopOK
  <2>7. CASE ValidationPassed
    BY <2>7 DEF ValidationPassed, finish, LateInv, LoopOK
  <2>8. CASE ValidationFailed
    BY <2>8 DEF ValidationFailed, finish, LateInv, LoopOK
  <2>9. CASE RepairStarts
    BY <2>9 DEF RepairStarts, at, LateInv, LoopOK
  <2>10. CASE RepairFallsBack
    BY <2>10 DEF RepairFallsBack, at, tryFresh, LateInv, LoopOK
  <2>11. CASE RepairReturned
    BY <2>11 DEF RepairReturned, LateInv, LoopOK
  <2>12. CASE RepairFailed
    BY <2>12 DEF RepairFailed, finish, LateInv, LoopOK
  <2>13. CASE SetCurrent \/ InnerWait \/ DrainEvents
    BY <2>13 DEF SetCurrent, InnerWait, DrainEvents, at, LateInv, LoopOK
    <2> QED BY <1>1, <2>1, <2>2, <2>3, <2>4, <2>5, <2>6, <2>7, <2>8, <2>9, <2>10, <2>11, <2>12,
       <2>13 DEF Loop, StartAndWait
<1>2. CASE Finish
  BY <1>2 DEF Finish, DeferCancel, CloseEvents, CloseDone, endCtx, LateInv, LoopOK
<1>3. CASE Forward
  BY <1>3 DEF Forward, ForwardReceive, ForwardSend, ForwardEnd, sendEvent, LateInv, LoopOK
<1>4. CASE InnerRuns
  <2>1. UNCHANGED <<pc, phase, late, cause>>
    BY <1>4 DEF InnerRuns, InnerSettles, InnerStops, InnerCloses, InnerEmits, innerMoves
  <2> QED BY <2>1 DEF LateInv
<1>5. ASSUME NEW c \in Callers, CancelContext(c) \/ CancelCurrent(c) PROVE LateInv'
  BY <1>5 DEF CancelContext, CancelCurrent, endCtx, LateInv, LoopOK
<1>6. ASSUME NEW why \in CtxCauses, ContextEnds(why) PROVE LateInv'
  <2>1. why # "none"
    BY ValidationAssumption DEF ValidationAssumption
  <2> QED BY <1>6, <2>1 DEF ContextEnds, LateInv, LoopOK
<1>7. CASE Consume
  BY <1>7 DEF Consume, LateInv, LoopOK
<1>8. CASE Stop \/ UNCHANGED vars
  BY <1>8 DEF Stop, vars, LateInv, LoopOK
<1> QED BY <1>1, <1>2, <1>3, <1>4, <1>5, <1>6, <1>7, <1>8 DEF Next

\* The tails of short sequences.
LEMMA Tails ==
  ASSUME NEW a, NEW b, NEW c
  PROVE  Tail(<<a>>) = <<>> /\ Tail(<<a, b>>) = <<b>> /\ Tail(<<a, b, c>>) = <<b, c>>
  OBVIOUS

\* With nothing to send, execute() may be anywhere.
LEMMA NothingQueued == \A p : <<>> \in queueAt(p)
  BY DEF queueAt

\* Every step keeps QueueInv.
LEMMA QueueStep == QueueInv /\ [Next]_vars => QueueInv'
<1> SUFFICES ASSUME QueueInv, [Next]_vars PROVE QueueInv'
  OBVIOUS
<1> USE NothingQueued
<1>1. CASE Loop
  <2>1. CASE Say
    <3>1. out \in queueAt(pc) /\ out # <<>> /\ out' = Tail(out) /\ pc' = pc
      BY <2>1 DEF Say, QueueInv
    <3>2. Tail(out) \in queueAt(pc)
      <4>1. CASE pc = "start"
        <5>1. queueAt(pc) = {<<>>, <<"repair.started">>, <<"repairing", "repair.started">>}
          BY <4>1 DEF queueAt
        <5>2. /\ Tail(<<"repair.started">>) = <<>>
              /\ Tail(<<"repairing", "repair.started">>) = <<"repair.started">>
          BY Tails
        <5> QED BY <3>1, <5>1, <5>2, Zenon
      <4>2. CASE pc = "validate"
        <5>1. queueAt(pc) = {<<>>, <<"validation.started">>,
                             <<"validating", "validation.started">>,
                             <<"repair.completed", "validating", "validation.started">>}
          BY <4>2 DEF queueAt
        <5>2. /\ Tail(<<"validation.started">>) = <<>>
              /\ Tail(<<"validating", "validation.started">>) = <<"validation.started">>
              /\ Tail(<<"repair.completed", "validating", "validation.started">>)
                   = <<"validating", "validation.started">>
          BY Tails
        <5> QED BY <3>1, <5>1, <5>2, Zenon
      <4>3. CASE pc = "decide"
        <5>1. queueAt(pc) = {<<>>, <<"completed">>, <<"validation.completed", "completed">>}
          BY <4>3 DEF queueAt
        <5>2. /\ Tail(<<"completed">>) = <<>>
              /\ Tail(<<"validation.completed", "completed">>) = <<"completed">>
          BY Tails
        <5> QED BY <3>1, <5>1, <5>2, Zenon
      <4>4. CASE pc \in {"cancelled", "repair_failed"}
        <5>1. out \in {<<"cancelled">>, <<"repair.failed">>}
          BY <3>1, <4>4 DEF queueAt
        <5>2. Tail(out) = <<>>
          BY <5>1, Tails
        <5> QED BY <5>2
      <4> QED BY <3>1, <4>1, <4>2, <4>3, <4>4 DEF queueAt
    <3> QED BY <3>1, <3>2 DEF QueueInv
  <2>2. CASE StartInner
    BY <2>2 DEF StartInner, starts, at, QueueInv
  <2>3. CASE SetCurrent
    <3>1. out = <<>> /\ out' = out
      BY <2>3 DEF SetCurrent, QueueInv, queueAt
    <3> QED BY <3>1 DEF QueueInv
  <2>4. CASE InnerWait
    <3>1. out = <<>> /\ out' = out
      BY <2>4 DEF InnerWait, QueueInv, queueAt
    <3> QED BY <3>1 DEF QueueInv
  <2>5. CASE DrainEvents
    <3>1. out = <<>> /\ out' = out
      BY <2>5 DEF DrainEvents, QueueInv, queueAt
    <3> QED BY <3>1 DEF QueueInv
  <2>6. ASSUME NEW e \in startErrors, StartFails(e) PROVE QueueInv'
    BY <2>6 DEF StartFails, starts, at, QueueInv
  <2>7. CASE FirstReturned
    BY <2>7 DEF FirstReturned, at, QueueInv, queueAt
  <2>8. CASE Validate
    BY <2>8 DEF Validate, at, QueueInv, queueAt
  <2>9. CASE ValidationCancelled
    BY <2>9 DEF ValidationCancelled, at, QueueInv
  <2>10. CASE ValidationPassed
    BY <2>10 DEF ValidationPassed, at, QueueInv
  <2>11. CASE ValidationFailed
    BY <2>11 DEF ValidationFailed, at, QueueInv
  <2>12. CASE RepairStarts
    BY <2>12 DEF RepairStarts, at, QueueInv, queueAt
  <2>13. CASE RepairFallsBack
    BY <2>13 DEF RepairFallsBack, at, QueueInv
  <2>14. CASE RepairReturned
    BY <2>14 DEF RepairReturned, at, QueueInv, queueAt
  <2>15. CASE RepairFailed
    BY <2>15 DEF RepairFailed, at, QueueInv
    <2> QED BY <1>1, <2>1, <2>2, <2>3, <2>4, <2>5, <2>6, <2>7, <2>8, <2>9, <2>10, <2>11, <2>12,
       <2>13, <2>14, <2>15 DEF Loop, StartAndWait
<1>2. CASE Finish
  <2>1. out = <<>> /\ out' = out
    BY <1>2 DEF Finish, DeferCancel, CloseEvents, CloseDone, QueueInv, queueAt
  <2> QED BY <2>1 DEF QueueInv
<1>3. CASE Forward
  BY <1>3 DEF Forward, ForwardReceive, ForwardSend, ForwardEnd, QueueInv
<1>4. CASE InnerRuns
  <2>1. UNCHANGED <<out, pc>>
    BY <1>4 DEF InnerRuns, InnerSettles, InnerStops, InnerCloses, InnerEmits, innerMoves
  <2> QED BY <2>1 DEF QueueInv
<1>5. ASSUME NEW c \in Callers, CancelContext(c) \/ CancelCurrent(c) PROVE QueueInv'
  BY <1>5 DEF CancelContext, CancelCurrent, QueueInv
<1>6. ASSUME NEW why \in CtxCauses, ContextEnds(why) PROVE QueueInv'
  BY <1>6 DEF ContextEnds, QueueInv
<1>7. CASE Consume
  BY <1>7 DEF Consume, QueueInv
<1>8. CASE Stop \/ UNCHANGED vars
  BY <1>8 DEF Stop, vars, QueueInv
<1> QED BY <1>1, <1>2, <1>3, <1>4, <1>5, <1>6, <1>7, <1>8 DEF Next

\* The places of the events in the story of an inner run.
LEMMA Places ==
  ASSUME NEW e
  PROVE  /\ e.kind = "inner" => place(e) = 1
         /\ e.kind = "repair.completed" => place(e) = 2
         /\ e.kind = "repair.failed" => place(e) = 3
         /\ e.kind = "validating" => place(e) = 4
         /\ e.kind = "validation.started" => place(e) = 5
         /\ e.kind = "validation.completed" => place(e) = 6
         /\ e.kind = "cancelled" => place(e) = 7
         /\ e.kind = "completed" => place(e) = 8
         /\ e.kind = "repairing" => place(e) = 9
         /\ e.kind = "repair.started" => place(e) = 10
<1>1. DOMAIN EventOrder = 1 .. 10
  BY DEF EventOrder
<1>2. ASSUME NEW i \in 1 .. 10, e.kind = EventOrder[i],
             \A j \in 1 .. 10 : EventOrder[j] = EventOrder[i] => j = i
      PROVE  place(e) = i
  BY <1>1, <1>2 DEF place
<1>3. /\ EventOrder[1] = "inner" /\ EventOrder[2] = "repair.completed"
      /\ EventOrder[3] = "repair.failed" /\ EventOrder[4] = "validating"
      /\ EventOrder[5] = "validation.started" /\ EventOrder[6] = "validation.completed"
      /\ EventOrder[7] = "cancelled" /\ EventOrder[8] = "completed"
      /\ EventOrder[9] = "repairing" /\ EventOrder[10] = "repair.started"
  BY DEF EventOrder
<1>4. \A i, j \in 1 .. 10 : EventOrder[j] = EventOrder[i] => j = i
  BY DEF EventOrder
<1> HIDE DEF place, EventOrder
<1> QED BY <1>2, <1>3, <1>4

\* An event of the run that was started last.
said(kind) == [kind |-> kind, run |-> started]

\* Every event has a place.
LEMMA PlaceIsNumber == ASSUME NEW e \in Event PROVE place(e) \in 1 .. 10
  BY Places, EventKinds DEF Event

\* After an event is sent, the next one is not before it.
LEMMA SaidInOrder ==
  ASSUME QueueInv, Say
  PROVE  /\ out' = <<>> => place(said(Head(out))) <= lastPlace(pc)
         /\ out' # <<>> => place(said(Head(out))) <= place(said(Head(out')))
<1>1. out \in queueAt(pc) /\ out # <<>> /\ out' = Tail(out)
  BY DEF Say, QueueInv
<1>2. \A k : said(k).kind = k
  BY DEF said
<1>3. CASE pc = "start"
  BY <1>1, <1>2, <1>3, Places DEF queueAt, lastPlace, Running
<1>4. CASE pc = "validate"
  BY <1>1, <1>2, <1>4, Places DEF queueAt, lastPlace, Running
<1>5. CASE pc = "cancelled"
  BY <1>1, <1>2, <1>5, Places DEF queueAt, lastPlace, Running
<1>6. CASE pc = "decide"
  BY <1>1, <1>2, <1>6, Places DEF queueAt, lastPlace, Running
<1>7. CASE pc = "repair_failed"
  BY <1>1, <1>2, <1>7, Places DEF queueAt, lastPlace, Running
<1> QED BY <1>1, <1>3, <1>4, <1>5, <1>6, <1>7 DEF queueAt

\* OrderInv stays when a run is started.
LEMMA OrderStarts ==
  ASSUME LoopOK, CountsOK, OrderInv, newest' = newest, started' = started + 1
  PROVE  OrderInv'
<1>1. newest.run \in Nat /\ started \in Nat /\ newest.run <= started
  BY DEF CountsOK, Event, LoopOK, OrderInv
<1> QED BY <1>1 DEF OrderInv

\* It stays when none of what it speaks of changes.
LEMMA OrderSame ==
  ASSUME OrderInv, UNCHANGED <<pc, out, started, newest>>
  PROVE  OrderInv'
  BY DEF OrderInv

\* It stays when execute() moves on to a later part of the story.
LEMMA OrderMoves ==
  ASSUME CountsOK, OrderInv, out = <<>>, UNCHANGED <<newest, started>>,
         \/ out' = <<>> /\ lastPlace(pc) <= lastPlace(pc')
         \/ /\ out' # <<>> /\ Head(out') \in EventKind
            /\ lastPlace(pc) <= place(said(Head(out')))
  PROVE  OrderInv'
<1>1. \A p : lastPlace(p) \in 1 .. 10
  BY DEF lastPlace
<1>2. place(newest) \in 1 .. 10 /\ newest.run \in Nat
  BY PlaceIsNumber DEF CountsOK, Event
<1>3. newest.run <= started /\ (newest.run = started => place(newest) <= lastPlace(pc))
  BY DEF OrderInv
<1>4. CASE out' = <<>>
  BY <1>1, <1>2, <1>3, <1>4 DEF OrderInv
<1>5. CASE out' # <<>>
  <2> DEFINE e == said(Head(out'))
  <2>1. e = [kind |-> Head(out'), run |-> started'] /\ e.kind \in EventKind
    BY <1>5 DEF said
  <2>2. place(e) \in 1 .. 10
    BY <2>1, Places, EventKinds
  <2>3. lastPlace(pc) <= place(e)
    BY <1>5
  <2> HIDE DEF e
  <2>4. newest.run = started => place(newest) <= place(e)
    BY <1>1, <1>2, <1>3, <2>2, <2>3
  <2> QED BY <1>3, <1>5, <2>1, <2>4 DEF OrderInv
<1> QED BY <1>4, <1>5

\* It stays when execute() goes from p to another point with something to say.
LEMMA OrderAnnounces ==
  ASSUME CountsOK, OrderInv, out = <<>>, UNCHANGED <<newest, started>>, out' # <<>>,
         NEW k \in EventKind, Head(out') = k, lastPlace(pc) <= place(said(k))
  PROVE  OrderInv'
  BY OrderMoves

\* Every step keeps OrderInv: what is sent is not before what was.
LEMMA OrderStep ==
  LoopOK /\ HistoryOK /\ CountsOK /\ PhaseInv /\ QueueInv /\ OrderInv /\ [Next]_vars
    => OrderInv'
<1> SUFFICES ASSUME LoopOK, HistoryOK, CountsOK, PhaseInv, QueueInv, OrderInv, [Next]_vars
             PROVE  OrderInv'
  OBVIOUS
<1>1. CASE Loop
  <2>1. CASE Say
    <3>1. out # <<>> /\ UNCHANGED <<pc, started>> /\ started \in Nat
      BY <2>1 DEF Say, LoopOK
    <3>2. newest' \in {newest, said(Head(out))}
      BY <2>1 DEF Say, sendEvent, said
    <3>3. Head(out) \in EventKind /\ (out' # <<>> => Head(out') \in EventKind)
      BY <2>1 DEF Say, HistoryOK
    <3> DEFINE e == said(Head(out))
               f == said(Head(out'))
               p == lastPlace(pc)
    <3>4. e.kind = Head(out) /\ e.run = started /\ f.kind = Head(out')
      BY DEF said
    <3>5. place(e) \in 1 .. 10 /\ p \in 1 .. 10 /\ (out' # <<>> => place(f) \in 1 .. 10)
      BY <3>3, <3>4, Places, EventKinds DEF lastPlace
    <3>6. (out' = <<>> => place(e) <= p) /\ (out' # <<>> => place(e) <= place(f))
      BY <2>1, SaidInOrder
    <3>7. e = [kind |-> Head(out), run |-> started] /\ f = [kind |-> Head(out'), run |-> started']
      BY <3>1 DEF said
    <3>8. /\ place(newest) \in 1 .. 10 /\ newest.run \in Nat /\ newest.run <= started
          /\ newest.run = started => place(newest) <= place(e)
      BY <3>1, <3>7, PlaceIsNumber DEF OrderInv, CountsOK, Event
    <3> HIDE DEF e, f, p
    <3>9. newest'.run <= started /\ (newest'.run = started => place(newest') <= place(e))
      BY <3>1, <3>2, <3>4, <3>5, <3>8 DEF e
    <3>10. place(newest') \in 1 .. 10
      BY <3>2, <3>5, <3>8 DEF e
    <3>11. /\ newest'.run = started /\ out' = <<>> => place(newest') <= p
           /\ newest'.run = started /\ out' # <<>> => place(newest') <= place(f)
      BY <3>5, <3>6, <3>9, <3>10
    <3> QED BY <3>1, <3>7, <3>9, <3>11 DEF OrderInv, p
  <2>2. CASE StartInner
    BY <2>2, OrderStarts DEF StartInner, starts
  <2>3. CASE SetCurrent
    <3>1. UNCHANGED <<newest, started, out>> /\ pc = "set_current" /\ pc' = "wait"
      BY <2>3 DEF SetCurrent
    <3>2. out = <<>>
      BY <3>1 DEF QueueInv, queueAt
    <3>3. lastPlace(pc) <= lastPlace(pc')
      BY <3>1 DEF lastPlace, Running
    <3> QED BY <3>1, <3>2, <3>3, OrderMoves
  <2>4. CASE InnerWait
    <3>1. UNCHANGED <<newest, started, out>> /\ pc = "wait" /\ pc' = "drain"
      BY <2>4 DEF InnerWait
    <3>2. out = <<>>
      BY <3>1 DEF QueueInv, queueAt
    <3>3. lastPlace(pc) <= lastPlace(pc')
      BY <3>1 DEF lastPlace, Running
    <3> QED BY <3>1, <3>2, <3>3, OrderMoves
  <2>5. CASE DrainEvents
    <3>1. UNCHANGED <<newest, started, out>> /\ pc = "drain" /\ pc' = "returned"
      BY <2>5 DEF DrainEvents
    <3>2. out = <<>>
      BY <3>1 DEF QueueInv, queueAt
    <3>3. lastPlace(pc) <= lastPlace(pc')
      BY <3>1 DEF lastPlace, Running
    <3> QED BY <3>1, <3>2, <3>3, OrderMoves
  <2>6. ASSUME NEW e \in startErrors, StartFails(e) PROVE OrderInv'
    BY <2>6, OrderStarts DEF StartFails, starts
  <2>7. CASE FirstReturned
    <3>1. out = <<>> /\ pc = "returned" /\ UNCHANGED <<newest, started>>
      BY <2>7 DEF FirstReturned, at
    <3>2. CASE last.err = "none"
      <4>0. out' = <<"validating", "validation.started">>
        BY <2>7, <3>2 DEF FirstReturned
      <4>1. out' # <<>> /\ Head(out') = "validating"
        BY <4>0
      <4>2. /\ "validating" \in EventKind
            /\ said("validating").kind = "validating"
        BY EventKinds DEF said
      <4>3. lastPlace(pc) <= place(said("validating"))
        BY <3>1, <4>2, Places DEF lastPlace, Running
      <4> QED BY <3>1, <4>1, <4>2, <4>3, OrderAnnounces
    <3>3. CASE last.err # "none"
      <4>1. out' = <<>> /\ pc' = "defer_cancel"
        BY <2>7, <3>1, <3>3 DEF FirstReturned, finish
      <4>2. lastPlace(pc) <= lastPlace(pc')
        BY <3>1, <4>1 DEF lastPlace, Running
      <4> QED BY <3>1, <4>1, <4>2, OrderMoves
    <3> QED BY <3>2, <3>3
  <2>8. CASE Validate
    <3>1. out = <<>> /\ pc = "validate" /\ UNCHANGED <<newest, started>>
      BY <2>8 DEF Validate, at
    <3>2. CASE cause = "none"
      <4>0. out' = <<"validation.completed", "completed">>
        BY <2>8, <3>2 DEF Validate
      <4>1. out' # <<>> /\ Head(out') = "validation.completed"
        BY <4>0
      <4>2. /\ "validation.completed" \in EventKind
            /\ said("validation.completed").kind = "validation.completed"
        BY EventKinds DEF said
      <4>3. lastPlace(pc) <= place(said("validation.completed"))
        BY <3>1, <4>2, Places DEF lastPlace, Running
      <4> QED BY <3>1, <4>1, <4>2, <4>3, OrderAnnounces
    <3>3. CASE cause # "none"
      <4>0. out' = <<"cancelled">>
        BY <2>8, <3>3 DEF Validate
      <4>1. out' # <<>> /\ Head(out') = "cancelled"
        BY <4>0
      <4>2. /\ "cancelled" \in EventKind
            /\ said("cancelled").kind = "cancelled"
        BY EventKinds DEF said
      <4>3. lastPlace(pc) <= place(said("cancelled"))
        BY <3>1, <4>2, Places DEF lastPlace, Running
      <4> QED BY <3>1, <4>1, <4>2, <4>3, OrderAnnounces
    <3> QED BY <3>2, <3>3
  <2>9. CASE ValidationCancelled
    <3>1. /\ out = <<>> /\ out' = <<>> /\ UNCHANGED <<newest, started>>
          /\ pc = "cancelled" /\ pc' = "defer_cancel"
      BY <2>9 DEF ValidationCancelled, at, finish
    <3>2. lastPlace(pc) <= lastPlace(pc')
      BY <3>1 DEF lastPlace, Running
    <3> QED BY <3>1, <3>2, OrderMoves
  <2>10. CASE ValidationPassed
    <3>1. /\ out = <<>> /\ out' = <<>> /\ UNCHANGED <<newest, started>>
          /\ pc = "decide" /\ pc' = "defer_cancel"
      BY <2>10 DEF ValidationPassed, at, finish
    <3>2. lastPlace(pc) <= lastPlace(pc')
      BY <3>1 DEF lastPlace, Running
    <3> QED BY <3>1, <3>2, OrderMoves
  <2>11. CASE ValidationFailed
    <3>1. /\ out = <<>> /\ out' = <<>> /\ UNCHANGED <<newest, started>>
          /\ pc = "decide" /\ pc' = "defer_cancel"
      BY <2>11 DEF ValidationFailed, at, finish
    <3>2. lastPlace(pc) <= lastPlace(pc')
      BY <3>1 DEF lastPlace, Running
    <3> QED BY <3>1, <3>2, OrderMoves
  <2>12. CASE RepairStarts
    <3>1. out = <<>> /\ pc = "decide" /\ UNCHANGED <<newest, started>>
      BY <2>12 DEF RepairStarts, at
    <3>2. out' # <<>> /\ Head(out') = "repairing"
      BY <2>12 DEF RepairStarts
    <3>3. "repairing" \in EventKind /\ said("repairing").kind = "repairing"
      BY EventKinds DEF said
    <3>4. lastPlace(pc) <= place(said("repairing"))
      BY <3>1, <3>3, Places DEF lastPlace, Running
    <3> QED BY <3>1, <3>2, <3>3, <3>4, OrderAnnounces
  <2>13. CASE RepairFallsBack
    <3>1. /\ out = <<>> /\ out' = <<>> /\ UNCHANGED <<newest, started>>
          /\ pc = "returned" /\ pc' = "start"
      BY <2>13 DEF RepairFallsBack, at
    <3>2. lastPlace(pc) <= lastPlace(pc')
      BY <3>1 DEF lastPlace, Running
    <3> QED BY <3>1, <3>2, OrderMoves
  <2>14. CASE RepairReturned
    <3>1. out = <<>> /\ pc = "returned" /\ UNCHANGED <<newest, started>>
      BY <2>14 DEF RepairReturned, at
    <3>2. CASE repairError # "none"
      <4>0. out' = <<"repair.failed">>
        BY <2>14, <3>2 DEF RepairReturned
      <4>1. out' # <<>> /\ Head(out') = "repair.failed"
        BY <4>0
      <4>2. /\ "repair.failed" \in EventKind
            /\ said("repair.failed").kind = "repair.failed"
        BY EventKinds DEF said
      <4>3. lastPlace(pc) <= place(said("repair.failed"))
        BY <3>1, <4>2, Places DEF lastPlace, Running
      <4> QED BY <3>1, <4>1, <4>2, <4>3, OrderAnnounces
    <3>3. CASE repairError = "none"
      <4>0. out' = <<"repair.completed", "validating", "validation.started">>
        BY <2>14, <3>3 DEF RepairReturned
      <4>1. out' # <<>> /\ Head(out') = "repair.completed"
        BY <4>0
      <4>2. /\ "repair.completed" \in EventKind
            /\ said("repair.completed").kind = "repair.completed"
        BY EventKinds DEF said
      <4>3. lastPlace(pc) <= place(said("repair.completed"))
        BY <3>1, <4>2, Places DEF lastPlace, Running
      <4> QED BY <3>1, <4>1, <4>2, <4>3, OrderAnnounces
    <3> QED BY <3>2, <3>3
  <2>15. CASE RepairFailed
    <3>1. /\ out = <<>> /\ out' = <<>> /\ UNCHANGED <<newest, started>>
          /\ pc = "repair_failed" /\ pc' = "defer_cancel"
      BY <2>15 DEF RepairFailed, at, finish
    <3>2. lastPlace(pc) <= lastPlace(pc')
      BY <3>1 DEF lastPlace, Running
    <3> QED BY <3>1, <3>2, OrderMoves
    <2> QED BY <1>1, <2>1, <2>2, <2>3, <2>4, <2>5, <2>6, <2>7, <2>8, <2>9, <2>10, <2>11, <2>12,
       <2>13, <2>14, <2>15 DEF Loop, StartAndWait
<1>2. CASE Finish
  <2>1. UNCHANGED <<newest, started, out>> /\ pc \in AfterFinish /\ pc' \in AfterFinish
    BY <1>2 DEF Finish, DeferCancel, CloseEvents, CloseDone, AfterFinish
  <2>2. out = <<>>
    BY <2>1 DEF QueueInv, queueAt, AfterFinish
  <2>3. lastPlace(pc) <= lastPlace(pc')
    BY <2>1 DEF lastPlace, Running, AfterFinish
  <2> QED BY <2>1, <2>2, <2>3, OrderMoves
<1>3. CASE Forward
  <2>1. CASE ForwardReceive \/ ForwardEnd
    BY <2>1, OrderSame DEF ForwardReceive, ForwardEnd
  <2>2. CASE ForwardSend
    <3>1. UNCHANGED <<pc, out, started>> /\ newest' \in {newest, said("inner")}
      BY <2>2 DEF ForwardSend, sendEvent, said
    <3>2. pc \in {"wait", "drain"}
      BY <2>2 DEF ForwardSend, PhaseInv
    <3>3. out = <<>> /\ lastPlace(pc) = 1
      BY <3>2 DEF QueueInv, queueAt, lastPlace, Running
    <3>4. said("inner").run = started /\ place(said("inner")) = 1 /\ started \in Nat
      BY Places DEF said, LoopOK
    <3> HIDE DEF said
    <3> QED BY <3>1, <3>3, <3>4 DEF OrderInv
  <2> QED BY <1>3, <2>1, <2>2 DEF Forward
<1>4. CASE InnerRuns
  <2>1. UNCHANGED <<pc, out, started, newest>>
    BY <1>4 DEF InnerRuns, InnerSettles, InnerStops, InnerCloses, InnerEmits, innerMoves
  <2> QED BY <2>1, OrderSame
<1>5. ASSUME NEW c \in Callers, CancelContext(c) \/ CancelCurrent(c) PROVE OrderInv'
  <2>1. UNCHANGED <<pc, out, started, newest>>
    BY <1>5 DEF CancelContext, CancelCurrent
  <2> QED BY <2>1, OrderSame
<1>6. ASSUME NEW why \in CtxCauses, ContextEnds(why) PROVE OrderInv'
  <2>1. UNCHANGED <<pc, out, started, newest>>
    BY <1>6 DEF ContextEnds
  <2> QED BY <2>1, OrderSame
<1>7. CASE Consume
  <2>1. UNCHANGED <<pc, out, started, newest>>
    BY <1>7 DEF Consume
  <2> QED BY <2>1, OrderSame
<1>8. CASE Stop \/ UNCHANGED vars
  <2>1. UNCHANGED <<pc, out, started, newest>>
    BY <1>8 DEF Stop, vars
  <2> QED BY <2>1, OrderSame
<1> QED BY <1>1, <1>2, <1>3, <1>4, <1>5, <1>6, <1>7, <1>8 DEF Next

\* The result stays explained while nothing that explains it changes.
LEMMA ResultStays ==
  ASSUME ResultExplained, UNCHANGED <<spec, last, history, repairs, result>>,
         result # NoOutcome => cause' = cause \/ cause = "none"
  PROVE  ResultExplained'
<1>1. passed' = passed
  BY DEF passed
<1> QED BY <1>1 DEF ResultExplained

\* As long as there is no result, nothing is to be explained.
LEMMA NoResult == ASSUME PhaseInv, pc \notin AfterFinish, result' = result PROVE ResultExplained'
  BY DEF PhaseInv, ResultExplained

\* Every step keeps the result explained, and finish stores one that is.
LEMMA ResultStep ==
  LoopOK /\ OutcomesOK /\ PhaseInv /\ CauseInv /\ ErrorInv /\ SessionInv /\ BudgetInv
    /\ QueueInv /\ ResultExplained /\ [Next]_vars
    => ResultExplained'
<1> SUFFICES ASSUME LoopOK, OutcomesOK, PhaseInv, CauseInv, ErrorInv, SessionInv, BudgetInv,
                    QueueInv, ResultExplained, [Next]_vars
             PROVE  ResultExplained'
  OBVIOUS
<1>1. CASE Loop
  <2>1. CASE Say
    <3>1. out # <<>> /\ result' = result
      BY <2>1 DEF Say
    <3>2. pc \notin AfterFinish
      BY <3>1 DEF QueueInv, queueAt, AfterFinish
    <3> QED BY <3>1, <3>2, NoResult
  <2>2. CASE StartInner
    BY <2>2, NoResult DEF StartInner, starts, at, AfterFinish
  <2>3. CASE SetCurrent
    BY <2>3, NoResult DEF SetCurrent, AfterFinish
  <2>4. CASE InnerWait
    BY <2>4, NoResult DEF InnerWait, AfterFinish
  <2>5. CASE DrainEvents
    BY <2>5, NoResult DEF DrainEvents, AfterFinish
  <2>6. ASSUME NEW e \in startErrors, StartFails(e) PROVE ResultExplained'
    BY <2>6, NoResult DEF StartFails, starts, at, AfterFinish
  <2>7. CASE FirstReturned
    <3>1. CASE last.err # "none"
      <4>1. result'.err = last.err /\ last' = last /\ ~last.unsupported
        BY <2>7, <3>1 DEF FirstReturned, at, finish, SessionInv
      <4> QED BY <3>1, <4>1 DEF ResultExplained
    <3>2. CASE last.err = "none"
      BY <2>7, <3>2, NoResult DEF FirstReturned, at, AfterFinish
    <3> QED BY <3>1, <3>2
  <2>8. CASE Validate
    BY <2>8, NoResult DEF Validate, at, AfterFinish
  <2>9. CASE ValidationCancelled
    <3>1. /\ cause # "none" /\ cause # "finish" /\ cause' = cause
          /\ last.err = "none" /\ ~last.unsupported /\ last' = last
      BY <2>9 DEF ValidationCancelled, at, CauseInv, ErrorInv, SessionInv
    <3>2. result'.err = contextValidationError
      BY <2>9 DEF ValidationCancelled, finish
    <3> QED BY <3>1, <3>2 DEF contextValidationError, LoopOK, ResultExplained
  <2>10. CASE ValidationPassed
    <3>1. last.err = "none" /\ ~last.unsupported /\ last' = last /\ result'.err = "none"
      BY <2>10 DEF ValidationPassed, at, finish, ErrorInv, SessionInv
    <3>2. passed /\ passed' = passed
      BY <2>10 DEF ValidationPassed, passed
    <3> QED BY <3>1, <3>2 DEF ResultExplained
  <2>11. CASE ValidationFailed
    <3>1. last.err = "none" /\ ~last.unsupported /\ UNCHANGED <<spec, last, repairs>>
      BY <2>11 DEF ValidationFailed, at, ErrorInv, SessionInv
    <3>2. ~passed /\ passed' = passed
      BY <2>11 DEF ValidationFailed, passed
    <3>3. spec.max \in Nat /\ repairs \in Nat /\ repairs <= spec.max
      BY SpecType DEF LoopOK, BudgetInv
    <3>4. CASE spec.max > 0 /\ repairs >= spec.max
      <4>1. result'.err = "repair_exhausted" /\ repairs = spec.max
        BY <2>11, <3>3, <3>4 DEF ValidationFailed, finish
      <4> QED BY <3>1, <3>2, <4>1 DEF ResultExplained
    <3>5. CASE ~(spec.max > 0 /\ repairs >= spec.max)
      <4>1. result'.err = "validation"
        BY <2>11, <3>5 DEF ValidationFailed, finish
      <4>2. spec.max = 0 \/ (spec.hook /\ repairs < spec.max)
        BY <2>11, <3>3, <3>5 DEF ValidationFailed, repairLeft
      <4> QED BY <3>1, <3>2, <4>1, <4>2 DEF ResultExplained
    <3> QED BY <3>4, <3>5
  <2>12. CASE RepairStarts
    BY <2>12, NoResult DEF RepairStarts, at, AfterFinish
  <2>13. CASE RepairFallsBack
    BY <2>13, NoResult DEF RepairFallsBack, at, AfterFinish
  <2>14. CASE RepairReturned
    BY <2>14, NoResult DEF RepairReturned, at, AfterFinish
  <2>15. CASE RepairFailed
    <3>1. /\ result'.err = repairError /\ repairError # "none"
          /\ ~tryFresh /\ UNCHANGED <<spec, last>>
      BY <2>15 DEF RepairFailed, at, finish, ErrorInv
    <3>2. CASE phase = "repair" /\ unsupportedContinue
      <4>1. /\ ~spec.fallback /\ last.unsupported /\ result'.err = "repair_exhausted"
            /\ spec.continue
        BY <3>1, <3>2 DEF tryFresh, repairError, unsupportedContinue, SessionInv
      <4> QED BY <3>1, <4>1 DEF ResultExplained
    <3>3. CASE ~(phase = "repair" /\ unsupportedContinue)
      <4>1. result'.err = last.err /\ last.err # "none" /\ ~last.unsupported
        BY <2>15, <3>1, <3>3 DEF repairError, RepairFailed, at, unsupportedContinue, SessionInv
      <4> QED BY <3>1, <4>1 DEF ResultExplained
    <3> QED BY <3>2, <3>3
    <2> QED BY <1>1, <2>1, <2>2, <2>3, <2>4, <2>5, <2>6, <2>7, <2>8, <2>9, <2>10, <2>11, <2>12,
       <2>13, <2>14, <2>15 DEF Loop, StartAndWait
<1>2. CASE Finish
  <2>1. UNCHANGED <<spec, last, history, repairs, result>> /\ (cause' = cause \/ cause = "none")
    BY <1>2 DEF Finish, DeferCancel, CloseEvents, CloseDone, endCtx
  <2> QED BY <2>1, ResultStays
<1>3. CASE Forward
  BY <1>3, ResultStays DEF Forward, ForwardReceive, ForwardSend, ForwardEnd
<1>4. CASE InnerRuns
  BY <1>4, ResultStays DEF InnerRuns, InnerSettles, InnerStops, InnerCloses, InnerEmits, innerMoves
<1>5. ASSUME NEW c \in Callers, CancelContext(c) \/ CancelCurrent(c) PROVE ResultExplained'
  BY <1>5, ResultStays DEF CancelContext, CancelCurrent, endCtx
<1>6. ASSUME NEW why \in CtxCauses, ContextEnds(why) PROVE ResultExplained'
  BY <1>6, ResultStays DEF ContextEnds
<1>7. CASE Consume
  BY <1>7, ResultStays DEF Consume
<1>8. CASE Stop \/ UNCHANGED vars
  BY <1>8, ResultStays DEF Stop, vars
<1> QED BY <1>1, <1>2, <1>3, <1>4, <1>5, <1>6, <1>7, <1>8 DEF Next

-----------------------------------------------------------------------------
\* The inductive invariant: ValidationInv, and the types in parts.
TypeInv == FlagsOK /\ LoopOK /\ HistoryOK /\ OutcomesOK /\ CountsOK

\* The types hold initially ...
LEMMA TypeInit == Init => TypeInv
<1> SUFFICES ASSUME Init PROVE TypeInv
  OBVIOUS
<1>1. FlagsOK
  BY DEF Init, FlagsOK
<1>2. LoopOK
  BY DEF Init, LoopOK, ValidationPC
<1>3. HistoryOK
  BY DEF Init, HistoryOK
<1>4. OutcomesOK
  BY DEF Init, OutcomesOK, NotReturned, Category
<1>5. CountsOK
  <2>1. "inner" \in EventKind
    BY EventKinds
  <2> QED BY <2>1, ValidationAssumption DEF ValidationAssumption, Init, CountsOK, Event
<1> QED BY <1>1, <1>2, <1>3, <1>4, <1>5 DEF TypeInv

\* ... and so does the rest of the invariant.
LEMMA ValidationInit == Init => ValidationInv
<1> SUFFICES ASSUME Init PROVE ValidationInv
  OBVIOUS
<1>1. PhaseInv /\ CauseInv
  BY DEF Init, PhaseInv, AfterFinish, CauseInv
<1>2. PassedInv /\ ErrorInv /\ SessionInv
  BY DEF Init, PassedInv, ErrorInv, SessionInv, NoOutcome, NotReturned
<1>3. BudgetInv
  <2>1. spec.max \in Nat
    BY ValidationAssumption DEF ValidationAssumption, Init, Spec_
  <2> QED BY <2>1 DEF Init, BudgetInv, runsOfRepair, Running
<1>4. LateInv
  BY DEF Init, LateInv
<1>5. QueueInv
  BY NothingQueued DEF Init, QueueInv
<1>6. OrderInv
  <2>1. newest.kind = "inner" /\ newest.run = 0 /\ started = 0 /\ out = <<>> /\ pc = "start"
    BY DEF Init
  <2>2. place(newest) = 1 /\ lastPlace(pc) = 10
    BY <2>1, Places DEF lastPlace, Running
  <2> QED BY <2>1, <2>2 DEF OrderInv
<1>7. ResultExplained
  BY DEF Init, ResultExplained
<1> QED BY <1>1, <1>2, <1>3, <1>4, <1>5, <1>6, <1>7 DEF ValidationInv

\* The inductive invariant holds throughout.
LEMMA ValidationInvariance == Spec => []TypeInv /\ []ValidationInv
<1>1. TypeInv /\ [Next]_vars => TypeInv'
  BY FlagsStep, LoopStep, HistoryStep, OutcomesStep, CountsStep DEF TypeInv
<1>2. TypeInv /\ ValidationInv /\ [Next]_vars => ValidationInv'
  BY PhaseStep, CauseStep, PassedStep, ErrorStep, SessionStep, BudgetStep, LateStep, QueueStep,
     OrderStep, ResultStep DEF TypeInv, ValidationInv
<1> QED BY <1>1, <1>2, TypeInit, ValidationInit, PTL DEF Spec

\* Type correctness; in particular the channel never exceeds its capacity.
THEOREM ValidationTypeCorrect == Spec => []TypeOK
<1>1. TypeInv => TypeOK
  BY TypeParts DEF TypeInv
<1> QED BY <1>1, ValidationInvariance, PTL

\* missingInOrder finds nothing missing exactly when the template's headings are
\* those of the artifact with some left out, for all headings and all artifacts:
\* taking the first occurrence of each heading never misses a match.
THEOREM TemplateSearchIsExact ==
  TypeOK => (missingInOrder(spec.template, artifact.headings) = {} <=> templateMatches)
<1> SUFFICES ASSUME TypeOK
             PROVE  missingInOrder(spec.template, artifact.headings) = {} <=> templateMatches
  OBVIOUS
<1>1. spec.template \in Seq(STRING)
  BY ValidationAssumption DEF ValidationAssumption, TypeOK, Spec_
<1>2. artifact.headings \in Seq(STRING)
  <2>1. artifact \in Artifact \/ artifact = NoArtifact
    BY ValidationAssumption DEF ValidationAssumption, TypeOK
  <2>2. artifact \in Artifact => artifact.headings \in Seq(STRING)
    BY DEF Artifact
  <2>3. artifact = NoArtifact => artifact.headings = <<>>
    BY DEF NoArtifact
  <2>4. <<>> \in Seq(STRING)
    OBVIOUS
  <2> QED BY <2>1, <2>2, <2>3, <2>4
<1>3. templateMatches <=> matches(spec.template, artifact.headings)
  BY DEF templateMatches, matches
<1> QED BY <1>1, <1>2, <1>3, SearchIsGreedy

\* A logical run completes only with an output that passed every required check and
\* is still the one in the work directory.
THEOREM CompletedWasValidated == Spec => []CompletedIsValidated
<1>1. TypeInv /\ ValidationInv => CompletedIsValidated
  <2> SUFFICES ASSUME TypeInv, ValidationInv, result.status = "completed"
               PROVE  /\ history # <<>> /\ passed /\ last.err = "none"
                      /\ spec.required => artifact.readable /\ ~artifact.slots /\ templateMatches
    BY DEF CompletedIsValidated
  <2>1. history # <<>> /\ passed /\ last.err = "none"
    BY DEF ValidationInv, PassedInv, ErrorInv
  <2>2. spec.required => validateMarkdownTemplate
    BY <2>1 DEF ValidationInv, PassedInv
  <2>3. TypeOK
    BY TypeParts DEF TypeInv
  <2>4. validateMarkdownTemplate => artifact.readable /\ ~artifact.slots /\ templateMatches
    BY <2>3, TemplateSearchIsExact DEF validateMarkdownTemplate
  <2> QED BY <2>1, <2>2, <2>4
<1> QED BY <1>1, ValidationInvariance, PTL

\* No more repairs than MaxAttempts, no more inner runs than those need, and at most
\* one started on an ended context, two with the fallback.
THEOREM RepairsAreBounded == Spec => []RepairsBounded
<1>1. TypeInv /\ ValidationInv => RepairsBounded
  <2> SUFFICES ASSUME TypeInv, ValidationInv PROVE RepairsBounded
    OBVIOUS
  <2>1. spec.max \in Nat /\ repairs \in Nat /\ started \in Nat
    BY SpecType DEF TypeInv, LoopOK
  <2>2. started <= 1 + (IF spec.fallback THEN spec.max + spec.max ELSE spec.max)
    <3>1. runsOfRepair \in 0 .. (IF spec.fallback THEN 2 ELSE 1)
      BY DEF ValidationInv, BudgetInv, runsOfRepair
    <3>2. runsOfRepair # 0 => repairs < spec.max
      BY DEF ValidationInv, BudgetInv, runsOfRepair
    <3>3. /\ repairs <= spec.max
          /\ started <= 1 + (IF spec.fallback THEN repairs + repairs ELSE repairs) + runsOfRepair
      BY DEF ValidationInv, BudgetInv
    <3> QED BY <2>1, <3>1, <3>2, <3>3
  <2>3. (IF spec.fallback THEN spec.max + spec.max ELSE spec.max)
          = spec.max * (IF spec.fallback THEN 2 ELSE 1)
    BY <2>1
  <2> QED BY <2>2, <2>3 DEF ValidationInv, BudgetInv, LateInv, RepairsBounded
<1> QED BY <1>1, ValidationInvariance, PTL

\* Every result has its reason: the error of the last inner run, the context, a
\* validation without a repair left, or the end of the repairs.
THEOREM ResultIsExplained == Spec => []ResultExplained
<1>1. ValidationInv => ResultExplained
  BY DEF ValidationInv
<1> QED BY <1>1, ValidationInvariance, PTL

\* The stream tells the story of each inner run in order, and nothing is sent once
\* it is closed.
THEOREM StreamKeepsOrder == Spec => StreamInOrder
<1> DEFINE A == events' > events =>
                  /\ open
                  /\ \/ newest.run < newest'.run
                     \/ newest.run = newest'.run /\ place(newest) <= place(newest')
<1>1. TypeInv /\ ValidationInv /\ [Next]_vars => [A]_vars
  <2> SUFFICES ASSUME TypeInv, ValidationInv, Next, events' > events
               PROVE  /\ open
                      /\ \/ newest.run < newest'.run
                         \/ newest.run = newest'.run /\ place(newest) <= place(newest')
    OBVIOUS
  <2> USE DEF TypeInv, ValidationInv
  <2>0. /\ newest.run \in Nat /\ started \in Nat /\ newest.run <= started
        /\ events \in Nat /\ (events' = events - 1 => FALSE)
    BY ValidationAssumption DEF ValidationAssumption, CountsOK, Event, LoopOK, OrderInv
  <2>1. CASE Say
    <3>1. newest' = said(Head(out)) /\ out # <<>>
      BY <2>0, <2>1 DEF Say, sendEvent, said
    <3>2. open
      BY <3>1 DEF PhaseInv, QueueInv, queueAt
    <3>3. newest.run = started => place(newest) <= place(newest')
      BY <3>1 DEF OrderInv, said
    <3>4. newest'.run = started
      BY <3>1 DEF said
    <3> QED BY <2>0, <3>2, <3>3, <3>4
  <2>2. CASE ForwardSend
    <3>1. newest' = said("inner") /\ pc \in {"wait", "drain"}
      BY <2>0, <2>2 DEF ForwardSend, sendEvent, said, PhaseInv
    <3>2. open /\ out = <<>> /\ lastPlace(pc) = 1
      BY <3>1 DEF PhaseInv, QueueInv, queueAt, lastPlace, Running
    <3>3. newest'.run = started /\ place(newest') = 1
      BY <3>1, Places DEF said
    <3> QED BY <2>0, <3>2, <3>3 DEF OrderInv
  <2>3. ~(\/ StartAndWait \/ FirstReturned \/ Validate \/ ValidationCancelled \/ ValidationPassed
          \/ ValidationFailed \/ RepairStarts \/ RepairFallsBack \/ RepairReturned \/ RepairFailed)
    <3>1. events' # events
      BY <2>0
    <3> QED BY <3>1 DEF StartAndWait, StartInner, SetCurrent, InnerWait, DrainEvents, StartFails,
       FirstReturned, Validate, ValidationCancelled, ValidationPassed, ValidationFailed,
       RepairStarts, RepairFallsBack, RepairReturned, RepairFailed
  <2>4. ~(Finish \/ ForwardReceive \/ ForwardEnd \/ InnerRuns \/ Consume \/ Stop)
    BY <2>0 DEF Finish, DeferCancel, CloseEvents, CloseDone, ForwardReceive, ForwardEnd,
       InnerRuns, InnerSettles, InnerStops, InnerCloses, InnerEmits, innerMoves, Consume, Stop,
       vars
  <2>5. ~((\E c \in Callers : CancelContext(c) \/ CancelCurrent(c))
          \/ \E why \in CtxCauses : ContextEnds(why))
    BY <2>0 DEF CancelContext, CancelCurrent, ContextEnds
  <2> QED BY <2>1, <2>2, <2>3, <2>4, <2>5 DEF Next, Loop, Forward
<1> QED BY <1>1, ValidationInvariance, PTL DEF Spec, StreamInOrder

\* Every step of the logical run is a step of the contract or changes nothing it
\* speaks of.
LEMMA ContractStep ==
  TypeInv /\ TypeInv' /\ ValidationInv /\ ValidationInv' /\ [Next]_vars
    => [Contract!Next]_(Contract!contractVars)
<1> SUFFICES ASSUME TypeInv, TypeInv', ValidationInv, ValidationInv', [Next]_vars
             PROVE  Contract!Next \/ UNCHANGED Contract!contractVars
  OBVIOUS
<1> USE DEF TypeInv, ValidationInv, PhaseInv
<1>1. UNCHANGED <<result, done, open>> /\ (cause # "none" => cause' = cause)
        => Contract!AskStop \/ UNCHANGED Contract!contractVars
  BY DEF Contract!AskStop, Contract!contractVars
<1>2. CASE Loop
  <2>1. UNCHANGED <<done, cause, open>>
    BY <1>2 DEF Loop, StartAndWait, Say, StartInner, SetCurrent, InnerWait, DrainEvents,
       StartFails, FirstReturned, Validate, ValidationCancelled, ValidationPassed,
       ValidationFailed, RepairStarts, RepairFallsBack, RepairReturned, RepairFailed, finish,
       sendEvent
  <2>2. result = NoOutcome \/ result' = result
    BY <1>2 DEF Loop, StartAndWait, Say, starts, at, StartInner, SetCurrent, InnerWait,
       DrainEvents, StartFails, FirstReturned, Validate, ValidationCancelled, ValidationPassed,
       ValidationFailed, RepairStarts, RepairFallsBack, RepairReturned, RepairFailed, AfterFinish
  <2>3. result' = NoOutcome \/ result' \in Outcomes
    BY DEF OutcomesOK
  <2>4. result = NoOutcome /\ result' \in Outcomes => Contract!SettleAny
    BY <2>1 DEF Contract!SettleAny, Contract!Settle
  <2> QED BY <2>1, <2>2, <2>3, <2>4 DEF Contract!Next, Contract!contractVars
<1>3. CASE DeferCancel
  BY <1>1, <1>3 DEF DeferCancel, endCtx, Contract!Next
<1>4. CASE CloseEvents
  <2>1. result # NoOutcome /\ open /\ ~open'
    BY <1>4 DEF CloseEvents, AfterFinish
  <2>2. UNCHANGED <<result, done, cause>>
    BY <1>4 DEF CloseEvents
  <2> QED BY <2>1, <2>2 DEF Contract!Next, Contract!CloseEvents
<1>5. CASE CloseDone
  <2>1. result # NoOutcome /\ ~done /\ done'
    BY <1>5 DEF CloseDone, AfterFinish
  <2>2. UNCHANGED <<result, open, cause>>
    BY <1>5 DEF CloseDone
  <2> QED BY <2>1, <2>2 DEF Contract!Next, Contract!CloseDone
<1>6. CASE Forward \/ InnerRuns \/ Consume \/ Stop \/ UNCHANGED vars
  <2>1. UNCHANGED <<result, done, open, cause>>
    BY <1>6 DEF Forward, ForwardReceive, ForwardSend, ForwardEnd, sendEvent, InnerRuns,
       InnerSettles, InnerStops, InnerCloses, InnerEmits, innerMoves, Consume, Stop, vars
  <2> QED BY <2>1 DEF Contract!contractVars
<1>7. ASSUME \/ \E c \in Callers : CancelContext(c) \/ CancelCurrent(c)
             \/ \E why \in CtxCauses : ContextEnds(why)
      PROVE  Contract!Next \/ UNCHANGED Contract!contractVars
  BY <1>1, <1>7 DEF CancelContext, CancelCurrent, ContextEnds, endCtx, Contract!Next
<1> QED BY <1>2, <1>3, <1>4, <1>5, <1>6, <1>7 DEF Next, Finish

\* The handle of the logical run implements the safety of the Run interface: one
\* result, fixed before the stream and done are closed, each closed once.
THEOREM ValidationKeepsSafeContract == Spec => Contract!SafeSpec
<1>1. Init => Contract!Init
  BY DEF Init, Contract!Init
<1> QED BY <1>1, ContractStep, ValidationInvariance, PTL DEF Spec, Contract!SafeSpec
=============================================================================
