------------------------- MODULE ObservedRunProofs -------------------------
(***************************************************************************)
(* Theorems about ObservedRun, for every set of ids, kinds of events,      *)
(* waiters and callers, and every limit of the store and the channel.      *)
(*                                                                         *)
(* The inductive invariant has the consistency of the store and            *)
(*   FlowInv     how far forward() and the wrapped run are when a call of  *)
(*               Wait has come to a point                                  *)
(*   CountInv    the events that are not in the stream were dropped and    *)
(*               counted, each once, except for the one that the end of    *)
(*               the context cut off                                       *)
(*   AloneInv    of two calls of Wait that are under way at the same time  *)
(*               it is known that they overlap                             *)
(*   ErrorInv    what r.waitErr and the returned errors may be             *)
(* and, when the wrapped run puts its own id on events and result,         *)
(*   RecordInv   what the record, and a clone of it, say of the result     *)
(*   FoundInv    the run is found from before the first Wait returns       *)
(*   LogInv      the store has the newest events that fit                  *)
(***************************************************************************)
EXTENDS ObservedRun, MemoryRunStoreProofs

\* The groups of variables are only abbreviations.
USE DEF seqVars, chanVars, waitVars, innerVars

\* The points of Wait after the result is merged, and those of forward() with an
\* event in its hands.
Merged == {"clone", "upsert", "return"}
Holding == {"append", "upsert", "send", "blocked"}
Ending == {"close", "close_done", "end"}

FlowInv ==
  /\ done <=> fpc = "end"
  /\ \A w \in Waiters : wpc[w] \in Merged \cup {"returned"} => fpc = "end"
  /\ iDone => iResult # NoOutcome
  /\ \A w \in Waiters : got[w] # GaveUp => got[w] = iResult /\ iDone

\* The events that forward() is through with and that are not in the stream.
lost == (1 .. (IF fpc \in Holding THEN seq - 1 ELSE seq)) \ passed

\* The events L may be dropped, and there are as many as were counted.
Counted(L) == (\A k \in L : seen[k].droppable) /\ record.dropped = Cardinality(L)

CountInv ==
  /\ Len(seen) = seq
  /\ passed \subseteq 1 .. seq
  /\ fpc \in Holding => seq > 0 /\ seq \notin passed /\ inHand.kind = seen[seq]
  /\ Counted(lost) \/ (fpc \in Ending /\ cause # "none" /\ Counted(lost \ {seq}))

AloneInv == \A v, w \in Waiters : waits(v) /\ waits(w) /\ v # w => v \in shared

MergedError(w) ==
  wpc[w] \in Merged =>
    /\ waitErr = "ctx" \/ (iDone /\ waitErr = mergeRequiredObserverError(iResult.err))
    /\ w \notin shared => waitErr = mergeRequiredObserverError(got[w].err)

ReturnedError(w) ==
  wpc[w] = "returned" =>
    \/ ret[w] = mergeRequiredObserverError(got[w].err)
    \/ /\ w \in shared
       /\ ret[w] = "ctx" \/ (iDone /\ ret[w] = mergeRequiredObserverError(iResult.err))

ErrorInv == \A w \in Waiters : MergedError(w) /\ ReturnedError(w)

\* Once its result is merged the record has its status.
Told(w) ==
  wpc[w] \in Merged \cup {"returned"} /\ got[w] # GaveUp => record.status = iResult.status

\* The clone that is about to be stored is not stale.
Fresh(w) ==
  wpc[w] = "upsert" /\ shared = {} => clone[w] = [id |-> RunId, status |-> record.status]

RecordInv ==
  /\ record.id = RunId /\ inHand.id = RunId
  /\ \A w \in Waiters : Told(w) /\ Fresh(w)

\* The run is where CompletedIsFound says.
found == RunId \notin active /\ (RunId \in evicted \/ completed[RunId] = iResult.status)

\* A call that has the result has stored it.
settled == \E w \in Waiters : wpc[w] \in {"return", "returned"} /\ got[w] # GaveUp

FoundInv == shared = {} /\ settled => found

\* The records of the events m+1 to n of u, and whether m is the least number for
\* which they fit into a log.
recordsOf(u, m, n) == [j \in 1 .. n - m |-> [n |-> m + j, raw |-> u[m + j].raw]]
over(u, m, n) == eventLimitExceeded(n - m, bytes(u, m + 1, n))
fitFrom(u, m, n) == ~over(u, m, n) /\ \A l \in 0 .. m - 1 : over(u, l, n)

logged == IF fpc = "append" THEN seq - 1 ELSE seq

LogInv ==
  RunId \notin evicted =>
    \E m \in 0 .. logged : stored[RunId] = recordsOf(seen, m, logged) /\ fitFrom(seen, m, logged)

-----------------------------------------------------------------------------
\* TypeOK in parts, each of which a step keeps for reasons of its own.
FlagsOK ==
  /\ upserted \in BOOLEAN /\ open \in BOOLEAN /\ done \in BOOLEAN /\ shared \subseteq Waiters
  /\ iDone \in BOOLEAN /\ iClosed \in BOOLEAN /\ iStop \in BOOLEAN

PlacesOK ==
  /\ cause \in {"none", "caller", "parent", "timeout"}
  /\ fpc \in {"none", "range", "append", "upsert", "send", "blocked", "close", "close_done", "end"}
  /\ seq \in 0 .. Len(Kinds) /\ events \in 0 .. EventCap
  /\ wpc \in [Waiters -> {"idle", "inner", "drain", "clone", "upsert", "return", "returned"}]
  /\ cpc \in [Callers -> {"idle", "cancel", "returned"}]

RecordOK ==
  /\ record \in [id : Ids, status : RecordStatus, dropped : Nat, failures : SUBSET BOOLEAN]
  /\ inHand \in [kind : Kind, id : Ids] /\ seen \in Seq(Kind)

OutcomesOK ==
  /\ waitErr \in {"none", "runtime", "ctx", "sink"}
  /\ got \in [Waiters -> Outcomes \cup {GaveUp}]
  /\ ret \in [Waiters -> {"none", "runtime", "ctx", "sink"}]
  /\ iResult \in Outcomes \cup {NoOutcome}

ClonesOK == clone \in [Waiters -> [id : Ids, status : RecordStatus]]

TypeInv == FlagsOK /\ PlacesOK /\ RecordOK /\ OutcomesOK /\ ClonesOK

\* What the wrapped run may come to are outcomes.
LEMMA InnerOutcome == innerOutcomes \subseteq Outcomes
  BY DEF innerOutcomes, Outcomes, Terminal

\* The ids on outcomes are ids of runs, and their errors are none that a sink makes.
LEMMA OutcomeTypes ==
  ASSUME NEW o \in Outcomes
  PROVE  /\ o.id \in Ids /\ o.id \in InnerIds /\ o.status \in Terminal
         /\ o.err \in {"none", "runtime", "ctx"}
  BY ObservedAssumption DEF ObservedAssumption, Outcomes

\* What is received is a kind of event.
LEMMA KindsAreKinds ==
  ASSUME seq \in 0 .. Len(Kinds), seq < Len(Kinds)
  PROVE  Len(Kinds) \in Nat /\ Kinds[seq + 1] \subseteq Kind
<1>1. Kinds \in Seq(SUBSET Kind) /\ Len(Kinds) \in Nat
  BY ObservedAssumption, LenProperties DEF ObservedAssumption
<1>2. seq + 1 \in 1 .. Len(Kinds)
  BY <1>1
<1> QED BY <1>1, <1>2, ElementOfSeq

\* A result is neither the empty one nor that of a call which gave up.
LEMMA OutcomeIsOne == NoOutcome \notin Outcomes /\ GaveUp \notin Outcomes /\ NoOutcome # GaveUp
  BY DEF NoOutcome, GaveUp, Outcomes, Terminal

\* Every step keeps the Boolean variables Boolean and the set of calls one ...
LEMMA FlagsStep == FlagsOK /\ [Next]_vars => FlagsOK'
<1> SUFFICES ASSUME FlagsOK, [Next]_vars PROVE FlagsOK'
  OBVIOUS
<1>1. CASE StartRun
  BY <1>1 DEF StartRun, FlagsOK
<1>2. ASSUME seq < Len(Kinds), NEW k \in Kinds[seq + 1], NEW i \in InnerIds,
             NEW failing \in {{}, {TRUE}, {FALSE}},
             ForwardReceive([kind |-> k, id |-> i], failing)
      PROVE  FlagsOK'
  BY <1>2 DEF ForwardReceive, FlagsOK
<1>3. CASE Forward
  <2>1. CASE ForwardUpsert
    BY <2>1 DEF ForwardUpsert, FlagsOK
  <2>2. CASE ForwardSend
    BY <2>2 DEF ForwardSend, passOn, giveUp, dropOrWait, FlagsOK
  <2>3. CASE ForwardBlocked
    BY <2>3 DEF ForwardBlocked, passOn, giveUp, FlagsOK
  <2>4. CASE ForwardAppend \/ ForwardEnd \/ CloseEvents \/ CloseDone
    BY <2>4 DEF ForwardAppend, AppendEvent, ForwardEnd, CloseEvents, CloseDone, FlagsOK
  <2> QED BY <1>3, <2>1, <2>2, <2>3, <2>4 DEF Forward
<1>4. ASSUME NEW w \in Waiters, WaitCall(w) \/ WaitProceeds(w) \/ WaitGivesUp(w) PROVE FlagsOK'
  <2>1. CASE WaitCall(w)
    BY <2>1 DEF WaitCall, waitStep, FlagsOK
  <2>2. CASE WaitReturn(w)
    BY <2>2 DEF WaitReturn, waitStep, FlagsOK
  <2>3. CASE WaitInner(w) \/ WaitGivesUp(w) \/ WaitMerge(w) \/ WaitClone(w) \/ WaitUpsert(w)
    BY <2>3 DEF WaitInner, waitStep, WaitGivesUp, WaitMerge, WaitClone, WaitUpsert, FlagsOK
  <2> QED BY <1>4, <2>1, <2>2, <2>3 DEF WaitProceeds
<1>5. ASSUME NEW c \in Callers, CancelContext(c) \/ CancelInner(c) PROVE FlagsOK'
  BY <1>5 DEF CancelContext, CancelInner, endCtx, FlagsOK
<1>6. CASE InnerRuns
  BY <1>6 DEF InnerRuns, InnerSettles, InnerCloses, InnerStops, outside, Inner!Settle,
     Inner!AskStop, Inner!CloseDone, Inner!CloseEvents, FlagsOK
<1>7. ASSUME NEW why \in CtxCauses, ContextEnds(why) PROVE FlagsOK'
  BY <1>7 DEF ContextEnds, outside, FlagsOK
<1>8. CASE Consume
  BY <1>8 DEF Consume, outside, FlagsOK
<1>9. CASE StoreMoves
  BY <1>9 DEF StoreMoves, outside, FlagsOK
<1>10. CASE UNCHANGED vars
  BY <1>10 DEF vars, FlagsOK
<1> QED BY <1>1, <1>2, <1>3, <1>4, <1>5, <1>6, <1>7, <1>8, <1>9, <1>10 DEF Next, Receive

\* ... the program counters and counters in their ranges ...
LEMMA PlacesStep == PlacesOK /\ [Next]_vars => PlacesOK'
<1> SUFFICES ASSUME PlacesOK, [Next]_vars PROVE PlacesOK'
  OBVIOUS
<1>1. CASE StartRun
  BY <1>1, ObservedAssumption DEF StartRun, ObservedAssumption, PlacesOK
<1>2. ASSUME seq < Len(Kinds), NEW k \in Kinds[seq + 1], NEW i \in InnerIds,
             NEW failing \in {{}, {TRUE}, {FALSE}},
             ForwardReceive([kind |-> k, id |-> i], failing)
      PROVE  PlacesOK'
  BY <1>2, ObservedAssumption DEF ForwardReceive, ObservedAssumption, PlacesOK
<1>3. CASE Forward
  <2>1. CASE ForwardSend
    <3>1. /\ fpc' \in {"range", "close", "blocked"}
          /\ events' = events \/ (events < EventCap /\ events' = events + 1)
          /\ UNCHANGED <<cause, seq, wpc, cpc>>
      BY <2>1 DEF ForwardSend, passOn, giveUp, dropOrWait
    <3> QED BY <3>1, ObservedAssumption DEF ObservedAssumption, PlacesOK
  <2>2. CASE ForwardBlocked
    BY <2>2, ObservedAssumption DEF ForwardBlocked, passOn, giveUp, ObservedAssumption, PlacesOK
  <2>3. CASE ForwardAppend \/ ForwardUpsert \/ ForwardEnd \/ CloseEvents \/ CloseDone
    BY <2>3, ObservedAssumption DEF ForwardAppend, AppendEvent, ForwardUpsert, ForwardEnd,
       CloseEvents, CloseDone, ObservedAssumption, PlacesOK
  <2> QED BY <1>3, <2>1, <2>2, <2>3 DEF Forward
<1>4. ASSUME NEW w \in Waiters, WaitCall(w) \/ WaitProceeds(w) \/ WaitGivesUp(w) PROVE PlacesOK'
  <2>1. CASE WaitCall(w)
    BY <2>1, ObservedAssumption DEF WaitCall, waitStep, ObservedAssumption, PlacesOK
  <2>2. CASE WaitInner(w) \/ WaitGivesUp(w) \/ WaitMerge(w) \/ WaitClone(w) \/ WaitUpsert(w) \/
            WaitReturn(w)
    BY <2>2, ObservedAssumption DEF WaitInner, waitStep, WaitGivesUp, WaitMerge, WaitClone,
       WaitUpsert, WaitReturn, ObservedAssumption, PlacesOK
  <2> QED BY <1>4, <2>1, <2>2 DEF WaitProceeds
<1>5. ASSUME NEW c \in Callers, CancelContext(c) \/ CancelInner(c) PROVE PlacesOK'
  BY <1>5, ObservedAssumption DEF CancelContext, CancelInner, endCtx, ObservedAssumption, PlacesOK
<1>6. CASE InnerRuns
  BY <1>6, ObservedAssumption DEF InnerRuns, InnerSettles, InnerCloses, InnerStops, outside,
     Inner!Settle, Inner!AskStop, Inner!CloseDone, Inner!CloseEvents, ObservedAssumption, PlacesOK
<1>7. ASSUME NEW why \in CtxCauses, ContextEnds(why) PROVE PlacesOK'
  BY <1>7, ObservedAssumption DEF ContextEnds, outside, ObservedAssumption, PlacesOK
<1>8. CASE Consume
  BY <1>8, ObservedAssumption DEF Consume, outside, ObservedAssumption, PlacesOK
<1>9. CASE StoreMoves
  BY <1>9, ObservedAssumption DEF StoreMoves, outside, ObservedAssumption, PlacesOK
<1>10. CASE UNCHANGED vars
  BY <1>10, ObservedAssumption DEF vars, ObservedAssumption, PlacesOK
<1> QED BY <1>1, <1>2, <1>3, <1>4, <1>5, <1>6, <1>7, <1>8, <1>9, <1>10 DEF Next, Receive

\* ... the record and the event in hand ...
LEMMA RecordStep == PlacesOK /\ RecordOK /\ OutcomesOK /\ [Next]_vars => RecordOK'
<1> SUFFICES ASSUME PlacesOK, RecordOK, OutcomesOK, [Next]_vars PROVE RecordOK'
  OBVIOUS
<1>1. CASE StartRun
  BY <1>1, ObservedAssumption DEF StartRun, ObservedAssumption, RecordOK
<1>2. ASSUME seq < Len(Kinds), NEW k \in Kinds[seq + 1], NEW i \in InnerIds,
             NEW failing \in {{}, {TRUE}, {FALSE}},
             ForwardReceive([kind |-> k, id |-> i], failing)
      PROVE  RecordOK'
  <2>1. k \in Kind
    BY <1>2, KindsAreKinds DEF PlacesOK
  <2>2. seen' \in Seq(Kind)
    BY <1>2, <2>1, AppendProperties DEF ForwardReceive, RecordOK
  <2>3. k.status = "none" \/ k.status \in RecordStatus
    BY <2>1 DEF Kind
  <2>4. inHand' \in [kind : Kind, id : Ids]
    BY <1>2, <2>1, ObservedAssumption DEF ForwardReceive, ObservedAssumption
  <2>5. /\ record'.id = record.id /\ record'.dropped = record.dropped
        /\ record'.status = record.status \/ record'.status = k.status
        /\ record'.failures \subseteq BOOLEAN
    BY <1>2 DEF ForwardReceive, RecordOK
  <2> QED BY <1>2, <2>2, <2>3, <2>4, <2>5 DEF ForwardReceive, RecordOK
<1>3. CASE Forward
  <2>1. CASE ForwardSend
    <3>1. inHand' \in [kind : Kind, id : Ids]
      BY <2>1, ObservedAssumption DEF ForwardSend, ObservedAssumption, RecordOK, Nothing, Kind
    <3>2. /\ record' = record \/ record' = [record EXCEPT !.dropped = @ + 1]
          /\ UNCHANGED seen
      BY <2>1 DEF ForwardSend, passOn, giveUp, dropOrWait
    <3> QED BY <3>1, <3>2 DEF RecordOK
  <2>2. CASE ForwardBlocked
    BY <2>2, ObservedAssumption DEF ForwardBlocked, passOn, giveUp, Nothing, Kind,
       ObservedAssumption, RecordOK
  <2>3. CASE ForwardAppend \/ ForwardUpsert \/ ForwardEnd \/ CloseEvents \/ CloseDone
    BY <2>3, ObservedAssumption DEF ForwardAppend, AppendEvent, ForwardUpsert, ForwardEnd,
       CloseEvents, CloseDone, ObservedAssumption, RecordOK
  <2> QED BY <1>3, <2>1, <2>2, <2>3 DEF Forward
<1>4. ASSUME NEW w \in Waiters, WaitCall(w) \/ WaitProceeds(w) \/ WaitGivesUp(w) PROVE RecordOK'
  <2>1. CASE WaitMerge(w)
    <3>1. got[w] \in Outcomes \/ got[w] = GaveUp
      BY DEF OutcomesOK
    <3>2. /\ got[w].id = "none" \/ got[w].id \in Ids
          /\ got[w].status = "none" \/ got[w].status \in RecordStatus
      BY <3>1, OutcomeTypes DEF GaveUp, RecordStatus
    <3> QED BY <2>1, <3>2 DEF WaitMerge, waitStep, RecordOK
  <2>2. CASE WaitCall(w) \/ WaitInner(w) \/ WaitGivesUp(w) \/ WaitClone(w) \/ WaitUpsert(w) \/
            WaitReturn(w)
    BY <2>2, ObservedAssumption DEF WaitCall, waitStep, WaitInner, WaitGivesUp, WaitClone,
       WaitUpsert, WaitReturn, ObservedAssumption, RecordOK
  <2> QED BY <1>4, <2>1, <2>2 DEF WaitProceeds
<1>5. ASSUME NEW c \in Callers, CancelContext(c) \/ CancelInner(c) PROVE RecordOK'
  BY <1>5, ObservedAssumption DEF CancelContext, CancelInner, endCtx, ObservedAssumption, RecordOK
<1>6. CASE InnerRuns
  BY <1>6, ObservedAssumption DEF InnerRuns, InnerSettles, InnerCloses, InnerStops, outside,
     Inner!Settle, Inner!AskStop, Inner!CloseDone, Inner!CloseEvents, ObservedAssumption, RecordOK
<1>7. ASSUME NEW why \in CtxCauses, ContextEnds(why) PROVE RecordOK'
  BY <1>7, ObservedAssumption DEF ContextEnds, outside, ObservedAssumption, RecordOK
<1>8. CASE Consume
  BY <1>8, ObservedAssumption DEF Consume, outside, ObservedAssumption, RecordOK
<1>9. CASE StoreMoves
  BY <1>9, ObservedAssumption DEF StoreMoves, outside, ObservedAssumption, RecordOK
<1>10. CASE UNCHANGED vars
  BY <1>10, ObservedAssumption DEF vars, ObservedAssumption, RecordOK
<1> QED BY <1>1, <1>2, <1>3, <1>4, <1>5, <1>6, <1>7, <1>8, <1>9, <1>10 DEF Next, Receive

\* ... the outcomes and errors ...
LEMMA OutcomesStep == OutcomesOK /\ FlowInv /\ [Next]_vars => OutcomesOK'
<1> SUFFICES ASSUME OutcomesOK, FlowInv, [Next]_vars PROVE OutcomesOK'
  OBVIOUS
<1>1. CASE StartRun
  BY <1>1 DEF StartRun, OutcomesOK
<1>2. ASSUME seq < Len(Kinds), NEW k \in Kinds[seq + 1], NEW i \in InnerIds,
             NEW failing \in {{}, {TRUE}, {FALSE}},
             ForwardReceive([kind |-> k, id |-> i], failing)
      PROVE  OutcomesOK'
  BY <1>2 DEF ForwardReceive, OutcomesOK
<1>3. CASE Forward
  <2>1. CASE ForwardAppend \/ ForwardUpsert \/ ForwardSend \/ ForwardBlocked \/ ForwardEnd \/
            CloseEvents \/ CloseDone
    BY <2>1 DEF ForwardAppend, AppendEvent, ForwardUpsert, ForwardSend, passOn, giveUp,
       dropOrWait, ForwardBlocked, ForwardEnd, CloseEvents, CloseDone, OutcomesOK
  <2> QED BY <1>3, <2>1 DEF Forward
<1>4. ASSUME NEW w \in Waiters, WaitCall(w) \/ WaitProceeds(w) \/ WaitGivesUp(w) PROVE OutcomesOK'
  <2>1. CASE WaitCall(w)
    BY <2>1 DEF WaitCall, waitStep, OutcomesOK
  <2>2. CASE WaitInner(w)
    BY <2>2 DEF WaitInner, waitStep, FlowInv, OutcomesOK
  <2>3. CASE WaitMerge(w)
    <3>1. got[w] \in Outcomes \/ got[w] = GaveUp
      BY DEF OutcomesOK
    <3>2. got[w].err \in {"none", "runtime", "ctx"}
      BY <3>1, OutcomeTypes DEF GaveUp
    <3> QED BY <2>3, <3>2 DEF WaitMerge, waitStep, mergeRequiredObserverError, OutcomesOK
  <2>4. CASE WaitGivesUp(w) \/ WaitClone(w) \/ WaitUpsert(w) \/ WaitReturn(w)
    BY <2>4 DEF WaitGivesUp, waitStep, WaitClone, WaitUpsert, WaitReturn, OutcomesOK
  <2> QED BY <1>4, <2>1, <2>2, <2>3, <2>4 DEF WaitProceeds
<1>5. ASSUME NEW c \in Callers, CancelContext(c) \/ CancelInner(c) PROVE OutcomesOK'
  BY <1>5 DEF CancelContext, CancelInner, endCtx, OutcomesOK
<1>6. CASE InnerRuns
  BY <1>6, InnerOutcome DEF InnerRuns, InnerSettles, InnerCloses, InnerStops, outside,
     Inner!Settle, Inner!AskStop, Inner!CloseDone, Inner!CloseEvents, OutcomesOK
<1>7. ASSUME NEW why \in CtxCauses, ContextEnds(why) PROVE OutcomesOK'
  BY <1>7 DEF ContextEnds, outside, OutcomesOK
<1>8. CASE Consume
  BY <1>8 DEF Consume, outside, OutcomesOK
<1>9. CASE StoreMoves
  BY <1>9 DEF StoreMoves, outside, OutcomesOK
<1>10. CASE UNCHANGED vars
  BY <1>10 DEF vars, OutcomesOK
<1> QED BY <1>1, <1>2, <1>3, <1>4, <1>5, <1>6, <1>7, <1>8, <1>9, <1>10 DEF Next, Receive

\* ... and the clones of the record.
LEMMA ClonesStep == ClonesOK /\ RecordOK /\ [Next]_vars => ClonesOK'
<1> SUFFICES ASSUME ClonesOK, RecordOK, [Next]_vars PROVE ClonesOK'
  OBVIOUS
<1>1. CASE StartRun
  BY <1>1, ObservedAssumption DEF StartRun, ObservedAssumption, ClonesOK
<1>2. ASSUME seq < Len(Kinds), NEW k \in Kinds[seq + 1], NEW i \in InnerIds,
             NEW failing \in {{}, {TRUE}, {FALSE}},
             ForwardReceive([kind |-> k, id |-> i], failing)
      PROVE  ClonesOK'
  BY <1>2, ObservedAssumption DEF ForwardReceive, ObservedAssumption, ClonesOK
<1>3. CASE Forward
  <2>1. CASE ForwardAppend \/ ForwardUpsert \/ ForwardSend \/ ForwardBlocked \/ ForwardEnd \/
            CloseEvents \/ CloseDone
    BY <2>1, ObservedAssumption DEF ForwardAppend, AppendEvent, ForwardUpsert, ForwardSend,
       passOn, giveUp, dropOrWait, ForwardBlocked, ForwardEnd, CloseEvents, CloseDone,
       ObservedAssumption, ClonesOK
  <2> QED BY <1>3, <2>1 DEF Forward
<1>4. ASSUME NEW w \in Waiters, WaitCall(w) \/ WaitProceeds(w) \/ WaitGivesUp(w) PROVE ClonesOK'
  <2>1. CASE WaitClone(w)
    BY <2>1, ObservedAssumption DEF WaitClone, waitStep, RecordOK, ObservedAssumption, ClonesOK
  <2>2. CASE WaitUpsert(w)
    BY <2>2, ObservedAssumption DEF WaitUpsert, waitStep, NoClone, RecordStatus,
       ObservedAssumption, ClonesOK
  <2>3. CASE WaitCall(w) \/ WaitInner(w) \/ WaitGivesUp(w) \/ WaitMerge(w) \/ WaitReturn(w)
    BY <2>3, ObservedAssumption DEF WaitCall, waitStep, WaitInner, WaitGivesUp, WaitMerge,
       WaitReturn, ObservedAssumption, ClonesOK
  <2> QED BY <1>4, <2>1, <2>2, <2>3 DEF WaitProceeds
<1>5. ASSUME NEW c \in Callers, CancelContext(c) \/ CancelInner(c) PROVE ClonesOK'
  BY <1>5, ObservedAssumption DEF CancelContext, CancelInner, endCtx, ObservedAssumption, ClonesOK
<1>6. CASE InnerRuns
  BY <1>6, ObservedAssumption DEF InnerRuns, InnerSettles, InnerCloses, InnerStops, outside,
     Inner!Settle, Inner!AskStop, Inner!CloseDone, Inner!CloseEvents, ObservedAssumption, ClonesOK
<1>7. ASSUME NEW why \in CtxCauses, ContextEnds(why) PROVE ClonesOK'
  BY <1>7, ObservedAssumption DEF ContextEnds, outside, ObservedAssumption, ClonesOK
<1>8. CASE Consume
  BY <1>8, ObservedAssumption DEF Consume, outside, ObservedAssumption, ClonesOK
<1>9. CASE StoreMoves
  BY <1>9, ObservedAssumption DEF StoreMoves, outside, ObservedAssumption, ClonesOK
<1>10. CASE UNCHANGED vars
  BY <1>10, ObservedAssumption DEF vars, ObservedAssumption, ClonesOK
<1> QED BY <1>1, <1>2, <1>3, <1>4, <1>5, <1>6, <1>7, <1>8, <1>9, <1>10 DEF Next, Receive

-----------------------------------------------------------------------------
(* What a run does with its store.                                         *)

\* Every step leaves the store alone or is one operation of the store.
LEMMA StoreUse ==
  ASSUME TypeInv, [Next]_vars
  PROVE  \/ UNCHANGED storeVars
         \/ \E id \in Ids, status \in RecordStatus : UpsertRun(id, status)
         \/ \E id \in Ids, e \in EventRecord : AppendEvent(id, e)
         \/ Inspect
<1> USE DEF TypeInv
<1>1. CASE StartRun
  BY <1>1, ObservedAssumption DEF StartRun, ObservedAssumption, RecordStatus
<1>2. CASE ForwardAppend
  <2>1. inHand.id \in Ids /\ [n |-> seq, raw |-> inHand.kind.raw] \in EventRecord
    BY DEF RecordOK, PlacesOK, Kind, EventRecord
  <2> QED BY <1>2, <2>1 DEF ForwardAppend
<1>3. CASE ForwardUpsert
  <2>1. record.id \in Ids /\ record.status \in RecordStatus
    BY DEF RecordOK
  <2> QED BY <1>3, <2>1 DEF ForwardUpsert
<1>4. ASSUME NEW w \in Waiters, WaitUpsert(w)
      PROVE  \E id \in Ids, status \in RecordStatus : UpsertRun(id, status)
  <2>1. clone[w].id \in Ids /\ clone[w].status \in RecordStatus
    BY DEF ClonesOK
  <2> QED BY <1>4, <2>1 DEF WaitUpsert
<1>5. CASE StoreMoves
  BY <1>5 DEF StoreMoves
<1>6. ASSUME NEW w \in Waiters,
             WaitCall(w) \/ WaitInner(w) \/ WaitGivesUp(w) \/ WaitMerge(w) \/ WaitClone(w)
               \/ WaitReturn(w)
      PROVE  UNCHANGED storeVars
  BY <1>6 DEF WaitCall, WaitInner, WaitGivesUp, WaitMerge, WaitClone, WaitReturn
<1>7. CASE Receive \/ ForwardSend \/ ForwardBlocked \/ ForwardEnd \/ CloseEvents \/ CloseDone
  BY <1>7 DEF Receive, ForwardReceive, ForwardSend, ForwardBlocked, ForwardEnd, CloseEvents,
     CloseDone
<1>8. CASE \/ \E c \in Callers : CancelContext(c) \/ CancelInner(c)
           \/ InnerRuns \/ (\E why \in CtxCauses : ContextEnds(why)) \/ Consume
  BY <1>8 DEF CancelContext, CancelInner, InnerRuns, InnerSettles, InnerCloses, InnerStops,
     ContextEnds, Consume
<1>9. CASE UNCHANGED vars
  BY <1>9 DEF vars
<1> QED BY <1>1, <1>2, <1>3, <1>4, <1>5, <1>6, <1>7, <1>8, <1>9 DEF Next, Forward, WaitProceeds

\* So it keeps the store consistent.
LEMMA StoreStep == TypeInv /\ StoreInv /\ [Next]_vars => StoreInv'
<1> SUFFICES ASSUME TypeInv, StoreInv, [Next]_vars PROVE StoreInv'
  OBVIOUS
<1>1. CASE UNCHANGED storeVars
  <2>1. UNCHANGED <<active, completed, order, stored, rawBytes, evicted>>
    BY <1>1 DEF storeVars
  <2>2. StoreTypeOK'
    BY <2>1 DEF StoreInv, StoreTypeOK
  <2>3. {order'[k] : k \in 1 .. Len(order')} = {id \in Ids : completed'[id] # "absent"}
    BY <2>1 DEF StoreInv, StoreConsistent
  <2> QED BY <2>1, <2>2, <2>3 DEF StoreInv, StoreConsistent
<1> QED BY <1>1, StoreUse, UpsertKeepsStore, AppendKeepsStore, InspectKeepsStore

-----------------------------------------------------------------------------
(* The conjuncts of the invariant, for whatever ids the wrapped run uses.  *)

\* How far each goroutine and the wrapped run are.
LEMMA FlowStep == TypeInv /\ FlowInv /\ [Next]_vars => FlowInv'
<1> SUFFICES ASSUME TypeInv, FlowInv, [Next]_vars PROVE FlowInv'
  OBVIOUS
<1> USE DEF TypeInv
<1>1. CASE StartRun
  BY <1>1 DEF StartRun, FlowInv, Merged
<1>2. ASSUME seq < Len(Kinds), NEW k \in Kinds[seq + 1], NEW i \in InnerIds,
             NEW failing \in {{}, {TRUE}, {FALSE}},
             ForwardReceive([kind |-> k, id |-> i], failing)
      PROVE  FlowInv'
  BY <1>2, ObservedAssumption DEF ForwardReceive, FlowInv, Merged
<1>3. CASE Forward
  <2>1. CASE ForwardSend
    BY <2>1 DEF ForwardSend, passOn, giveUp, dropOrWait, FlowInv, Merged
  <2>2. CASE ForwardBlocked
    BY <2>2 DEF ForwardBlocked, passOn, giveUp, FlowInv, Merged
  <2>3. CASE CloseDone
    BY <2>3 DEF CloseDone, FlowInv, Merged
  <2>4. CASE ForwardAppend \/ ForwardUpsert \/ ForwardEnd \/ CloseEvents
    BY <2>4 DEF ForwardAppend, AppendEvent, ForwardUpsert, ForwardEnd, CloseEvents, FlowInv,
       Merged
  <2> QED BY <1>3, <2>1, <2>2, <2>3, <2>4 DEF Forward
<1>4. ASSUME NEW w \in Waiters, WaitCall(w) \/ WaitProceeds(w) \/ WaitGivesUp(w) PROVE FlowInv'
  <2>1. CASE WaitCall(w)
    BY <2>1 DEF WaitCall, waitStep, PlacesOK, OutcomesOK, FlowInv, Merged
  <2>2. CASE WaitInner(w)
    BY <2>2 DEF WaitInner, waitStep, PlacesOK, OutcomesOK, FlowInv, Merged
  <2>3. CASE WaitGivesUp(w)
    BY <2>3 DEF WaitGivesUp, waitStep, PlacesOK, OutcomesOK, FlowInv, Merged
  <2>4. CASE WaitMerge(w)
    BY <2>4 DEF WaitMerge, waitStep, PlacesOK, OutcomesOK, FlowInv, Merged
  <2>5. CASE WaitClone(w)
    BY <2>5 DEF WaitClone, waitStep, PlacesOK, OutcomesOK, FlowInv, Merged
  <2>6. CASE WaitUpsert(w)
    BY <2>6 DEF WaitUpsert, waitStep, PlacesOK, OutcomesOK, FlowInv, Merged
  <2>7. CASE WaitReturn(w)
    BY <2>7 DEF WaitReturn, waitStep, PlacesOK, OutcomesOK, FlowInv, Merged
  <2> QED BY <1>4, <2>1, <2>2, <2>3, <2>4, <2>5, <2>6, <2>7 DEF WaitProceeds
<1>5. ASSUME NEW c \in Callers, CancelContext(c) \/ CancelInner(c) PROVE FlowInv'
  BY <1>5 DEF CancelContext, CancelInner, endCtx, FlowInv, Merged
<1>6. CASE InnerRuns
  BY <1>6, OutcomeIsOne, InnerOutcome DEF InnerRuns, InnerSettles, InnerCloses, InnerStops,
     outside, Inner!Settle, Inner!AskStop, Inner!CloseDone, Inner!CloseEvents, FlowInv, Merged
<1>7. ASSUME NEW why \in CtxCauses, ContextEnds(why) PROVE FlowInv'
  BY <1>7 DEF ContextEnds, outside, FlowInv, Merged
<1>8. CASE Consume
  BY <1>8 DEF Consume, outside, FlowInv, Merged
<1>9. CASE StoreMoves
  BY <1>9 DEF StoreMoves, outside, FlowInv, Merged
<1>10. CASE UNCHANGED vars
  BY <1>10 DEF vars, FlowInv, Merged
<1> QED BY <1>1, <1>2, <1>3, <1>4, <1>5, <1>6, <1>7, <1>8, <1>9, <1>10 DEF Next, Receive

\* The count stands while forward() is on with no event, or with the same one.
LEMMA CountStays ==
  ASSUME CountInv, UNCHANGED <<seq, seen, passed>>, record'.dropped = record.dropped,
         cause # "none" => cause' # "none", fpc' \in Holding <=> fpc \in Holding,
         fpc' \in Holding => UNCHANGED inHand, fpc \in Ending => fpc' \in Ending
  PROVE  CountInv'
<1>1. lost' = lost
  BY DEF lost
<1>2. (Counted(lost) => Counted(lost)') /\ (Counted(lost \ {seq}) => Counted(lost \ {seq})')
  BY <1>1 DEF Counted
<1> QED BY <1>2 DEF CountInv

\* An event that is not passed on is dropped and counted, once, or cut off.
LEMMA CountStep == TypeInv /\ CountInv /\ [Next]_vars => CountInv'
<1> SUFFICES ASSUME TypeInv, CountInv, [Next]_vars PROVE CountInv'
  OBVIOUS
<1> USE DEF TypeInv
<1>1. CASE StartRun
  BY <1>1, CountStays DEF StartRun, Holding, Ending
<1>2. ASSUME seq < Len(Kinds), NEW k \in Kinds[seq + 1], NEW i \in InnerIds,
             NEW failing \in {{}, {TRUE}, {FALSE}},
             ForwardReceive([kind |-> k, id |-> i], failing)
      PROVE  CountInv'
  <2>1. /\ fpc = "range" /\ fpc' = "append" /\ inHand'.kind = k /\ seq' = seq + 1
        /\ seen' = Append(seen, k) /\ record'.dropped = record.dropped /\ UNCHANGED passed
    BY <1>2 DEF ForwardReceive, RecordOK
  <2>2. seq \in Nat /\ Len(seen) = seq /\ k \in Kind /\ seen \in Seq(Kind)
    BY <1>2, KindsAreKinds DEF PlacesOK, RecordOK, CountInv
  <2>3. Len(seen') = seq' /\ seen'[seq'] = k /\ \A j \in 1 .. seq : seen'[j] = seen[j]
    BY <2>1, <2>2, AppendProperties
  <2>4. lost = (1 .. seq) \ passed /\ lost' = lost
    BY <2>1, <2>2 DEF lost, Holding
  <2>5. Counted(lost) /\ passed \subseteq 1 .. seq
    BY <2>1 DEF CountInv, Ending
  <2>6. Counted(lost)'
    BY <2>1, <2>3, <2>4, <2>5 DEF Counted
  <2>7. passed' \subseteq 1 .. seq' /\ seq' > 0 /\ seq' \notin passed'
    BY <2>1, <2>2, <2>5
  <2> QED BY <2>1, <2>3, <2>6, <2>7 DEF CountInv
<1>3. CASE Forward
  <2>1. CASE ForwardSend \/ ForwardBlocked
    <3> DEFINE L == (1 .. seq - 1) \ passed
    <3>1. /\ fpc \in Holding /\ fpc \notin Ending /\ UNCHANGED <<seq, seen, cause>>
          /\ \/ passOn
             \/ giveUp
             \/ /\ inHand.kind.droppable /\ fpc' = "range" /\ UNCHANGED passed
                /\ record' = [record EXCEPT !.dropped = @ + 1]
             \/ fpc' = "blocked" /\ UNCHANGED <<record, passed, inHand>>
      BY <2>1 DEF ForwardSend, ForwardBlocked, dropOrWait, Holding, Ending
    <3>2. /\ seq \in Nat /\ seq > 0 /\ seq \notin passed /\ passed \subseteq 1 .. seq
          /\ inHand.kind = seen[seq] /\ Len(seen) = seq
      BY <3>1 DEF CountInv, PlacesOK
    <3>3. lost = L /\ Counted(L)
      BY <3>1 DEF lost, CountInv
    <3>4. CASE passOn
      <4>1. fpc' = "range" /\ passed' = passed \cup {seq} /\ UNCHANGED record
        BY <3>4 DEF passOn
      <4>2. lost' = L
        BY <3>1, <3>2, <4>1 DEF lost, Holding
      <4>3. Counted(lost)'
        BY <3>1, <3>3, <4>1, <4>2 DEF Counted
      <4> QED BY <3>1, <3>2, <4>1, <4>3 DEF CountInv, Holding
    <3>5. CASE giveUp
      <4>1. fpc' = "close" /\ cause # "none" /\ UNCHANGED <<passed, record>>
        BY <3>5 DEF giveUp
      <4>2. lost' \ {seq} = L
        BY <3>1, <3>2, <4>1 DEF lost, Holding
      <4>3. Counted(lost \ {seq})'
        BY <3>1, <3>3, <4>1, <4>2 DEF Counted
      <4> QED BY <3>1, <3>2, <4>1, <4>3 DEF CountInv, Holding, Ending
    <3>6. CASE /\ inHand.kind.droppable /\ fpc' = "range" /\ UNCHANGED passed
               /\ record' = [record EXCEPT !.dropped = @ + 1]
      <4>1. lost' = L \cup {seq} /\ seq \notin L
        BY <3>1, <3>2, <3>6 DEF lost, Holding
      <4>2. IsFiniteSet(L)
        <5>1. IsFiniteSet(1 .. seq - 1)
          BY <3>2, FS_Interval
        <5> QED BY <5>1, FS_Difference
      <4>3. Cardinality(L \cup {seq}) = Cardinality(L) + 1
        <5> HIDE DEF L
        <5> QED BY <4>1, <4>2, FS_AddElement
      <4>4. record'.dropped = record.dropped + 1
        BY <3>6 DEF RecordOK
      <4>5. Counted(lost)'
        BY <3>1, <3>2, <3>3, <3>6, <4>1, <4>3, <4>4 DEF Counted
      <4> QED BY <3>1, <3>2, <3>6, <4>5 DEF CountInv, Holding
    <3>7. CASE fpc' = "blocked" /\ UNCHANGED <<record, passed, inHand>>
      BY <3>1, <3>7, CountStays DEF Holding
    <3> QED BY <3>1, <3>4, <3>5, <3>6, <3>7
  <2>2. CASE ForwardAppend \/ ForwardUpsert \/ ForwardEnd \/ CloseEvents \/ CloseDone
    BY <2>2, CountStays DEF ForwardAppend, ForwardUpsert, ForwardEnd, CloseEvents, CloseDone,
       Holding, Ending
  <2> QED BY <1>3, <2>1, <2>2 DEF Forward
<1>4. ASSUME NEW w \in Waiters, WaitCall(w) \/ WaitProceeds(w) \/ WaitGivesUp(w) PROVE CountInv'
  <2>1. CASE WaitMerge(w)
    <3>1. record'.dropped = record.dropped
      BY <2>1 DEF WaitMerge, RecordOK
    <3> QED BY <2>1, <3>1, CountStays DEF WaitMerge, waitStep
  <2>2. CASE WaitCall(w) \/ WaitInner(w) \/ WaitGivesUp(w) \/ WaitClone(w) \/ WaitUpsert(w) \/
            WaitReturn(w)
    BY <2>2, CountStays DEF WaitCall, waitStep, WaitInner, WaitGivesUp, WaitClone, WaitUpsert,
       WaitReturn
  <2> QED BY <1>4, <2>1, <2>2 DEF WaitProceeds
<1>5. ASSUME NEW c \in Callers, CancelContext(c) \/ CancelInner(c) PROVE CountInv'
  BY <1>5, CountStays DEF CancelContext, CancelInner, endCtx
<1>6. CASE InnerRuns
  BY <1>6, CountStays DEF InnerRuns, InnerSettles, InnerCloses, InnerStops, outside
<1>7. ASSUME NEW why \in CtxCauses, ContextEnds(why) PROVE CountInv'
  BY <1>7, CountStays DEF ContextEnds, outside
<1>8. CASE Consume
  BY <1>8, CountStays DEF Consume, outside
<1>9. CASE StoreMoves
  BY <1>9, CountStays DEF StoreMoves, outside
<1>10. CASE UNCHANGED vars
  BY <1>10, CountStays DEF vars
<1> QED BY <1>1, <1>2, <1>3, <1>4, <1>5, <1>6, <1>7, <1>8, <1>9, <1>10 DEF Next, Receive

\* Calls of Wait that overlap are noticed.
LEMMA AloneStep == TypeInv /\ AloneInv /\ [Next]_vars => AloneInv'
<1> SUFFICES ASSUME TypeInv, AloneInv, [Next]_vars PROVE AloneInv'
  OBVIOUS
<1> USE DEF TypeInv
<1>1. CASE StartRun
  BY <1>1 DEF StartRun, AloneInv, waits, PlacesOK
<1>2. ASSUME seq < Len(Kinds), NEW k \in Kinds[seq + 1], NEW i \in InnerIds,
             NEW failing \in {{}, {TRUE}, {FALSE}},
             ForwardReceive([kind |-> k, id |-> i], failing)
      PROVE  AloneInv'
  BY <1>2 DEF ForwardReceive, AloneInv, waits, PlacesOK
<1>3. CASE Forward
  <2>1. CASE ForwardAppend \/ ForwardUpsert \/ ForwardSend \/ ForwardBlocked \/ ForwardEnd \/
            CloseEvents \/ CloseDone
    BY <2>1 DEF ForwardAppend, AppendEvent, ForwardUpsert, ForwardSend, passOn, giveUp,
       dropOrWait, ForwardBlocked, ForwardEnd, CloseEvents, CloseDone, AloneInv, waits, PlacesOK
  <2> QED BY <1>3, <2>1 DEF Forward
<1>4. ASSUME NEW w \in Waiters, WaitCall(w) \/ WaitProceeds(w) \/ WaitGivesUp(w) PROVE AloneInv'
  <2>1. CASE WaitCall(w)
    BY <2>1 DEF WaitCall, waitStep, AloneInv, waits, PlacesOK
  <2>2. CASE WaitInner(w) \/ WaitGivesUp(w) \/ WaitMerge(w) \/ WaitClone(w) \/ WaitUpsert(w) \/
            WaitReturn(w)
    BY <2>2 DEF WaitInner, waitStep, WaitGivesUp, WaitMerge, WaitClone, WaitUpsert, WaitReturn,
       AloneInv, waits, PlacesOK
  <2> QED BY <1>4, <2>1, <2>2 DEF WaitProceeds
<1>5. ASSUME NEW c \in Callers, CancelContext(c) \/ CancelInner(c) PROVE AloneInv'
  BY <1>5 DEF CancelContext, CancelInner, endCtx, AloneInv, waits, PlacesOK
<1>6. CASE InnerRuns
  BY <1>6 DEF InnerRuns, InnerSettles, InnerCloses, InnerStops, outside, Inner!Settle,
     Inner!AskStop, Inner!CloseDone, Inner!CloseEvents, AloneInv, waits, PlacesOK
<1>7. ASSUME NEW why \in CtxCauses, ContextEnds(why) PROVE AloneInv'
  BY <1>7 DEF ContextEnds, outside, AloneInv, waits, PlacesOK
<1>8. CASE Consume
  BY <1>8 DEF Consume, outside, AloneInv, waits, PlacesOK
<1>9. CASE StoreMoves
  BY <1>9 DEF StoreMoves, outside, AloneInv, waits, PlacesOK
<1>10. CASE UNCHANGED vars
  BY <1>10 DEF vars, AloneInv, waits, PlacesOK
<1> QED BY <1>1, <1>2, <1>3, <1>4, <1>5, <1>6, <1>7, <1>8, <1>9, <1>10 DEF Next, Receive

\* The errors stand while the calls, the record and the result do.
LEMMA ErrorStays ==
  ASSUME FlowInv, ErrorInv, UNCHANGED <<wpc, got, ret, waitErr, record, shared>>,
         iDone => iDone' /\ UNCHANGED iResult
  PROVE  ErrorInv'
<1> SUFFICES ASSUME NEW v \in Waiters PROVE MergedError(v)' /\ ReturnedError(v)'
  BY DEF ErrorInv
<1>1. MergedError(v) /\ ReturnedError(v) /\ (got[v] # GaveUp => iDone)
  BY DEF ErrorInv, FlowInv
<1>2. mergeRequiredObserverError(got[v].err)' = mergeRequiredObserverError(got[v].err)
  BY DEF mergeRequiredObserverError
<1>3. iDone => mergeRequiredObserverError(iResult.err)' = mergeRequiredObserverError(iResult.err)
  BY DEF mergeRequiredObserverError
<1> HIDE DEF mergeRequiredObserverError
<1> QED BY <1>1, <1>2, <1>3 DEF MergedError, ReturnedError

\* The errors that Wait merges, keeps and returns.
LEMMA ErrorStep == TypeInv /\ FlowInv /\ AloneInv /\ ErrorInv /\ [Next]_vars => ErrorInv'
<1> SUFFICES ASSUME TypeInv, FlowInv, AloneInv, ErrorInv, [Next]_vars PROVE ErrorInv'
  OBVIOUS
<1> USE DEF TypeInv
<1>1. CASE StartRun
  BY <1>1, ErrorStays DEF StartRun
<1>2. ASSUME seq < Len(Kinds), NEW k \in Kinds[seq + 1], NEW i \in InnerIds,
             NEW failing \in {{}, {TRUE}, {FALSE}},
             ForwardReceive([kind |-> k, id |-> i], failing)
      PROVE  ErrorInv'
  BY <1>2 DEF ForwardReceive, FlowInv, ErrorInv, MergedError, ReturnedError
<1>3. CASE Forward
  <2>1. CASE ForwardSend
    BY <2>1 DEF ForwardSend, FlowInv, ErrorInv, MergedError, ReturnedError
  <2>2. CASE ForwardBlocked
    BY <2>2 DEF ForwardBlocked, FlowInv, ErrorInv, MergedError, ReturnedError
  <2>3. CASE ForwardAppend \/ ForwardUpsert \/ ForwardEnd \/ CloseEvents \/ CloseDone
    BY <2>3, ErrorStays DEF ForwardAppend, AppendEvent, ForwardUpsert, ForwardEnd, CloseEvents,
       CloseDone
  <2> QED BY <1>3, <2>1, <2>2, <2>3 DEF Forward
<1>4. ASSUME NEW w \in Waiters, WaitCall(w) \/ WaitProceeds(w) \/ WaitGivesUp(w) PROVE ErrorInv'
  <2>1. CASE WaitCall(w)
    <3> SUFFICES ASSUME NEW v \in Waiters PROVE MergedError(v)' /\ ReturnedError(v)'
      BY DEF ErrorInv
    <3>1. MergedError(v) /\ ReturnedError(v) /\ MergedError(w)
      BY DEF ErrorInv
    <3>2. CASE v = w
      BY <2>1, <3>1, <3>2 DEF WaitCall, waitStep, PlacesOK, OutcomesOK, FlowInv, Merged,
         MergedError, ReturnedError, mergeRequiredObserverError
    <3>3. CASE v # w
      BY <2>1, <3>1, <3>3 DEF WaitCall, waitStep, PlacesOK, OutcomesOK, FlowInv, Merged,
         MergedError, ReturnedError, mergeRequiredObserverError, AloneInv, waits
    <3> QED BY <3>2, <3>3
  <2>2. CASE WaitInner(w)
    <3> SUFFICES ASSUME NEW v \in Waiters PROVE MergedError(v)' /\ ReturnedError(v)'
      BY DEF ErrorInv
    <3>1. MergedError(v) /\ ReturnedError(v) /\ MergedError(w)
      BY DEF ErrorInv
    <3>2. CASE v = w
      BY <2>2, <3>1, <3>2 DEF WaitInner, waitStep, PlacesOK, OutcomesOK, FlowInv, Merged,
         MergedError, ReturnedError, mergeRequiredObserverError
    <3>3. CASE v # w
      BY <2>2, <3>1, <3>3 DEF WaitInner, waitStep, PlacesOK, OutcomesOK, FlowInv, Merged,
         MergedError, ReturnedError, mergeRequiredObserverError, AloneInv, waits
    <3> QED BY <3>2, <3>3
  <2>3. CASE WaitGivesUp(w)
    <3> SUFFICES ASSUME NEW v \in Waiters PROVE MergedError(v)' /\ ReturnedError(v)'
      BY DEF ErrorInv
    <3>1. MergedError(v) /\ ReturnedError(v) /\ MergedError(w)
      BY DEF ErrorInv
    <3>2. CASE v = w
      BY <2>3, <3>1, <3>2 DEF WaitGivesUp, waitStep, PlacesOK, OutcomesOK, FlowInv, Merged,
         MergedError, ReturnedError, mergeRequiredObserverError
    <3>3. CASE v # w
      BY <2>3, <3>1, <3>3 DEF WaitGivesUp, waitStep, PlacesOK, OutcomesOK, FlowInv, Merged,
         MergedError, ReturnedError, mergeRequiredObserverError, AloneInv, waits
    <3> QED BY <3>2, <3>3
  <2>4. CASE WaitMerge(w)
    <3> SUFFICES ASSUME NEW v \in Waiters PROVE MergedError(v)' /\ ReturnedError(v)'
      BY DEF ErrorInv
    <3>1. MergedError(v) /\ ReturnedError(v) /\ MergedError(w)
      BY DEF ErrorInv
    <3>2. /\ done /\ wpc[w] = "drain" /\ wpc' = [wpc EXCEPT ![w] = "clone"]
          /\ waitErr' = mergeRequiredObserverError(got[w].err)
          /\ UNCHANGED <<got, ret, shared, iDone, iResult>>
      BY <2>4 DEF WaitMerge, waitStep
    <3>3. record'.failures = record.failures
      BY <2>4 DEF WaitMerge, RecordOK
    <3>4. /\ mergeRequiredObserverError(got[v].err)' = mergeRequiredObserverError(got[v].err)
          /\ mergeRequiredObserverError(iResult.err)' = mergeRequiredObserverError(iResult.err)
      BY <3>2, <3>3 DEF mergeRequiredObserverError
    <3>5. waitErr' = "ctx" \/ (iDone /\ waitErr' = mergeRequiredObserverError(iResult.err))
      <4>1. CASE got[w] = GaveUp
        BY <3>2, <4>1 DEF GaveUp, mergeRequiredObserverError
      <4>2. CASE got[w] # GaveUp
        BY <3>2, <4>2 DEF FlowInv
      <4> QED BY <4>1, <4>2
    <3>6. ReturnedError(v)'
      BY <3>1, <3>2, <3>4 DEF ReturnedError, PlacesOK
    <3>7. MergedError(v)'
      <4>1. CASE v = w
        BY <4>1, <3>2, <3>4, <3>5 DEF MergedError
      <4>2. CASE v # w
        <5>1. wpc'[v] = wpc[v]
          BY <4>2, <3>2 DEF PlacesOK
        <5>2. wpc[v] \in Merged => v \in shared
          BY <4>2, <3>2 DEF AloneInv, waits, Merged
        <5> QED BY <5>1, <5>2, <3>2, <3>4, <3>5 DEF MergedError
      <4> QED BY <4>1, <4>2
    <3> QED BY <3>6, <3>7
  <2>5. CASE WaitClone(w)
    <3> SUFFICES ASSUME NEW v \in Waiters PROVE MergedError(v)' /\ ReturnedError(v)'
      BY DEF ErrorInv
    <3>1. MergedError(v) /\ ReturnedError(v) /\ MergedError(w)
      BY DEF ErrorInv
    <3>2. CASE v = w
      BY <2>5, <3>1, <3>2 DEF WaitClone, waitStep, PlacesOK, OutcomesOK, FlowInv, Merged,
         MergedError, ReturnedError, mergeRequiredObserverError
    <3>3. CASE v # w
      BY <2>5, <3>1, <3>3 DEF WaitClone, waitStep, PlacesOK, OutcomesOK, FlowInv, Merged,
         MergedError, ReturnedError, mergeRequiredObserverError, AloneInv, waits
    <3> QED BY <3>2, <3>3
  <2>6. CASE WaitUpsert(w)
    <3> SUFFICES ASSUME NEW v \in Waiters PROVE MergedError(v)' /\ ReturnedError(v)'
      BY DEF ErrorInv
    <3>1. MergedError(v) /\ ReturnedError(v) /\ MergedError(w)
      BY DEF ErrorInv
    <3>2. CASE v = w
      BY <2>6, <3>1, <3>2 DEF WaitUpsert, waitStep, PlacesOK, OutcomesOK, FlowInv, Merged,
         MergedError, ReturnedError, mergeRequiredObserverError
    <3>3. CASE v # w
      BY <2>6, <3>1, <3>3 DEF WaitUpsert, waitStep, PlacesOK, OutcomesOK, FlowInv, Merged,
         MergedError, ReturnedError, mergeRequiredObserverError, AloneInv, waits
    <3> QED BY <3>2, <3>3
  <2>7. CASE WaitReturn(w)
    <3> SUFFICES ASSUME NEW v \in Waiters PROVE MergedError(v)' /\ ReturnedError(v)'
      BY DEF ErrorInv
    <3>1. MergedError(v) /\ ReturnedError(v) /\ MergedError(w)
      BY DEF ErrorInv
    <3>2. CASE v = w
      BY <2>7, <3>1, <3>2 DEF WaitReturn, waitStep, PlacesOK, OutcomesOK, FlowInv, Merged,
         MergedError, ReturnedError, mergeRequiredObserverError
    <3>3. CASE v # w
      BY <2>7, <3>1, <3>3 DEF WaitReturn, waitStep, PlacesOK, OutcomesOK, FlowInv, Merged,
         MergedError, ReturnedError, mergeRequiredObserverError, AloneInv, waits
    <3> QED BY <3>2, <3>3
  <2> QED BY <1>4, <2>1, <2>2, <2>3, <2>4, <2>5, <2>6, <2>7 DEF WaitProceeds
<1>5. ASSUME NEW c \in Callers, CancelContext(c) \/ CancelInner(c) PROVE ErrorInv'
  BY <1>5, ErrorStays DEF CancelContext, CancelInner, endCtx
<1>6. CASE InnerRuns
  BY <1>6, ErrorStays, OutcomeIsOne DEF InnerRuns, InnerSettles, InnerCloses, InnerStops, outside,
     Inner!Settle, Inner!AskStop, Inner!CloseDone, Inner!CloseEvents, FlowInv
<1>7. ASSUME NEW why \in CtxCauses, ContextEnds(why) PROVE ErrorInv'
  BY <1>7, ErrorStays DEF ContextEnds, outside
<1>8. CASE Consume
  BY <1>8, ErrorStays DEF Consume, outside
<1>9. CASE StoreMoves
  BY <1>9, ErrorStays DEF StoreMoves, outside
<1>10. CASE UNCHANGED vars
  BY <1>10, ErrorStays DEF vars
<1> QED BY <1>1, <1>2, <1>3, <1>4, <1>5, <1>6, <1>7, <1>8, <1>9, <1>10 DEF Next, Receive

-----------------------------------------------------------------------------
(* What is found in the store.                                             *)

\* A run that is not evicted keeps its record and its events when others are.
LEMMA EvictKeepsRun ==
  ASSUME NEW o, NEW c, NEW n, evictCompleted(o, c, n), NEW x \in Ids
  PROVE  /\ evicted \subseteq evicted'
         /\ x \notin evicted' => completed'[x] = c[x] /\ stored'[x] = stored[x]
  BY DEF evictCompleted

\* UpsertRun keeps the events of a run that is not evicted.
LEMMA UpsertKeepsLog ==
  ASSUME NEW id, NEW status, UpsertRun(id, status), NEW x \in Ids
  PROVE  evicted \subseteq evicted' /\ (x \notin evicted' => stored'[x] = stored[x])
<1>1. CASE status \in Terminal
  <2>1. PICK n \in 0 .. Len(order) :
          evictCompleted(appended(id), [completed EXCEPT ![id] = status], n)
    BY <1>1 DEF UpsertRun
  <2> QED BY <2>1, EvictKeepsRun
<1>2. CASE status \notin Terminal
  BY <1>2 DEF UpsertRun
<1> QED BY <1>1, <1>2

\* So does looking a run up, which also keeps its record.
LEMMA InspectKeepsRun ==
  ASSUME Inspect, NEW x \in Ids
  PROVE  /\ evicted \subseteq evicted' /\ UNCHANGED active
         /\ x \notin evicted' => completed'[x] = completed[x] /\ stored'[x] = stored[x]
<1>1. PICK n \in 0 .. Len(order) : evictCompleted(order, completed, n)
  BY DEF Inspect
<1> QED BY <1>1, EvictKeepsRun DEF Inspect

\* A run that is stored with a terminal status is found with it, and is active no
\* longer.
LEMMA UpsertFinds ==
  ASSUME StoreInv, NEW id \in Ids, NEW status \in Terminal, UpsertRun(id, status)
  PROVE  id \notin active' /\ (id \in evicted' \/ completed'[id] = status)
<1> DEFINE c == [completed EXCEPT ![id] = status]
<1>1. PICK n \in 0 .. Len(order) : evictCompleted(appended(id), c, n)
  BY DEF UpsertRun
<1>2. id \notin active'
  BY DEF UpsertRun
<1>3. c[id] = status
  BY DEF StoreInv, StoreTypeOK
<1> HIDE DEF c
<1>4. id \notin evicted' => completed'[id] = c[id]
  BY <1>1, EvictKeepsRun
<1> QED BY <1>2, <1>3, <1>4

\* a is the log of the events m + 1 to m + l of u.
isLog(a, u, m, l) == \A i \in 1 .. l : a[i] = [n |-> m + i, raw |-> u[m + i].raw]

\* A log that holds the events m + 1 to n holds those to n + 1 with the next one.
LEMMA LogGrows ==
  ASSUME NEW u \in Seq(Kind), NEW n \in Nat, n + 1 <= Len(u), NEW m \in 0 .. n,
         NEW s \in Seq(EventRecord), s = recordsOf(u, m, n),
         NEW e, e = [n |-> n + 1, raw |-> u[n + 1].raw],
         NEW l \in Nat, m + l = n + 1
  PROVE  /\ e \in EventRecord
         /\ Append(s, e) \in Seq(EventRecord) /\ Len(s) + 1 = l /\ Len(Append(s, e)) = l
         /\ isLog(Append(s, e), u, m, l)
<1>1. u[n + 1] \in Kind
  BY ElementOfSeq, LenProperties
<1>2. e \in EventRecord
  BY <1>1 DEF EventRecord, Kind
<1>3. /\ Append(s, e) \in Seq(EventRecord) /\ Len(Append(s, e)) = Len(s) + 1
      /\ Append(s, e)[Len(s) + 1] = e
      /\ \A i \in 1 .. Len(s) : Append(s, e)[i] = s[i]
  BY <1>2, AppendProperties
<1>4. DOMAIN s = 1 .. Len(s) /\ Len(s) \in Nat
  BY LenProperties
<1>5. DOMAIN s = 1 .. n - m /\ \A i \in 1 .. n - m : s[i] = [n |-> m + i, raw |-> u[m + i].raw]
  BY Zenon DEF recordsOf
<1>6. Len(s) = n - m /\ Len(s) + 1 = l
  <2>1. n - m \in Nat /\ 1 .. Len(s) = 1 .. n - m
    BY <1>4, <1>5
  <2>2. Len(s) = n - m
    BY <1>4, <2>1
  <2> QED BY <2>2
<1>7. ASSUME NEW i \in 1 .. l PROVE Append(s, e)[i] = [n |-> m + i, raw |-> u[m + i].raw]
  <2>1. CASE i = l
    BY <1>3, <1>6, <2>1, Zenon
  <2>2. CASE i # l
    <3>1. i \in 1 .. n - m /\ i \in 1 .. Len(s)
      BY <1>6, <2>2
    <3> QED BY <1>3, <1>5, <3>1, Zenon
  <2> QED BY <2>1, <2>2
<1> QED BY <1>2, <1>3, <1>6, <1>7 DEF isLog

\* What is over a limit with the events up to n is over it with one more.
LEMMA StillOver ==
  ASSUME NEW u \in Seq(Kind), NEW n \in Nat, n + 1 <= Len(u), NEW l \in 0 .. n, over(u, l, n)
  PROVE  over(u, l, n + 1)
<1>1. \A i \in 1 .. n + 1 : u[i].raw \in Nat
  <2>1. Len(u) \in Nat /\ \A i \in 1 .. Len(u) : u[i] \in Kind
    BY LenProperties, ElementOfSeq
  <2> QED BY <2>1 DEF Kind
<1>2. bytes(u, l + 1, n + 1) = bytes(u, l + 1, n) + bytes(u, n + 1, n + 1)
  <2>1. /\ l + 1 \in Int /\ n \in Int /\ n + 1 \in Int /\ l + 1 <= n + 1 /\ n <= n + 1
        /\ \A i \in l + 1 .. n + 1 : u[i].raw \in Nat
    BY <1>1
  <2> QED BY <2>1, BytesSplit
<1>3. bytes(u, l + 1, n) \in Nat
  <2>1. l + 1 \in Int /\ n \in Int /\ \A i \in l + 1 .. n : u[i].raw \in Nat
    BY <1>1
  <2> QED BY <2>1, BytesType
<1>4. bytes(u, n + 1, n + 1) \in Nat
  <2>1. n + 1 \in Int /\ \A i \in n + 1 .. n + 1 : u[i].raw \in Nat
    BY <1>1
  <2> QED BY <2>1, BytesType
<1> QED BY <1>2, <1>3, <1>4, StoreAssumption
      DEF StoreAssumption, over, eventLimitExceeded, exceeds

\* The first l events of a have the sizes of those of u after the first m.
sameSizes(a, u, m, l) == \A i \in 1 .. l : a[i].raw \in Nat /\ u[m + i].raw = a[i].raw

\* The bytes of a log are those of the events it is of.
LEMMA LogBytes ==
  ASSUME NEW u, NEW a, NEW m \in Nat, NEW l \in Nat, NEW j \in 0 .. l, NEW p, NEW q,
         p = m + j + 1, q = m + l,
         sameSizes(a, u, m, l)
  PROVE  bytes(a, j + 1, l) = bytes(u, p, q)
<1> DEFINE x == j + 1
<1>1. \A i \in x .. l : a[i].raw \in Nat
  BY DEF sameSizes
<1>2. \A i \in x .. l : u[m + i].raw = a[i].raw
  BY DEF sameSizes
<1>3. m \in Int /\ x \in Int /\ l \in Int /\ p = m + x
  OBVIOUS
<1>4. bytes(a, x, l) = bytes(u, p, q)
  <2> HIDE DEF x
  <2> QED BY <1>1, <1>2, <1>3, BytesMoved
<1> QED BY <1>4

\* k is the least number of events to drop from a.
isCut(a, k, l) ==
  /\ ~eventLimitExceeded(l - k, bytes(a, k + 1, l))
  /\ \A j \in 0 .. k - 1 : eventLimitExceeded(l - j, bytes(a, j + 1, l))

\* The log a of the events m + 1 to n + 1, cut to the longest tail within the limits,
\* is again one of the newest events that fit, when those to n were.
LEMMA NewestFit ==
  ASSUME NEW u \in Seq(Kind), NEW n \in Nat, n + 1 <= Len(u), NEW m \in 0 .. n,
         fitFrom(u, m, n),
         NEW a \in Seq(EventRecord), NEW l \in Nat, m + l = n + 1, Len(a) = l,
         isLog(a, u, m, l), NEW k \in 0 .. l, isCut(a, k, l)
  PROVE  /\ m + k \in 0 .. n + 1
         /\ SubSeq(a, k + 1, Len(a)) = recordsOf(u, m + k, n + 1)
         /\ fitFrom(u, m + k, n + 1)
<1>1. m + l = n + 1 /\ n + 1 - (m + k) = l - k /\ m + k \in 0 .. n + 1
  OBVIOUS
<1>2. ASSUME NEW j \in 0 .. l
      PROVE  bytes(a, j + 1, l) = bytes(u, m + j + 1, n + 1) /\ l - j = n + 1 - (m + j)
  <2>1. Len(a) = l /\ \A i \in 1 .. l : a[i] \in EventRecord
    BY ElementOfSeq
  <2>2. \A i \in 1 .. l : a[i].raw \in Nat
    BY <2>1 DEF EventRecord
  <2>3. sameSizes(a, u, m, l)
    <3> SUFFICES ASSUME NEW i \in 1 .. l PROVE u[m + i].raw = a[i].raw
      BY <2>2 DEF sameSizes
    <3>1. a[i] = [n |-> m + i, raw |-> u[m + i].raw]
      BY DEF isLog
    <3> QED BY <3>1
  <2> DEFINE p == m + j + 1
             q == n + 1
  <2>4. m \in Nat /\ p = m + j + 1 /\ q = m + l
    OBVIOUS
  <2>5. bytes(a, j + 1, l) = bytes(u, p, q)
    <3> HIDE DEF p, q
    <3> QED BY <2>3, <2>4, LogBytes
  <2>6. l - j = n + 1 - (m + j)
    OBVIOUS
  <2> QED BY <2>5, <2>6
<1>3. ASSUME NEW j \in 0 .. l
      PROVE  over(u, m + j, n + 1) <=> eventLimitExceeded(l - j, bytes(a, j + 1, l))
  <2>1. bytes(a, j + 1, l) = bytes(u, m + j + 1, n + 1) /\ l - j = n + 1 - (m + j)
    BY <1>2
  <2>2. over(u, m + j, n + 1)
        <=> eventLimitExceeded(n + 1 - (m + j), bytes(u, m + j + 1, n + 1))
    BY DEF over
  <2> QED BY <2>1, <2>2
<1>4. ~over(u, m + k, n + 1)
  BY <1>3 DEF isCut
<1>5. ASSUME NEW i \in 0 .. m + k - 1 PROVE over(u, i, n + 1)
  <2>1. CASE i >= m
    <3>1. i - m \in 0 .. k - 1 /\ i - m \in 0 .. l /\ m + (i - m) = i
      <4>1. i \in Int /\ m \in Int /\ k \in Int /\ i <= m + k - 1 /\ k <= l
        OBVIOUS
      <4>2. i - m >= 0 /\ i - m <= k - 1 /\ i - m \in Int
        BY <2>1, <4>1
      <4> QED BY <4>1, <4>2
    <3>2. over(u, m + (i - m), n + 1)
      BY <1>3, <3>1 DEF isCut
    <3> QED BY <3>1, <3>2
  <2>2. CASE ~(i >= m)
    <3>1. i \in 0 .. m - 1 /\ i \in 0 .. n
      BY <2>2
    <3>2. over(u, i, n)
      BY <3>1 DEF fitFrom
    <3> QED BY <3>1, <3>2, StillOver
  <2> QED BY <2>1, <2>2
<1> DEFINE t == SubSeq(a, k + 1, Len(a))
<1>6. /\ t \in Seq(EventRecord) /\ Len(t) = l - k
      /\ \A i \in 1 .. l - k : t[i] = a[k + i]
  <2>1. k \in 0 .. Len(a)
    OBVIOUS
  <2> QED BY <2>1, TailProperties
<1> HIDE DEF t
<1>7. t = [i \in 1 .. l - k |-> t[i]]
  BY <1>6, LenProperties
<1>8. ASSUME NEW i \in 1 .. l - k PROVE t[i] = [n |-> m + k + i, raw |-> u[m + k + i].raw]
  <2>1. k + i \in 1 .. l /\ m + (k + i) = m + k + i
    OBVIOUS
  <2>2. a[k + i] = [n |-> m + (k + i), raw |-> u[m + (k + i)].raw]
    BY <2>1 DEF isLog
  <2> QED BY <1>6, <2>1, <2>2
<1>9. t = recordsOf(u, m + k, n + 1)
  BY <1>1, <1>7, <1>8 DEF recordsOf
<1> QED BY <1>1, <1>4, <1>5, <1>9 DEF fitFrom, t

-----------------------------------------------------------------------------
(* The conjuncts that hold when the wrapped run uses the id of its handle. *)

\* The record and its clones say the same while nothing about them changes.
LEMMA RecordStays ==
  ASSUME FlowInv, RecordInv, UNCHANGED <<wpc, got, clone, record, shared>>,
         inHand'.id = RunId, iDone => iDone' /\ UNCHANGED iResult
  PROVE  RecordInv'
  BY DEF RecordInv, Told, Fresh, FlowInv

\* What the record and its clones say of the result.
LEMMA RecordInvStep ==
  InnerIds = {RunId} /\ TypeInv /\ FlowInv /\ AloneInv /\ RecordInv /\ [Next]_vars
    => RecordInv'
<1> SUFFICES ASSUME InnerIds = {RunId}, TypeInv, FlowInv, AloneInv, RecordInv, [Next]_vars
             PROVE  RecordInv'
  OBVIOUS
<1> USE DEF TypeInv
<1>1. CASE StartRun
  BY <1>1, RecordStays DEF StartRun, RecordInv
<1>2. ASSUME seq < Len(Kinds), NEW k \in Kinds[seq + 1], NEW i \in InnerIds,
             NEW failing \in {{}, {TRUE}, {FALSE}},
             ForwardReceive([kind |-> k, id |-> i], failing)
      PROVE  RecordInv'
  <2>1. fpc = "range" /\ record'.id = RunId /\ inHand'.id = RunId
    BY <1>2 DEF ForwardReceive, RecordInv, RecordOK
  <2>2. UNCHANGED <<wpc, got>>
    BY <1>2 DEF ForwardReceive
  <2> QED BY <2>1, <2>2 DEF FlowInv, RecordInv, Told, Fresh, Merged
<1>3. CASE Forward
  <2>1. CASE ForwardSend
    <3>1. fpc # "end" /\ record'.id = RunId /\ inHand'.id = RunId
      BY <2>1 DEF ForwardSend, passOn, giveUp, dropOrWait, Nothing, RecordInv, RecordOK
    <3>2. UNCHANGED <<wpc, got>>
      BY <2>1 DEF ForwardSend
    <3> QED BY <3>1, <3>2 DEF FlowInv, RecordInv, Told, Fresh, Merged
  <2>2. CASE ForwardBlocked
    <3>1. fpc # "end" /\ record'.id = RunId /\ inHand'.id = RunId
      BY <2>2 DEF ForwardBlocked, passOn, giveUp, Nothing, RecordInv, RecordOK
    <3>2. UNCHANGED <<wpc, got>>
      BY <2>2 DEF ForwardBlocked
    <3> QED BY <3>1, <3>2 DEF FlowInv, RecordInv, Told, Fresh, Merged
  <2>3. CASE ForwardAppend \/ ForwardUpsert \/ ForwardEnd \/ CloseEvents \/ CloseDone
    BY <2>3, RecordStays DEF ForwardAppend, AppendEvent, ForwardUpsert, ForwardEnd, CloseEvents,
       CloseDone, RecordInv
  <2> QED BY <1>3, <2>1, <2>2, <2>3 DEF Forward
<1>4. ASSUME NEW w \in Waiters, WaitCall(w) \/ WaitProceeds(w) \/ WaitGivesUp(w) PROVE RecordInv'
  <2>1. CASE WaitCall(w)
    <3>1. \A v \in Waiters : Told(v)'
      BY <2>1 DEF WaitCall, waitStep, PlacesOK, OutcomesOK, FlowInv, Merged, RecordInv, Told
    <3>2. \A v \in Waiters : Fresh(v)'
      BY <2>1 DEF WaitCall, waitStep, PlacesOK, ClonesOK, RecordInv, Fresh
    <3>3. record'.id = RunId /\ inHand'.id = RunId
      BY <2>1 DEF WaitCall, waitStep, Merged, RecordInv, Told
    <3> QED BY <3>1, <3>2, <3>3 DEF RecordInv
  <2>2. CASE WaitInner(w)
    <3>1. \A v \in Waiters : Told(v)'
      BY <2>2 DEF WaitInner, waitStep, PlacesOK, OutcomesOK, FlowInv, Merged, RecordInv, Told
    <3>2. \A v \in Waiters : Fresh(v)'
      BY <2>2 DEF WaitInner, waitStep, PlacesOK, ClonesOK, RecordInv, Fresh
    <3>3. record'.id = RunId /\ inHand'.id = RunId
      BY <2>2 DEF WaitInner, waitStep, Merged, RecordInv, Told
    <3> QED BY <3>1, <3>2, <3>3 DEF RecordInv
  <2>3. CASE WaitGivesUp(w)
    <3>1. \A v \in Waiters : Told(v)'
      BY <2>3 DEF WaitGivesUp, waitStep, PlacesOK, OutcomesOK, FlowInv, Merged, RecordInv, Told
    <3>2. \A v \in Waiters : Fresh(v)'
      BY <2>3 DEF WaitGivesUp, waitStep, PlacesOK, ClonesOK, RecordInv, Fresh
    <3>3. record'.id = RunId /\ inHand'.id = RunId
      BY <2>3 DEF WaitGivesUp, waitStep, Merged, RecordInv, Told
    <3> QED BY <3>1, <3>2, <3>3 DEF RecordInv
  <2>4. CASE WaitMerge(w)
    <3>1. /\ wpc[w] = "drain" /\ wpc' = [wpc EXCEPT ![w] = "clone"]
          /\ UNCHANGED <<got, clone, shared, inHand, iDone, iResult>>
      BY <2>4 DEF WaitMerge, waitStep
    <3>2. /\ record'.id = RunId
          /\ record'.status = IF got[w] = GaveUp THEN record.status ELSE iResult.status
      <4>1. CASE got[w] = GaveUp
        BY <2>4, <4>1 DEF WaitMerge, GaveUp, RecordInv, RecordOK
      <4>2. CASE got[w] # GaveUp
        <5>1. got[w] \in Outcomes /\ got[w] = iResult
          BY <4>2 DEF OutcomesOK, FlowInv
        <5>2. got[w].id = RunId /\ got[w].status = iResult.status /\ got[w].status # "none"
          BY <5>1, OutcomeTypes DEF Terminal
        <5> QED BY <2>4, <4>2, <5>2 DEF WaitMerge, RecordInv, RecordOK
      <4> QED BY <4>1, <4>2
    <3>3. \A v \in Waiters : Told(v)'
      BY <3>1, <3>2 DEF PlacesOK, FlowInv, RecordInv, Told, Merged
    <3>4. ASSUME NEW v \in Waiters PROVE Fresh(v)'
      <4>1. v # w /\ wpc'[v] = "upsert" => shared # {}
        BY <3>1 DEF PlacesOK, AloneInv, waits
      <4> QED BY <3>1, <4>1 DEF Fresh, PlacesOK
    <3> QED BY <3>1, <3>2, <3>3, <3>4 DEF RecordInv
  <2>5. CASE WaitClone(w)
    <3>1. \A v \in Waiters : Told(v)'
      BY <2>5 DEF WaitClone, waitStep, PlacesOK, OutcomesOK, FlowInv, Merged, RecordInv, Told
    <3>2. \A v \in Waiters : Fresh(v)'
      BY <2>5 DEF WaitClone, waitStep, PlacesOK, ClonesOK, RecordInv, Fresh
    <3>3. record'.id = RunId /\ inHand'.id = RunId
      BY <2>5 DEF WaitClone, waitStep, Merged, RecordInv, Told
    <3> QED BY <3>1, <3>2, <3>3 DEF RecordInv
  <2>6. CASE WaitUpsert(w)
    <3>1. \A v \in Waiters : Told(v)'
      BY <2>6 DEF WaitUpsert, waitStep, PlacesOK, OutcomesOK, FlowInv, Merged, RecordInv, Told
    <3>2. \A v \in Waiters : Fresh(v)'
      BY <2>6 DEF WaitUpsert, waitStep, PlacesOK, ClonesOK, RecordInv, Fresh
    <3>3. record'.id = RunId /\ inHand'.id = RunId
      BY <2>6 DEF WaitUpsert, waitStep, Merged, RecordInv, Told
    <3> QED BY <3>1, <3>2, <3>3 DEF RecordInv
  <2>7. CASE WaitReturn(w)
    <3>1. \A v \in Waiters : Told(v)'
      BY <2>7 DEF WaitReturn, waitStep, PlacesOK, OutcomesOK, FlowInv, Merged, RecordInv, Told
    <3>2. \A v \in Waiters : Fresh(v)'
      BY <2>7 DEF WaitReturn, waitStep, PlacesOK, ClonesOK, RecordInv, Fresh
    <3>3. record'.id = RunId /\ inHand'.id = RunId
      BY <2>7 DEF WaitReturn, waitStep, Merged, RecordInv, Told
    <3> QED BY <3>1, <3>2, <3>3 DEF RecordInv
  <2> QED BY <1>4, <2>1, <2>2, <2>3, <2>4, <2>5, <2>6, <2>7 DEF WaitProceeds
<1>5. ASSUME NEW c \in Callers, CancelContext(c) \/ CancelInner(c) PROVE RecordInv'
  BY <1>5, RecordStays DEF CancelContext, CancelInner, endCtx, RecordInv
<1>6. CASE InnerRuns
  BY <1>6, RecordStays, OutcomeIsOne DEF InnerRuns, InnerSettles, InnerCloses, InnerStops,
     outside, Inner!Settle, Inner!AskStop, Inner!CloseDone, Inner!CloseEvents, FlowInv, RecordInv
<1>7. ASSUME NEW why \in CtxCauses, ContextEnds(why) PROVE RecordInv'
  BY <1>7, RecordStays DEF ContextEnds, outside, RecordInv
<1>8. CASE Consume
  BY <1>8, RecordStays DEF Consume, outside, RecordInv
<1>9. CASE StoreMoves
  BY <1>9, RecordStays DEF StoreMoves, outside, RecordInv
<1>10. CASE UNCHANGED vars
  BY <1>10, RecordStays DEF vars, RecordInv
<1> QED BY <1>1, <1>2, <1>3, <1>4, <1>5, <1>6, <1>7, <1>8, <1>9, <1>10 DEF Next, Receive

\* The log stands while nothing is logged.
LEMMA LogStays ==
  ASSUME LogInv, logged' = logged, seen' = seen,
         RunId \notin evicted' => RunId \notin evicted /\ stored'[RunId] = stored[RunId]
  PROVE  LogInv'
<1> SUFFICES ASSUME RunId \notin evicted'
             PROVE  \E m \in 0 .. logged' : stored'[RunId] = recordsOf(seen', m, logged')
                                             /\ fitFrom(seen', m, logged')
  BY DEF LogInv, recordsOf, fitFrom, over, bytes, rawData
<1> QED BY DEF LogInv

\* The log of the run has the newest events that fit.
LEMMA LogStep == TypeInv /\ StoreInv /\ CountInv /\ RecordInv /\ LogInv /\ [Next]_vars => LogInv'
<1> SUFFICES ASSUME TypeInv, StoreInv, CountInv, RecordInv, LogInv, [Next]_vars PROVE LogInv'
  OBVIOUS
<1> USE DEF TypeInv
<1>0. RunId \in Ids
  BY ObservedAssumption DEF ObservedAssumption
<1>1. CASE StartRun
  BY <1>0, <1>1, UpsertKeepsLog, LogStays DEF StartRun, logged
<1>2. ASSUME seq < Len(Kinds), NEW k \in Kinds[seq + 1], NEW i \in InnerIds,
             NEW failing \in {{}, {TRUE}, {FALSE}},
             ForwardReceive([kind |-> k, id |-> i], failing)
      PROVE  LogInv'
  <2>1. /\ seq' = seq + 1 /\ fpc = "range" /\ fpc' = "append" /\ seen' = Append(seen, k)
        /\ UNCHANGED <<stored, evicted>>
    BY <1>2 DEF ForwardReceive, storeVars
  <2>2. seq \in Nat /\ Len(seen) = seq /\ k \in Kind /\ seen \in Seq(Kind)
    BY <1>2, KindsAreKinds DEF PlacesOK, RecordOK, CountInv
  <2>3. logged = seq /\ logged' = seq
    BY <2>1, <2>2 DEF logged
  <2>4. \A j \in 1 .. seq : seen'[j] = seen[j]
    BY <2>1, <2>2, AppendProperties
  <2> SUFFICES ASSUME RunId \notin evicted
               PROVE  \E m \in 0 .. seq : stored[RunId] = recordsOf(seen', m, seq)
                                           /\ fitFrom(seen', m, seq)
    BY <2>1, <2>3 DEF LogInv, recordsOf, fitFrom, over, bytes, rawData
  <2>5. PICK m \in 0 .. seq : stored[RunId] = recordsOf(seen, m, seq) /\ fitFrom(seen, m, seq)
    BY <2>3 DEF LogInv
  <2>6. recordsOf(seen', m, seq) = recordsOf(seen, m, seq)
    <3>1. \A j \in 1 .. seq - m : m + j \in 1 .. seq
      BY <2>2
    <3> QED BY <2>4, <3>1 DEF recordsOf
  <2>7. ASSUME NEW l \in 0 .. seq PROVE over(seen', l, seq) <=> over(seen, l, seq)
    <3>1. \A j \in l + 1 .. seq : seen'[j].raw = seen[j].raw
      BY <2>2, <2>4
    <3>2. bytes(seen, l + 1, seq) = bytes(seen', l + 1, seq)
      BY <3>1, BytesSame
    <3> QED BY <3>2 DEF over
  <2>8. fitFrom(seen', m, seq)
    <3>1. \A l \in 0 .. m - 1 : l \in 0 .. seq
      BY <2>2
    <3> QED BY <2>5, <2>7, <3>1 DEF fitFrom
  <2> QED BY <2>5, <2>6, <2>8
<1>3. CASE Forward
  <2>1. CASE ForwardAppend
    <3> DEFINE n == seq - 1
               e == [n |-> seq, raw |-> inHand.kind.raw]
               s == stored[RunId]
               b == rawBytes[RunId] + e.raw
               a == Append(s, e)
               k == dropCount(a, b)
    <3>1. /\ n \in Nat /\ n + 1 = seq /\ seen \in Seq(Kind) /\ Len(seen) = seq
          /\ inHand.kind = seen[seq]
      BY <2>1 DEF ForwardAppend, PlacesOK, RecordOK, CountInv, Holding
    <3>2. inHand.id = RunId /\ logged = n /\ logged' = seq /\ UNCHANGED <<seen, evicted>>
      BY <2>1 DEF ForwardAppend, AppendEvent, RecordInv, logged
    <3>3. s \in Seq(EventRecord) /\ rawBytes[RunId] = bytes(s, 1, Len(s))
      BY <1>0 DEF StoreInv, StoreTypeOK, StoreConsistent
    <3>4. stored'[RunId] = SubSeq(a, k + 1, Len(a))
      BY <1>0, <2>1, <3>2 DEF ForwardAppend, AppendEvent, StoreInv, StoreTypeOK
    <3> HIDE DEF n, e, s, b, a, k
    <3> SUFFICES ASSUME RunId \notin evicted
                 PROVE  \E m \in 0 .. seq : stored'[RunId] = recordsOf(seen, m, seq)
                                             /\ fitFrom(seen, m, seq)
      <4>1. LogInv' <=> (RunId \notin evicted' =>
                           \E m \in 0 .. logged' : /\ stored'[RunId] = recordsOf(seen', m, logged')
                                                    /\ fitFrom(seen', m, logged'))
        BY <3>2 DEF LogInv
      <4> QED BY <3>2, <4>1
    <3>5. PICK m \in 0 .. n : s = recordsOf(seen, m, n) /\ fitFrom(seen, m, n)
      BY <3>2 DEF LogInv, s
    <3>6. e = [n |-> n + 1, raw |-> seen[n + 1].raw] /\ n + 1 <= Len(seen)
      BY <3>1 DEF e
    <3> DEFINE l == n + 1 - m
    <3>7. l \in Nat /\ m + l = n + 1
      BY <3>1
    <3> HIDE DEF l
    <3>8. /\ e \in EventRecord /\ a \in Seq(EventRecord) /\ Len(s) + 1 = l /\ Len(a) = l
          /\ isLog(a, seen, m, l)
      <4>1. seen \in Seq(Kind) /\ n \in Nat /\ n + 1 <= Len(seen) /\ m \in 0 .. n
        BY <3>1, <3>5, <3>6
      <4>2. s \in Seq(EventRecord) /\ s = recordsOf(seen, m, n)
        BY <3>3, <3>5
      <4>3. e = [n |-> n + 1, raw |-> seen[n + 1].raw]
        BY <3>6
      <4>4. /\ e \in EventRecord /\ Append(s, e) \in Seq(EventRecord)
            /\ Len(s) + 1 = l /\ Len(Append(s, e)) = l /\ isLog(Append(s, e), seen, m, l)
        BY <3>7, <4>1, <4>2, <4>3, LogGrows
      <4> QED BY <4>4 DEF a
    <3>9. b = bytes(a, 1, Len(a))
      <4>1. bytes(Append(s, e), 1, Len(s) + 1) = bytes(s, 1, Len(s)) + e.raw
        BY <3>3, <3>8, BytesAppended
      <4> QED BY <3>3, <3>8, <4>1 DEF a, b
    <3>10. /\ k \in 0 .. l /\ ~eventLimitExceeded(l - k, bytes(a, k + 1, l))
           /\ \A j \in 0 .. k - 1 : eventLimitExceeded(l - j, bytes(a, j + 1, l))
      <4>1. k = dropCount(a, b)
        BY DEF k
      <4>2. /\ k \in 0 .. Len(a) /\ ~eventLimitExceeded(Len(a) - k, bytes(a, k + 1, Len(a)))
            /\ \A j \in 0 .. k - 1 : eventLimitExceeded(Len(a) - j, bytes(a, j + 1, Len(a)))
        BY <3>8, <3>9, <4>1, DropOldest
      <4> QED BY <3>8, <4>2
    <3>11. /\ m + k \in 0 .. n + 1 /\ SubSeq(a, k + 1, Len(a)) = recordsOf(seen, m + k, n + 1)
           /\ fitFrom(seen, m + k, n + 1)
      <4>1. m + l = n + 1
        BY <3>7
      <4>2. a \in Seq(EventRecord) /\ Len(a) = l
        BY <3>8
      <4>3. isLog(a, seen, m, l) /\ isCut(a, k, l) /\ k \in 0 .. l
        BY <3>8, <3>10 DEF isCut
      <4>4. seen \in Seq(Kind) /\ n \in Nat /\ n + 1 <= Len(seen)
        BY <3>1, <3>6
      <4>5. m \in 0 .. n /\ fitFrom(seen, m, n)
        BY <3>5
      <4> QED BY <3>7, <4>1, <4>2, <4>3, <4>4, <4>5, NewestFit
    <3> QED BY <3>1, <3>4, <3>11
  <2>2. CASE ForwardUpsert
    <3>1. RunId \notin evicted' => RunId \notin evicted /\ stored'[RunId] = stored[RunId]
      BY <1>0, <2>2, UpsertKeepsLog DEF ForwardUpsert, storeVars
    <3> QED BY <2>2, <3>1, LogStays DEF ForwardUpsert, logged
  <2>3. CASE ForwardSend \/ ForwardBlocked \/ ForwardEnd \/ CloseEvents \/ CloseDone
    BY <2>3, LogStays DEF ForwardSend, passOn, giveUp, dropOrWait, ForwardBlocked, ForwardEnd,
       CloseEvents, CloseDone, storeVars, logged
  <2> QED BY <1>3, <2>1, <2>2, <2>3 DEF Forward
<1>4. ASSUME NEW w \in Waiters, WaitCall(w) \/ WaitProceeds(w) \/ WaitGivesUp(w) PROVE LogInv'
  <2>1. CASE WaitUpsert(w)
    <3>1. RunId \notin evicted' => RunId \notin evicted /\ stored'[RunId] = stored[RunId]
      BY <1>0, <2>1, UpsertKeepsLog DEF WaitUpsert
    <3> QED BY <2>1, <3>1, LogStays DEF WaitUpsert, waitStep, logged
  <2>2. CASE WaitCall(w) \/ WaitInner(w) \/ WaitGivesUp(w) \/ WaitMerge(w) \/ WaitClone(w) \/
            WaitReturn(w)
    BY <2>2, LogStays DEF WaitCall, waitStep, WaitInner, WaitGivesUp, WaitMerge, WaitClone,
       WaitReturn, storeVars, logged
  <2> QED BY <1>4, <2>1, <2>2 DEF WaitProceeds
<1>5. ASSUME NEW c \in Callers, CancelContext(c) \/ CancelInner(c) PROVE LogInv'
  BY <1>5, LogStays DEF CancelContext, CancelInner, storeVars, logged
<1>6. CASE InnerRuns
  BY <1>6, LogStays DEF InnerRuns, InnerSettles, InnerCloses, InnerStops, outside, storeVars,
     logged
<1>7. ASSUME NEW why \in CtxCauses, ContextEnds(why) PROVE LogInv'
  BY <1>7, LogStays DEF ContextEnds, outside, storeVars, logged
<1>8. CASE Consume
  BY <1>8, LogStays DEF Consume, outside, storeVars, logged
<1>9. CASE StoreMoves
  BY <1>0, <1>9, InspectKeepsRun, LogStays DEF StoreMoves, outside, logged
<1>10. CASE UNCHANGED vars
  BY <1>10, LogStays DEF vars, storeVars, logged
<1> QED BY <1>1, <1>2, <1>3, <1>4, <1>5, <1>6, <1>7, <1>8, <1>9, <1>10 DEF Next, Receive

\* A run that is found stays found while the store is only looked at, and when it
\* is stored again with its status.
LEMMA FoundStays ==
  ASSUME StoreInv, RunId \in Ids, found, iResult' = iResult,
         UNCHANGED storeVars \/ Inspect
  PROVE  found'
<1>1. CASE UNCHANGED storeVars
  BY <1>1 DEF found, storeVars
<1>2. CASE Inspect
  BY <1>2, InspectKeepsRun DEF found
<1> QED BY <1>1, <1>2

\* The run is found, and stays found, or it is not yet to be.
LEMMA FoundInvStays ==
  ASSUME StoreInv, FlowInv, FoundInv, UNCHANGED <<wpc, got, shared>>,
         iDone => iDone' /\ UNCHANGED iResult, UNCHANGED storeVars \/ Inspect \/ fpc # "end"
  PROVE  FoundInv'
<1> SUFFICES ASSUME shared = {}, settled PROVE found'
  BY DEF FoundInv, settled
<1>1. found /\ iDone /\ fpc = "end"
  BY DEF FoundInv, FlowInv, Merged, settled
<1> QED BY <1>1, FoundStays, ObservedAssumption DEF ObservedAssumption

\* A run that a caller has got the result of is found.
LEMMA FoundStep ==
  TypeInv /\ StoreInv /\ FlowInv /\ AloneInv /\ RecordInv /\ FoundInv /\ [Next]_vars
    => FoundInv'
<1> SUFFICES ASSUME TypeInv, StoreInv, FlowInv, AloneInv, RecordInv, FoundInv, [Next]_vars
             PROVE  FoundInv'
  OBVIOUS
<1> USE ObservedAssumption DEF TypeInv, ObservedAssumption
<1>1. CASE StartRun
  BY <1>1, FoundInvStays DEF StartRun
<1>2. ASSUME seq < Len(Kinds), NEW k \in Kinds[seq + 1], NEW i \in InnerIds,
             NEW failing \in {{}, {TRUE}, {FALSE}},
             ForwardReceive([kind |-> k, id |-> i], failing)
      PROVE  FoundInv'
  BY <1>2, FoundInvStays DEF ForwardReceive
<1>3. CASE Forward
  <2>1. CASE ForwardAppend \/ ForwardUpsert \/ ForwardSend \/ ForwardBlocked \/ ForwardEnd \/
            CloseEvents \/ CloseDone
    <3>1. fpc # "end"
      BY <2>1 DEF ForwardAppend, ForwardUpsert, ForwardSend, ForwardBlocked, ForwardEnd,
         CloseEvents, CloseDone
    <3>2. UNCHANGED <<wpc, got, shared, iDone, iResult>>
      BY <2>1 DEF ForwardAppend, ForwardUpsert, ForwardSend, ForwardBlocked, ForwardEnd,
         CloseEvents, CloseDone
    <3> QED BY <3>1, <3>2, FoundInvStays
  <2> QED BY <1>3, <2>1 DEF Forward
<1>4. ASSUME NEW w \in Waiters, WaitCall(w) \/ WaitProceeds(w) \/ WaitGivesUp(w) PROVE FoundInv'
  <2>1. CASE WaitUpsert(w)
    <3> SUFFICES ASSUME shared' = {}, settled' PROVE found'
      BY DEF FoundInv
    <3>1. /\ wpc[w] = "upsert" /\ wpc' = [wpc EXCEPT ![w] = "return"]
          /\ UpsertRun(clone[w].id, clone[w].status)
          /\ UNCHANGED <<got, shared, iDone, iResult>>
      BY <2>1 DEF WaitUpsert, waitStep
    <3>2. clone[w].id = RunId /\ clone[w].status = record.status
      BY <3>1 DEF RecordInv, Fresh
    <3>3. PICK v \in Waiters : (v = w \/ wpc[v] = "returned") /\ got[v] # GaveUp
      BY <3>1 DEF PlacesOK, AloneInv, waits, settled
    <3>4. iDone /\ record.status = iResult.status
      BY <3>1, <3>3 DEF FlowInv, RecordInv, Told, Merged
    <3>5. iResult.status \in Terminal
      BY <3>4, OutcomeTypes DEF FlowInv, OutcomesOK
    <3>6. RunId \notin active' /\ (RunId \in evicted' \/ completed'[RunId] = iResult.status)
      BY <3>1, <3>2, <3>4, <3>5, UpsertFinds
    <3> QED BY <3>1, <3>6 DEF found
  <2>2. CASE WaitCall(w) \/ WaitInner(w) \/ WaitGivesUp(w) \/ WaitMerge(w) \/ WaitClone(w) \/
            WaitReturn(w)
    <3> SUFFICES ASSUME shared' = {}, settled' PROVE found'
      BY DEF FoundInv
    <3>1. shared = {} /\ UNCHANGED storeVars /\ UNCHANGED iResult
      BY <2>2 DEF WaitCall, waitStep, WaitInner, WaitGivesUp, WaitMerge, WaitClone, WaitReturn
    <3>2. PICK v \in Waiters : wpc'[v] \in {"return", "returned"} /\ got'[v] # GaveUp
      BY DEF settled
    <3>3. wpc[v] \in {"return", "returned"} /\ got[v] = got'[v]
      BY <2>2, <3>2 DEF WaitCall, waitStep, WaitInner, WaitGivesUp, WaitMerge, WaitClone,
         WaitReturn, PlacesOK, OutcomesOK
    <3> QED BY <3>1, <3>2, <3>3, FoundStays DEF FoundInv, settled
  <2> QED BY <1>4, <2>1, <2>2 DEF WaitProceeds
<1>5. ASSUME NEW c \in Callers, CancelContext(c) \/ CancelInner(c) PROVE FoundInv'
  BY <1>5, FoundInvStays DEF CancelContext, CancelInner, endCtx
<1>6. CASE InnerRuns
  BY <1>6, FoundInvStays, OutcomeIsOne DEF InnerRuns, InnerSettles, InnerCloses, InnerStops,
     outside, Inner!Settle, Inner!AskStop, Inner!CloseDone, Inner!CloseEvents, FlowInv
<1>7. ASSUME NEW why \in CtxCauses, ContextEnds(why) PROVE FoundInv'
  BY <1>7, FoundInvStays DEF ContextEnds, outside
<1>8. CASE Consume
  BY <1>8, FoundInvStays DEF Consume, outside
<1>9. CASE StoreMoves
  BY <1>9, FoundInvStays DEF StoreMoves, outside
<1>10. CASE UNCHANGED vars
  BY <1>10, FoundInvStays DEF vars
<1> QED BY <1>1, <1>2, <1>3, <1>4, <1>5, <1>6, <1>7, <1>8, <1>9, <1>10 DEF Next, Receive

-----------------------------------------------------------------------------
(* The theorems.                                                           *)

ObserverInv == TypeInv /\ StoreInv /\ FlowInv /\ CountInv /\ AloneInv /\ ErrorInv

SameIdInv == RecordInv /\ LogInv /\ FoundInv

\* The parts of the type invariant hold at first.
LEMMA TypeInit == Init => TypeInv
<1> SUFFICES ASSUME Init PROVE TypeInv
  OBVIOUS
<1> USE ObservedAssumption DEF ObservedAssumption, Init
<1>1. FlagsOK
  BY DEF FlagsOK
<1>2. PlacesOK
  BY DEF PlacesOK
<1>3. RecordOK
  BY DEF RecordOK, RecordStatus, Nothing, Kind
<1>4. OutcomesOK
  BY DEF OutcomesOK
<1>5. ClonesOK
  BY DEF ClonesOK, NoClone, RecordStatus
<1> QED BY <1>1, <1>2, <1>3, <1>4, <1>5 DEF TypeInv

\* The store of the run is consistent at first: it has one completed run.
LEMMA StoreInitially == Init => StoreInv
<1> SUFFICES ASSUME Init PROVE StoreInv
  OBVIOUS
<1>1. /\ order = <<OtherId>> /\ OtherId \in Ids /\ active = {} /\ evicted = {}
      /\ completed = [id \in Ids |-> IF id = OtherId THEN "completed" ELSE "absent"]
      /\ stored = [id \in Ids |-> <<>>] /\ rawBytes = [id \in Ids |-> 0]
  BY ObservedAssumption DEF ObservedAssumption, Init
<1>2. order \in Seq(Ids) /\ Len(order) = 1 /\ order[1] = OtherId
  BY <1>1
<1>3. StoreTypeOK
  BY <1>1, <1>2 DEF StoreTypeOK, Terminal
<1>4. {order[k] : k \in 1 .. Len(order)} = {id \in Ids : completed[id] # "absent"}
  <2>1. 1 .. Len(order) = {1}
    BY <1>2
  <2>2. {order[k] : k \in 1 .. Len(order)} = {OtherId}
    BY <1>2, <2>1
  <2>3. {id \in Ids : completed[id] # "absent"} = {OtherId}
    BY <1>1
  <2> QED BY <2>2, <2>3
<1>5. LogsConsistent
  <2>1. Len(<<>>) = 0 /\ bytes(<<>>, 1, 0) = 0
    BY BytesOfNone
  <2>2. ~eventLimitExceeded(0, 0)
    BY StoreAssumption DEF StoreAssumption, eventLimitExceeded, exceeds
  <2>3. \A id \in Ids : stored[id] = <<>> /\ rawBytes[id] = 0
    BY <1>1
  <2> QED BY <2>1, <2>2, <2>3 DEF LogsConsistent
<1>6. ~exceeds(Len(order), MaxCompletedRuns)
  BY <1>2, StoreAssumption DEF StoreAssumption, exceeds
<1> QED BY <1>2, <1>3, <1>4, <1>5, <1>6 DEF StoreInv, StoreConsistent, LogsConsistent

\* So are the other conjuncts true at first.
LEMMA ObserverInit == Init => ObserverInv
<1> SUFFICES ASSUME Init PROVE ObserverInv
  OBVIOUS
<1>1. FlowInv
  BY DEF Init, FlowInv, Merged
<1>2. CountInv
  <2>1. seq = 0 /\ seen = <<>> /\ passed = {} /\ fpc = "none" /\ record.dropped = 0
    BY DEF Init
  <2>2. lost = {} /\ Len(<<>>) = 0
    BY <2>1 DEF lost, Holding
  <2>3. Cardinality({}) = 0
    BY FS_EmptySet
  <2>4. Counted(lost)
    BY <2>1, <2>2, <2>3 DEF Counted
  <2> QED BY <2>1, <2>2, <2>4 DEF CountInv, Holding
<1>3. AloneInv
  BY DEF Init, AloneInv, waits
<1>4. ErrorInv
  BY DEF Init, ErrorInv, MergedError, ReturnedError, Merged
<1> QED BY TypeInit, StoreInitially, <1>1, <1>2, <1>3, <1>4 DEF ObserverInv

\* Every conjunct is kept by every step.
LEMMA ObserverStep == ObserverInv /\ [Next]_vars => ObserverInv'
<1> SUFFICES ASSUME ObserverInv, [Next]_vars PROVE ObserverInv'
  OBVIOUS
<1>1. TypeInv'
  BY FlagsStep, PlacesStep, RecordStep, OutcomesStep, ClonesStep DEF ObserverInv, TypeInv
<1> QED BY <1>1, StoreStep, FlowStep, CountStep, AloneStep, ErrorStep DEF ObserverInv

\* The invariant holds throughout.
LEMMA ObserverInvariance == Spec => []ObserverInv
  BY ObserverInit, ObserverStep, PTL DEF Spec

\* The invariant of a run that puts the id of its handle on everything.
LEMMA SameIdInit == Init => SameIdInv
<1> SUFFICES ASSUME Init PROVE SameIdInv
  OBVIOUS
<1>1. RecordInv
  BY DEF Init, RecordInv, Told, Fresh, Merged, Nothing
<1>2. FoundInv
  BY DEF Init, FoundInv, settled
<1>3. logged = 0 /\ RunId \in Ids /\ stored[RunId] = <<>> /\ seen = <<>>
  BY ObservedAssumption DEF ObservedAssumption, Init, logged
<1>4. <<>> = recordsOf(<<>>, 0, 0) /\ fitFrom(<<>>, 0, 0)
  <2>1. bytes(<<>>, 1, 0) = 0
    BY BytesOfNone
  <2>2. ~eventLimitExceeded(0, 0)
    BY StoreAssumption DEF StoreAssumption, eventLimitExceeded, exceeds
  <2>3. <<>> = recordsOf(<<>>, 0, 0)
    BY DEF recordsOf
  <2> QED BY <2>1, <2>2, <2>3 DEF fitFrom, over
<1>5. LogInv
  BY <1>3, <1>4 DEF LogInv
<1> QED BY <1>1, <1>2, <1>5 DEF SameIdInv

\* Every step of such a run keeps it.
LEMMA SameIdStep ==
  ASSUME InnerIds = {RunId}
  PROVE  ObserverInv /\ SameIdInv /\ [Next]_vars => SameIdInv'
  BY RecordInvStep, LogStep, FoundStep DEF ObserverInv, SameIdInv

\* Every variable of the run and of the store stays in its range; that of passed
\* needs CountInv.
THEOREM ObservedTypeCorrect == Spec => []TypeOK
<1>1. ObserverInv => TypeOK
  <2> SUFFICES ASSUME ObserverInv PROVE TypeOK
    OBVIOUS
  <2>1. passed \subseteq 1 .. Len(Kinds)
    <3>1. Len(Kinds) \in Nat
      BY ObservedAssumption, LenProperties DEF ObservedAssumption
    <3> QED BY <3>1 DEF ObserverInv, TypeInv, PlacesOK, CountInv
  <2> QED BY <2>1 DEF TypeOK, ObserverInv, TypeInv, StoreInv, FlagsOK, PlacesOK, RecordOK,
     OutcomesOK, ClonesOK
<1> QED BY <1>1, ObserverInvariance, PTL

\* The store that an observed run writes its record and its events to stays
\* consistent, whatever ids the wrapped run uses.
THEOREM ObservedStoreConsistent == Spec => []StoreConsistent
<1>1. ObserverInv => StoreConsistent
  BY DEF ObserverInv, StoreInv
<1> QED BY <1>1, ObserverInvariance, PTL

\* A call of Wait that no other one overlaps returns exactly the error due to it, for
\* any number of calls before and after it: that of a required sink when the run
\* succeeded, and never that of a best-effort one.  A call that another one overlaps
\* returns the error due to it, the one due to a call that got the result, or the
\* end of another call's context: Wait reads r.waitErr after the lock is given up.
THEOREM SinkErrorsReturned == Spec => []SinkErrorReturned
<1>1. ObserverInv => SinkErrorReturned
  <2> SUFFICES ASSUME ObserverInv, NEW w \in Waiters, wpc[w] = "returned"
               PROVE  \/ ret[w] = dueError(got[w].err)
                      \/ /\ w \in shared
                         /\ ret[w] = "ctx" \/ (iDone /\ ret[w] = dueError(iResult.err))
    BY DEF SinkErrorReturned
  <2>1. ReturnedError(w)
    BY DEF ObserverInv, ErrorInv
  <2>2. /\ mergeRequiredObserverError(got[w].err) = dueError(got[w].err)
        /\ mergeRequiredObserverError(iResult.err) = dueError(iResult.err)
    BY DEF mergeRequiredObserverError, dueError
  <2> QED BY <2>1, <2>2 DEF ReturnedError
<1> QED BY <1>1, ObserverInvariance, PTL

\* Over a run that puts its own id on its events and its result, as the adapter's
\* does, a run whose result a caller of Wait has got is found in the store with
\* that result until it is evicted, also while Wait is called again.
THEOREM CompletedRunIsFound ==
  ASSUME InnerIds = {RunId}
  PROVE  Spec => []CompletedIsFound
<1>1. SameIdInv => CompletedIsFound
  BY DEF SameIdInv, FoundInv, found, settled, CompletedIsFound
<1> QED BY <1>1, ObserverInvariance, SameIdInit, SameIdStep, PTL DEF Spec

\* Over such a run, and for every limit on the events and on their raw data, the
\* store has the longest part of the run's events that ends with the newest and keeps
\* both limits, in order and each with its own data, whatever the stream lost; and
\* what the stream lost is droppable and in DroppedEventCount, or the one event that
\* the end of the context cut off.
THEOREM EventsAreAccounted ==
  ASSUME InnerIds = {RunId}
  PROVE  Spec => []EventsAccounted
<1>1. SameIdInv => LogIsNewest
  <2> SUFFICES ASSUME LogInv PROVE LogIsNewest
    BY DEF SameIdInv
  <2>1. \A m, n : fits(m, n) <=> ~over(seen, m, n)
    BY DEF fits, over, eventLimitExceeded
  <2> QED BY <2>1 DEF LogInv, LogIsNewest, logged, recordsOf, fitFrom
<1>2. ObserverInv => StreamLacksDropped
  <2> SUFFICES ASSUME CountInv PROVE StreamLacksDropped
    BY DEF ObserverInv
  <2>1. PICK cut \in {{}, {seq}} : (cut # {} => cause # "none") /\ Counted(lost \ cut)
    <3>1. lost \ {} = lost
      OBVIOUS
    <3> QED BY <3>1 DEF CountInv
  <2>2. cut \in SUBSET {seq}
    OBVIOUS
  <2> QED BY <2>1, <2>2 DEF StreamLacksDropped, lost, Holding, Counted
<1> QED BY <1>1, <1>2, ObserverInvariance, SameIdInit, SameIdStep, PTL DEF Spec, EventsAccounted
=============================================================================
