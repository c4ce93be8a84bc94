---------------------------- MODULE ObservedRun ----------------------------
(***************************************************************************)
(* One run of ObservingRuntime (observability.go) and the store it shares  *)
(* with other runs: the goroutine forward() that projects each event of    *)
(* the wrapped run into a record, gives it to the sinks and the store and  *)
(* passes it on, the callers of Wait, which merge the result into the      *)
(* record, and those of Cancel.  Of the wrapped run only RunContract is    *)
(* assumed.                                                                *)
(***************************************************************************)
EXTENDS MemoryRunStore

CONSTANTS
  Waiters,    \* the calls of Wait, numbered from 1 in the order in which they begin
  Callers,    \* goroutines that may call Cancel
  InnerIds,   \* the ids the wrapped run puts on its events and its result
  Kinds,      \* Kinds[n]: what its n-th event may be
  EventCap,   \* capacity of r.events (64 in the code)
  Loads,      \* bound: how many events, calls of Wait and stops occur together
  CtxCauses   \* how the context given to StartRun may end

\* An event, as far as forward() and the store look at it: is it one that may be
\* dropped (a message or progress), which status does its payload name, if any, and
\* how many bytes of raw data does the persistence policy let into its record.
Kind == [droppable : BOOLEAN, status : RecordStatus \cup {"none"}, raw : Nat]

\* inner.ID(), and the id of another run in the store.
RunId == "run"
OtherId == "other"

ASSUME ObservedAssumption ==
  /\ {RunId, OtherId} \cup InnerIds \subseteq Ids
  /\ EventCap \in Nat \ {0}
  /\ Kinds \in Seq(SUBSET Kind)
  /\ Loads \subseteq [events : Nat, waits : Nat, stops : Nat]
  /\ Waiters \subseteq Nat
  /\ CtxCauses \subseteq {"parent", "timeout"}

Outcomes == [id : InnerIds, status : Terminal, err : {"none", "runtime", "ctx"}]
NoOutcome == [id |-> "none", status |-> "none", err |-> "none"]

\* What inner.Wait returns when the caller's own context ends first.
GaveUp == [id |-> "none", status |-> "none", err |-> "ctx"]

VARIABLES
  record,    \* r.record: id, status, dropped events, the Required flags of SinkFailures
  upserted,  \* r.lastUpsert is set
  waitErr,   \* r.waitErr
  cause,     \* why r.ctx is over; "none" while it is not
  fpc,       \* forward(): program counter
  inHand,    \* forward(): the event it works on, and the id on it
  seq,       \* r.seq: the number of events received
  seen,      \* history: those events
  passed,    \* history: the numbers of those that were put into r.events
  events,    \* the number of events in r.events
  open,      \* r.events is not closed
  done,      \* r.done is closed
  wpc,       \* Wait: program counter of each caller
  got,       \* Wait: what inner.Wait returned to it
  clone,     \* Wait: its clone of the record
  ret,       \* Wait: the error it returned
  shared,    \* history: the calls of Wait that were under way together with another one
  cpc,       \* Cancel: program counter of each caller
  iResult, iDone, iClosed, iStop  \* the wrapped run, as RunContract sees it

seqVars   == <<seq, seen>>
chanVars  == <<events, open, passed>>
waitVars  == <<wpc, got, clone, ret, shared>>
innerVars == <<iResult, iDone, iClosed, iStop>>

vars == <<storeVars, record, upserted, waitErr, cause, fpc, inHand, seqVars, chanVars, done,
          waitVars, cpc, innerVars>>

\* The wrapped run's handle; stopAsked is the end of its context.
Inner == INSTANCE RunContract
  WITH outcome <- iResult, doneClosed <- iDone, eventsClosed <- iClosed, stopAsked <- iStop

Nothing == [kind |-> [droppable |-> FALSE, status |-> "none", raw |-> 0], id |-> RunId]
NoClone == [id |-> RunId, status |-> "starting"]

\* The store has one run in it that completed before this one.
Init ==
  /\ active = {} /\ order = <<OtherId>> /\ evicted = {}
  /\ completed = [id \in Ids |-> IF id = OtherId THEN "completed" ELSE "absent"]
  /\ stored = [id \in Ids |-> <<>>] /\ rawBytes = [id \in Ids |-> 0]
  /\ record = [id |-> RunId, status |-> "starting", dropped |-> 0, failures |-> {}]
  /\ upserted = FALSE /\ waitErr = "none" /\ cause = "none" /\ fpc = "none" /\ inHand = Nothing
  /\ seq = 0 /\ seen = <<>> /\ passed = {}
  /\ events = 0 /\ open = TRUE /\ done = FALSE
  /\ wpc = [w \in Waiters |-> "idle"] /\ got = [w \in Waiters |-> GaveUp]
  /\ clone = [w \in Waiters |-> NoClone] /\ ret = [w \in Waiters |-> "none"]
  /\ shared = {} /\ cpc = [c \in Callers |-> "idle"]
  /\ iResult = NoOutcome /\ iDone = FALSE /\ iClosed = FALSE /\ iStop = FALSE

waits(w) == wpc[w] \notin {"idle", "returned"}

\* A stop is a call of Cancel or the end of the context given to StartRun.
calls == Cardinality({w \in Waiters : wpc[w] # "idle"})
stops == Cardinality({c \in Callers : cpc[c] # "idle"}) + IF cause \in CtxCauses THEN 1 ELSE 0
within(n, c, s) == \E l \in Loads : n <= l.events /\ c <= l.waits /\ s <= l.stops

endCtx(why) == cause' = IF cause = "none" THEN why ELSE cause

\* StartRun: the wrapped run is there, the new record is stored, forward() begins.
StartRun ==
  /\ fpc = "none"
  /\ fpc' = "range"
  /\ UpsertRun(RunId, "starting")
  /\ UNCHANGED <<record, upserted, waitErr, cause, inHand, seqVars, chanVars, done, waitVars, cpc,
                 innerVars>>

-----------------------------------------------------------------------------
(* forward().                                                              *)

\* The next event of the wrapped run: eventRecord, applyEventLocked, and the
\* sinks, of which a required (TRUE) or a best-effort (FALSE) one may fail (once
\* in a run, which is a bound).
ForwardReceive(e, failing) ==
  /\ fpc = "range"
  /\ ~iClosed /\ within(seq + 1, calls, stops)
  /\ failing = {} \/ record.failures = {}
  /\ fpc' = "append"
  /\ inHand' = e
  /\ seq' = seq + 1 /\ seen' = Append(seen, e.kind)
  /\ record' = [record EXCEPT !.status = IF e.kind.status = "none" THEN @ ELSE e.kind.status,
                              !.failures = @ \cup failing]
  /\ UNCHANGED <<storeVars, upserted, waitErr, cause, chanVars, done, waitVars, cpc, innerVars>>

\* store.AppendEvent, under the id on the event.
ForwardAppend ==
  /\ fpc = "append"
  /\ fpc' = "upsert"
  /\ AppendEvent(inHand.id, [n |-> seq, raw |-> inHand.kind.raw])
  /\ UNCHANGED <<record, upserted, waitErr, cause, inHand, seqVars, chanVars, done, waitVars, cpc,
                 innerVars>>

\* upsertIfDue: always the first time, later when the interval is over.
ForwardUpsert ==
  /\ fpc = "upsert"
  /\ fpc' = "send"
  /\ upserted' = TRUE
  /\ \/ UpsertRun(record.id, record.status)
     \/ upserted /\ UNCHANGED storeVars
  /\ UNCHANGED <<record, waitErr, cause, inHand, seqVars, chanVars, done, waitVars, cpc,
                 innerVars>>

\* Mutant: a send that does not look at the capacity.
passOnAlways ==
  /\ events' = events + 1
  /\ passed' = passed \cup {seq}
  /\ fpc' = "range"
  /\ UNCHANGED <<open, record>>

\* Room in the channel.
passOn ==
  /\ events < EventCap
  /\ events' = events + 1
  /\ passed' = passed \cup {seq}
  /\ fpc' = "range"
  /\ UNCHANGED <<open, record>>

\* The context is over: forward() returns, with the event lost.
giveUp ==
  /\ cause # "none"
  /\ fpc' = "close"
  /\ UNCHANGED <<chanVars, record>>

\* A full channel: a message or progress is dropped and counted, anything else
\* waits.
dropOrWait ==
  \/ /\ inHand.kind.droppable
     /\ fpc' = "range"
     /\ record' = [record EXCEPT !.dropped = @ + 1]
  \/ /\ ~inHand.kind.droppable
     /\ fpc' = "blocked"
     /\ UNCHANGED record

\* The select with a default: room in the channel, the end of the context, or
\* neither.
ForwardSend ==
  /\ fpc = "send"
  /\ \/ passOn
     \/ giveUp
     \/ cause = "none" /\ events = EventCap /\ dropOrWait /\ UNCHANGED chanVars
  /\ inHand' = IF fpc' = "blocked" THEN inHand ELSE Nothing
  /\ UNCHANGED <<storeVars, upserted, waitErr, cause, seqVars, done, waitVars, cpc, innerVars>>

\* Mutant: the blocked send does not look at the context.
ForwardBlockedForGood ==
  /\ fpc = "blocked"
  /\ passOn
  /\ inHand' = Nothing
  /\ UNCHANGED <<storeVars, upserted, waitErr, cause, seqVars, done, waitVars, cpc, innerVars>>

ForwardBlocked ==
  /\ fpc = "blocked"
  /\ passOn \/ giveUp
  /\ inHand' = Nothing
  /\ UNCHANGED <<storeVars, upserted, waitErr, cause, seqVars, done, waitVars, cpc, innerVars>>

\* The wrapped run's channel is closed and empty.
ForwardEnd ==
  /\ fpc = "range"
  /\ iClosed
  /\ fpc' = "close"
  /\ UNCHANGED <<storeVars, record, upserted, waitErr, cause, inHand, seqVars, chanVars, done,
                 waitVars, cpc, innerVars>>

\* The deferred close(r.events) and close(r.done), in this order.
CloseEvents ==
  /\ fpc = "close"
  /\ fpc' = "close_done"
  /\ open' = FALSE
  /\ UNCHANGED <<storeVars, record, upserted, waitErr, cause, inHand, seqVars, events, passed,
                 done, waitVars, cpc, innerVars>>

CloseDone ==
  /\ fpc = "close_done"
  /\ fpc' = "end"
  /\ done' = TRUE
  /\ UNCHANGED <<storeVars, record, upserted, waitErr, cause, inHand, seqVars, chanVars, waitVars,
                 cpc, innerVars>>

-----------------------------------------------------------------------------
(* Wait.                                                                   *)

waitStep(w, from, to) ==
  /\ wpc[w] = from
  /\ wpc' = [wpc EXCEPT ![w] = to]
  /\ UNCHANGED <<upserted, cause, fpc, inHand, seqVars, chanVars, done, cpc, innerVars>>

WaitCall(w) ==
  /\ fpc # "none"
  /\ w = calls + 1 /\ within(seq, w, stops)
  /\ waitStep(w, "idle", "inner")
  /\ LET others == {v \in Waiters \ {w} : waits(v)}
     IN  shared' = IF others = {} THEN shared ELSE shared \cup others \cup {w}
  /\ UNCHANGED <<storeVars, record, waitErr, got, clone, ret>>

\* inner.Wait returns what the run came to.
WaitInner(w) ==
  /\ iDone
  /\ waitStep(w, "inner", "drain")
  /\ got' = [got EXCEPT ![w] = iResult]
  /\ UNCHANGED <<storeVars, record, waitErr, clone, ret, shared>>

\* It returns because the context of this call is over.
WaitGivesUp(w) ==
  /\ waitStep(w, "inner", "drain")
  /\ got' = [got EXCEPT ![w] = GaveUp]
  /\ UNCHANGED <<storeVars, record, waitErr, clone, ret, shared>>

\* Mutant: any sink that failed counts.
mergeAnyObserverError(primary) ==
  IF primary # "none" THEN primary ELSE IF record.failures # {} THEN "sink" ELSE "none"

mergeRequiredObserverError(primary) ==
  IF primary # "none" THEN primary
  ELSE IF TRUE \in record.failures THEN "sink" ELSE "none"

\* Mutant: the status of the record, if it is terminal, is kept.
WaitMergeKeeping(w) ==
  /\ done
  /\ waitStep(w, "drain", "clone")
  /\ waitErr' = mergeRequiredObserverError(got[w].err)
  /\ record' = [record EXCEPT !.id = IF got[w].id = "none" THEN @ ELSE got[w].id,
                              !.status = IF got[w].status = "none" \/ @ \in Terminal
                                         THEN @ ELSE got[w].status]
  /\ UNCHANGED <<storeVars, got, clone, ret, shared>>

\* <-r.done, whatever the context of the call, then the result goes into the
\* record (mergeResultLocked); what the result does not have is kept.
WaitMerge(w) ==
  /\ done
  /\ waitStep(w, "drain", "clone")
  /\ waitErr' = mergeRequiredObserverError(got[w].err)
  /\ record' = [record EXCEPT !.id = IF got[w].id = "none" THEN @ ELSE got[w].id,
                              !.status = IF got[w].status = "none" THEN @ ELSE got[w].status]
  /\ UNCHANGED <<storeVars, got, clone, ret, shared>>

\* r.upsert(ctx): the record is cloned under the lock and stored outside it.
WaitClone(w) ==
  /\ waitStep(w, "clone", "upsert")
  /\ clone' = [clone EXCEPT ![w] = [id |-> record.id, status |-> record.status]]
  /\ UNCHANGED <<storeVars, record, waitErr, got, ret, shared>>

WaitUpsert(w) ==
  /\ waitStep(w, "upsert", "return")
  /\ UpsertRun(clone[w].id, clone[w].status)
  /\ clone' = [clone EXCEPT ![w] = NoClone]
  /\ UNCHANGED <<record, waitErr, got, ret, shared>>

\* r.waitErr is read without the lock.
WaitReturn(w) ==
  /\ waitStep(w, "return", "returned")
  /\ ret' = [ret EXCEPT ![w] = waitErr]
  /\ UNCHANGED <<storeVars, record, waitErr, got, clone, shared>>

-----------------------------------------------------------------------------
(* Cancel.                                                                 *)

CancelContext(c) ==
  /\ fpc # "none" /\ cpc[c] = "idle" /\ within(seq, calls, stops + 1)
  /\ cpc' = [cpc EXCEPT ![c] = "cancel"]
  /\ endCtx("caller")
  /\ UNCHANGED <<storeVars, record, upserted, waitErr, fpc, inHand, seqVars, chanVars, done,
                 waitVars, innerVars>>

CancelInner(c) ==
  /\ cpc[c] = "cancel"
  /\ cpc' = [cpc EXCEPT ![c] = "returned"]
  /\ iStop' = TRUE
  /\ UNCHANGED <<storeVars, record, upserted, waitErr, cause, fpc, inHand, seqVars, chanVars, done,
                 waitVars, iResult, iDone, iClosed>>

-----------------------------------------------------------------------------
(* The wrapped run, the contexts, the consumer and the other users of the  *)
(* store: external.                                                        *)

outside ==
  UNCHANGED <<record, upserted, waitErr, fpc, inHand, seqVars, open, passed, done, waitVars, cpc>>

innerOutcomes ==
  {[id |-> i, status |-> o[1], err |-> o[2]] : i \in InnerIds,
     o \in {<<"completed", "none">>, <<"failed", "runtime">>}
           \cup (IF iStop THEN {<<"cancelled", "ctx">>} ELSE {})}

InnerSettles ==
  /\ \E o \in innerOutcomes : Inner!Settle(o)
  /\ outside /\ UNCHANGED <<storeVars, cause, events>>

InnerCloses ==
  /\ Inner!CloseDone \/ Inner!CloseEvents
  /\ outside /\ UNCHANGED <<storeVars, cause, events>>

\* The wrapped run was started with the context given to StartRun.
InnerStops ==
  /\ cause \in CtxCauses
  /\ Inner!AskStop
  /\ outside /\ UNCHANGED <<storeVars, cause, events>>

ContextEnds(why) ==
  /\ cause = "none" /\ within(seq, calls, stops + 1)
  /\ cause' = why
  /\ outside /\ UNCHANGED <<storeVars, events, innerVars>>

Consume ==
  /\ events > 0
  /\ events' = events - 1
  /\ outside /\ UNCHANGED <<storeVars, cause, innerVars>>

\* Somebody inspects the store.
StoreMoves ==
  /\ Inspect
  /\ outside /\ UNCHANGED <<cause, events, innerVars>>

-----------------------------------------------------------------------------
Receive ==
  /\ seq < Len(Kinds)
  /\ \E k \in Kinds[seq + 1], i \in InnerIds, failing \in {{}, {TRUE}, {FALSE}} :
       ForwardReceive([kind |-> k, id |-> i], failing)

\* What forward() does by itself.
Forward ==
  ForwardAppend \/ ForwardUpsert \/ ForwardSend \/ ForwardBlocked \/ ForwardEnd
    \/ CloseEvents \/ CloseDone

WaitProceeds(w) ==
  WaitInner(w) \/ WaitMerge(w) \/ WaitClone(w) \/ WaitUpsert(w) \/ WaitReturn(w)

InnerRuns == InnerSettles \/ InnerCloses \/ InnerStops

Next ==
  \/ StartRun \/ Receive \/ Forward
  \/ \E w \in Waiters : WaitCall(w) \/ WaitProceeds(w) \/ WaitGivesUp(w)
  \/ \E c \in Callers : CancelContext(c) \/ CancelInner(c)
  \/ InnerRuns
  \/ \E why \in CtxCauses : ContextEnds(why)
  \/ Consume
  \/ StoreMoves

Spec == Init /\ [][Next]_vars

(***************************************************************************)
(* Fairness: the goroutines are scheduled, and the wrapped run keeps its   *)
(* contract.  Nothing is assumed of who reads the events.                  *)
(***************************************************************************)
ObserverFairness ==
  /\ WF_vars(Forward)
  /\ \A w \in Waiters : WF_vars(WaitProceeds(w))
  /\ \A c \in Callers : WF_vars(CancelInner(c))
  /\ WF_vars(InnerStops) /\ WF_vars(iStop /\ InnerSettles) /\ WF_vars(InnerCloses)

FairSpec == Spec /\ ObserverFairness

-----------------------------------------------------------------------------
(* Properties.                                                             *)

\* Every variable of the run and of the store stays in its range, and the channel
\* within its capacity.
TypeOK ==
  /\ StoreTypeOK
  /\ record \in [id : Ids, status : RecordStatus, dropped : Nat, failures : SUBSET BOOLEAN]
  /\ upserted \in BOOLEAN /\ waitErr \in {"none", "runtime", "ctx", "sink"}
  /\ cause \in {"none", "caller", "parent", "timeout"}
  /\ fpc \in {"none", "range", "append", "upsert", "send", "blocked", "close", "close_done", "end"}
  /\ inHand \in [kind : Kind, id : Ids]
  /\ seq \in 0 .. Len(Kinds) /\ seen \in Seq(Kind) /\ passed \subseteq 1 .. Len(Kinds)
  /\ events \in 0 .. EventCap /\ open \in BOOLEAN /\ done \in BOOLEAN
  /\ wpc \in [Waiters -> {"idle", "inner", "drain", "clone", "upsert", "return", "returned"}]
  /\ got \in [Waiters -> Outcomes \cup {GaveUp}]
  /\ clone \in [Waiters -> [id : Ids, status : RecordStatus]]
  /\ ret \in [Waiters -> {"none", "runtime", "ctx", "sink"}]
  /\ shared \subseteq Waiters
  /\ cpc \in [Callers -> {"idle", "cancel", "returned"}]
  /\ iResult \in Outcomes \cup {NoOutcome}
  /\ iDone \in BOOLEAN /\ iClosed \in BOOLEAN /\ iStop \in BOOLEAN

\* Once a caller has got the result, the run is among the completed ones under the
\* id of the handle, with the status of the result, and no longer among the
\* active ones, also while and after Wait is called again, with a result or
\* without; unless the store has evicted it, or calls of Wait overlapped (the
\* clone of one may then be stored after that of another).
CompletedIsFound ==
  shared = {} /\ (\E w \in Waiters : wpc[w] = "returned" /\ got[w] # GaveUp) =>
    /\ RunId \notin active
    /\ RunId \in evicted \/ completed[RunId] = iResult.status

\* The error due to a call of Wait to which inner.Wait returned err: that error, or
\* else that of a required sink that failed.
dueError(err) == IF err = "none" /\ TRUE \in record.failures THEN "sink" ELSE err

\* A call of Wait that no other one overlaps returns exactly the error due to it,
\* although r.waitErr is left over from earlier calls: the error of a required sink
\* just when the run succeeded and its own context did not end, and never that of
\* a best-effort one.  A call that another one overlaps may read what that one
\* wrote (r.waitErr is shared and read after the lock is released), so it may also
\* return the end of the other's context, or that of the run; but no call fails
\* for a reason that was due to nobody, and none that got the result of a run that
\* failed, or whose required sink failed, returns without an error.
SinkErrorReturned ==
  \A w \in Waiters : wpc[w] = "returned" =>
    \/ ret[w] = dueError(got[w].err)
    \/ w \in shared /\ (ret[w] = "ctx" \/ (iDone /\ ret[w] = dueError(iResult.err)))

\* Do the events m+1 to n of the run fit into its log?
fits(m, n) ==
  ~exceeds(n - m, MaxEventsPerRun) /\ ~exceeds(bytes(seen, m + 1, n), MaxRawBytesPerRun)

\* What the store has of the run's events is the longest part of them that ends
\* with the newest and keeps both limits, with the events in the order in which
\* they were received and each with its own data, however slow the reader of the
\* stream is and whatever the stream itself lost.
LogIsNewest ==
  LET n == IF fpc = "append" THEN seq - 1 ELSE seq
  IN  RunId \notin evicted =>
        \E m \in 0 .. n :
          /\ stored[RunId] = [j \in 1 .. n - m |-> [n |-> m + j, raw |-> seen[m + j].raw]]
          /\ fits(m, n) /\ \A l \in 0 .. m - 1 : ~fits(l, n)

\* Of the events that forward() is through with, those that never went into
\* r.events are messages and progress, as many as DroppedEventCount says; only the
\* last one may be missing without this, and only because the context is over.
StreamLacksDropped ==
  LET handled == 1 .. (IF fpc \in {"append", "upsert", "send", "blocked"} THEN seq - 1 ELSE seq)
  IN  \E cut \in SUBSET {seq} :
        /\ cut # {} => cause # "none"
        /\ \A k \in (handled \ passed) \ cut : seen[k].droppable
        /\ record.dropped = Cardinality((handled \ passed) \ cut)

\* Every event is accounted for, in the log of the store and in the stream.
EventsAccounted == LogIsNewest /\ StreamLacksDropped

\* Wait returns: to a caller that drains Events(), once the wrapped run ends; and
\* although nobody reads them, once the context is over, by Cancel, a deadline or
\* a parent context.
WaitReturns ==
  /\ WF_vars(Consume) /\ WF_vars(InnerSettles) =>
       \A w \in Waiters : waits(w) ~> wpc[w] = "returned"
  /\ \A w \in Waiters : waits(w) /\ cause # "none" ~> wpc[w] = "returned"
=============================================================================
