# Verification of agentwrap

agentwrap wraps agent CLIs (today OpenCode) behind one interface: `Runtime.StartRun`
returns a `Run` with an event stream, `Wait` and `Cancel`; decorators add retries
and fallbacks, validation and repair, and observation. This directory models that
machinery in TLA+, model-checks it with TLC on small instances and proves its safety
properties, those of all five modelled components, with TLAPS for all instances.

## 1. Inventory

| Component | State | Operations | Hard behaviour | What makes it correct |
|---|---|---|---|---|
| OpenCode run (`opencode/runtime.go`) | lifecycle, event channel (32), done, result, `cleanupOnce`, evidence flags, temp directory | `StartRun`, `run()`, `captureStderr`, `cancelOnContextDone`, `watchLogRateLimits`, `Wait`, `Cancel` | five goroutines and the callers of `Cancel` over one process group; deadlines; a full channel; sends on a closed one | one settled result; stream, lifecycle, result and evidence agree; cancellation ends everything; nothing leaks |
| Process (`opencode/process*.go`) | leader, group, pipes | `Start`, `Wait`, `Cancel` (SIGTERM, 2 s, SIGKILL) | unsynchronised `ProcessState`, ignored SIGTERM, children that outlive the leader | no leader runs after cleanup |
| Decoder, projector (`decoder.go`, `projector.go`) | scan position | `scanNativeRecords`, `projectNative` | malformed lines, output after the final event, a pipe nobody reads | native events in order, without a gap |
| Rate-limit classification (`rate_limit.go`) | none | text/JSON to category and delay | units, missing fields | not modelled: whether a text is a rate limit is an input |
| Policy runner (`policy.go`) | attempts, per-target counts, current attempt, event channel (64), dropped events, result | `StartRun`, `execute`, `forwardEvents`, `Cancel`, `BasicPolicy.Decide` | cancel between `StartRun` and `setCurrent`, while sleeping, or while an attempt ends; overflow | bounded attempts, explained result, fresh requests, ordered stream, accounted drops, ends |
| Validating runtime (`validation.go`) | history, repairs, current run, result | `StartRun`, `execute`, `startAndWait`, `validate`, `runRepair`, `Cancel` | cancel between run and repair; repair fallback; terminal events of inner runs | bounded repairs; completed only if the last validation passed |
| Observing runtime (`observability.go`) | record, event channel, sinks, failures | `StartRun`, `forward`, `Wait`, `Cancel` | `Wait` with a context of its own; slow caller; logical ids | record converges to the result |
| Run store (`observability.go`) | active, completed, order list, events | `UpsertRun`, `AppendEvent`, eviction, queries | late upserts, limits, TTL | the maps and the order list agree; limits hold |
| Rate tables (`pricing.go`) | table, source, fetch time, snapshot file | `Ensure`, `Status`, load/write snapshot | crash between write and rename, processes that share the temporary file, a stale snapshot against a newer table in memory | no damaged table is used; fresh means fresh; a snapshot in place survives crashes and failed writes |
| Health (`health.go`), permissions (`permissions.go`, `opencode/permissions.go`) | none | aggregation, required failures, translation | severity order | not modelled |
| Prompt cache, models, config, redaction, types | none | pure helpers or one-shot I/O | | not modelled |

The components interact through the `Run` interface only: a decorator calls
`StartRun`, ranges over `Events()`, calls `Wait` and `Cancel` of the inner handle,
and derives the inner context from its own. That interface is `RunContract`.

## 2. Modules

| Module | Models |
|---|---|
| `RunContract` | Abstract specification of a handle: one outcome, fixed before `done` and the stream close; a run whose context is over ends. |
| `OpenCodeRun` | The adapter's run with its goroutines, the callers of `Cancel` and the process group. |
| `MCOpenCodeRun` | The scripts (outputs of the process) for TLC, and the symmetry of the callers of `Cancel`. |
| `OpenCodeRunProofs` | Theorems about `OpenCodeRun`: types, phases of `run()`, the contract. |
| `OpenCodeStreamProofs` | Theorems about its event stream and the evidence for its result. |
| `PolicyRunner` | The logical run of the policy runner; each attempt is any handle that keeps `RunContract` (instantiated as `Attempt`), and the logical run is shown to keep `RunContract` itself (`Contract`). |
| `MCPolicyRunner` | The policies for TLC. |
| `PolicyRunnerProofs` | Theorems about `PolicyRunner`. |
| `ValidatingRun` | The logical run of the validating runtime, over any inner run that keeps `RunContract` (`Inner`); it is shown to keep `RunContract` itself. |
| `MCValidatingRun` | The validation specs and artifacts for TLC. |
| `ValidatingRunProofs` | Theorems about `ValidatingRun` and about the search of `missingInOrder`. |
| `MemoryRunStore` | The in-memory store: its operations as actions on its own variables, which `ObservedRun` extends. |
| `MemoryRunStoreProofs` | The store stays consistent under any operations. |
| `ObservedRun` | One run of the observing runtime together with the store, over any wrapped run that keeps `RunContract`. |
| `MCObservedRun` | The kinds of events for TLC. |
| `ObservedRunProofs` | Theorems about `ObservedRun`, on top of those about the store. |
| `RateTableStore` | Several processes with a rate table each and one snapshot directory. |
| `MCRateTableStore` | The symmetry of the processes for TLC. |
| `RateTableStoreProofs` | Theorems about `RateTableStore`. |
| `NumberFacts` | Induction up to a number, for the proofs about sequences. |

### OpenCodeRun

One variable per piece of shared state, one program counter per goroutine: `rpc`
for `run()`, `wpc` for `cancelOnContextDone`, `lpc` for `watchLogRateLimits`, `spc`
for `captureStderr`, `cpc[c]` for each caller of `Cancel`, `start` for `StartRun`. A
step is the code between two points where another goroutine can observe or change
shared state: `emitLifecycle` is two steps (the transition under `eventMu`, the send
outside it), `r.cleanup` is a `sync.Once` whose later callers wait, the deferred
`r.cancel()`, `close(r.done)`, `close(r.events)` are three steps in the order Go runs
them. `cause` says why `r.ctx` is over; "finish" is the run's own deferred cancel.

The process is external. It plays a `script` of records fixed at the start, blocks
when the pipe is full, may put rate-limit text on stderr or in the log, fork a child
that holds the pipes ("attached") or not ("detached"), exit or die at any time, and
ignore SIGTERM for as long as it likes. `ProcessState` is read without
synchronisation with `cmd.Wait` in the code, so a goroutine other than `run()` may see
it unset (a nondeterministic choice in `CleanupBegin` and `CleanupEnd`).

Data that no property tells apart is left out: event sequence numbers and
statistics, usage and cost, session ids beyond "there is a new one", warnings, the
texts of errors. The fatal events that are no rate limit are one kind; what the
database says at the end is a choice of three answers; a line that is too long or a
read error is a "malformed" record. `Wait` is a read of `done` and `result`.

### PolicyRunner

`execute()` has a program counter for each point of the loop where a cancellation can
make a difference; `forwardEvents` is a goroutine of its own (`fwd`); `Cancel` is two
steps, so that it can fall between an attempt's `StartRun` and `setCurrent`. A request
is the set of alternatives whose settings were laid over the original one.
Abstractions: `BasicPolicy` without the `ShouldRetry`/`ShouldFallback` hooks; its
`Fallbacks` and the runner's `Alternatives` are one list; `wait` decisions are
`retry`; a delay is zero or not; elapsed time may be exhausted at any decision; a
rate limit's details exist exactly when the error is one; a caller's own policy
(`custom`) may fail, stop with an error of its own, retry, go to any target or answer
with an unknown kind, delayed or not, and stops after `MaxRounds` attempts, but it picks
targets that exist (one beyond the list would run on the primary runtime, policy.go:499-528)
and replaces neither a target nor the request (`decision.Request`, policy.go:766-768 and
782-784); error categories that `BasicPolicy` treats alike have one
representative; a caller's `Sleep` that ignores its context is not modelled.

### ValidatingRun

`execute()` again has one program counter; `startAndWait` is one piece of code that the
first run, a repair and its fresh-session fallback pass through, told apart by `phase`.
The events `execute()` sends between two decisions are queued in `out` and sent one per
step (`Say`), so that Cancel, a deadline and the reader fall between them. `Cancel` is two
steps, as in the policy runner. `ValidateRun` is modelled on one Markdown artifact, plus
one further check that may be skipped, pass or fail, required or not, and stands for
every other expectation and for the caller's validators. `missingInOrder` is a recursive
function over the template, `cursor`: each heading is searched from where the search
before it ended, and one that is not there exhausts the document; the headings not found
are given by their index. Its reference is `templateMatches`: an order-preserving map of
the template's headings into the document's.
Abstractions: whether a runtime reports an unsupported session is any choice for a
repair that continues one; the caller's `OverrideRequest` and `BuildPrompt` are data; a
`ShouldRepair` hook may answer either way. An inner run that failed is never validated,
so what it leaves in the work directory is not tracked, and neither is the artifact that
a repair is about to replace.

### ObservedRun and MemoryRunStore

`MemoryRunStore` has its own variables and specification (`StoreSpec`); each operation
holds the mutex, and is one action. Time is any: at each operation any prefix of the
list of completed runs that does not contain the run being stored may have expired.
An event is its sequence number and the size of its raw data, and both limits of a log,
events and raw bytes, are in the model; a negative limit is none. `AppendEvent` drops from
the front until neither limit is exceeded: several events at once for a large one, and an
event that alone is too large with the rest. Failures of the store (`MemoryRunStore` never
fails) are left out.

`ObservedRun` extends it with `forward()`, the callers of `Wait` and `Cancel`, and the
record. `forward()` is split where others can look: the record is changed and the sinks
are called, the event is appended, the record stored if it is due, the event passed on.
`Waiters` are calls of `Wait`, numbered in the order in which they begin. A call is five
steps (`inner.Wait`, `<-r.done` with the merge, clone, store, return) and may give up at
`inner.Wait` because of its own context; calls may follow each other or overlap, and
`shared` remembers which did. The history variables `seen` and `passed` are the events
received and the numbers of those put into the stream. `Init` has one run in
the store that completed earlier, so that a limit of one completed run is met. A sink
fails at most once (a bound); the record keeps the id, the status, the dropped count and
which sorts of sinks failed. A limit of zero completed runs is excluded by
`ObservedAssumption`, because `NewMemoryRunStoreWithLimits` replaces it by the default.
The observed handle does not keep `RunContract`: after a
Cancel its stream may close before the wrapped run has an outcome. What it does promise is
stated as `WaitReturns` and `CompletedIsFound`.

### RateTableStore

A table is identified by the time of its fetch. `s.mu` admits one `Ensure` per process,
so a process is one sequence of steps: memory, snapshot, network, and `writeSnapshot` as
open (create or truncate), write and rename. Names refer to inodes, so that a process
with an open file keeps writing to it after another one has renamed it. A process may
crash before any step and start with an empty memory; the machine does not crash, so
what was written stays written. The history variable `overlap` says that two processes
were between fetch and rename at the same time.

## 3. What the runs show

Bounds. `EventCap = 2` is the smallest capacity that holds the two events of `StartRun`
(as the code's 32 always does) and overflows with the next one; `PipeCap = 1` makes
every write after an unread record block; two records give an event before and after
the final one; two callers make `Cancel` race with itself. For the policy runner one
alternative and two attempts per target let a request pass through retry and fallback,
three rounds are enough for a caller's own policy to go back and forth, and channels of
one slot overflow. For validation one repair with its fallback gives three inner runs in
a row, and `MaxAttempts` is met; the template has two headings, and the artifact has them
in order or out of order (other artifacts, with headings missing or repeated, slots left
or unreadable, and longer templates, are left to the theorems); inner runs fail with an
exit or a denied permission. For observation the log of a run holds two events and two
bytes of raw data, and the three events have none, two bytes and one, so that each limit
binds, and one event pushes out two; one completed run and one slot make the other limits
bind. `Loads` bounds what comes together: three events with one call of `Wait` and one
stop, or one event with two calls, or one event with two stops. For the rate tables a
table is fresh for one tick of three, so that each process can hold a fresh, a stale and a
staler table than the snapshot; two processes are enough for every conflict over one file.

| Run | Question | Result |
|---|---|---|
| `run_safety` | all outputs of at most two records against two callers of `Cancel`, parent context and deadline: temp directory, settled result, ordered stream, one terminal event, lifecycle against result, blame for context outcomes, one cleanup that stops the leader | holds |
| `run_evidence` | all record kinds, stderr and log text, all exits: is a completed or rate-limited result backed by evidence | holds |
| `run_liveness` | the caller never reads, the process never exits, a child keeps the pipe: does `Cancel` or a deadline end the run and all goroutines; does a drained run of a process that exits end by itself; is `RunContract` implemented | holds |
| `cancel_race` | is a run in lifecycle cancelled reported as cancellation | violated |
| `malformed_hang` | does malformed output end the run | violated |
| `stderr_lost` | does rate-limit text on stderr always count | violated |
| `stragglers` | does a cancelled run leave no child behind | violated |
| `policy` | two `BasicPolicy` configurations and any policy of the caller's own: bounded attempts, explained result, fresh requests, at most one attempt started after the context ended, attempts not mixed in the stream, drops accounted for; the logical run implements `RunContract` and ends when its attempts do | holds |
| `validation` | completed means that the last output was validated, repairs are bounded, the error is explained, at most one inner run (and its fallback) starts after the context ended, the stream is in order; `RunContract` again | holds |
| `observation` | order list, records and event logs of the store agree and stay within limits; a finished run is found among the completed ones with its status; `Wait` returns the error due to the call, that of a required sink but not of a best-effort one, and what it may return when another call overlaps; the log has the newest events that fit, the stream lacks only counted ones; `Wait` returns | holds |
| `rate_tables` | no damaged table is used, fresh is fresh, a snapshot in place survives crashes and failed writes, only an offline process goes back to an older table | holds |
| `observed_id` | is a finished run found under the id of its handle when the wrapped runtime is itself a wrapper | violated |

The five violations, and two rules that `ResultExplained` of the validated run and
`SinkErrorReturned` state as the code has them, are disagreements between the repository's
documents and its code; `PROJECT.json` quotes the lines.

* `cancel_race`: `Cancel` emits the cancelled lifecycle, then cleans up (up to two
  seconds), and only then cancels the context; the result looks at the context only.
* `malformed_hang`: after a decode error nobody reads stdout while `proc.Wait()` waits.
* `stderr_lost`: `cmd.Wait` closes the stderr pipe before the collector is awaited.
* `stragglers`: `execProcess.Cancel` does nothing once the leader has exited by itself.
* `observed_id`: `mergeResultLocked` renames the record to the id in the result. The
  results of `PolicyRunner` and `ValidatingRuntime` carry the id of an attempt, so in the
  recommended composition `GetCompletedRun(ctx, run.ID())` finds nothing and
  `ListActiveRuns` may go on listing the run (unless a terminal status from an event was
  stored under its id). With a wrapped run that reports its own id, as the adapter does,
  `CompletedIsFound` holds (`observation`).
* `validation`: docs/wrappers.md:92 says that a permission denied during repair remains
  `ErrorPermission`. `runRepair` looks at the session first: when the repair run reports
  that the session could not be continued and no fresh session is allowed, its error, also
  this one, becomes `ErrorRepairExhausted`. `ResultExplained` says exactly that, and the
  rule of the document in place of the code's (`repairErrorOfRun`) violates it. The
  OpenCode adapter never reports a continued session as unsupported (runtime.go:1444-1449),
  so this needs another adapter.

Overlapping calls of `Wait` share `r.waitErr`, which is read after the lock is released.
docs/wrappers.md:112 has required sink failures returned "when the primary runtime outcome
succeeded"; a call that got such an outcome may instead return the end of another call's
context, and a call whose context ended may return nil. `SinkErrorReturned` is exact for a
call no other one overlaps, and for the others it bounds what they may return by what was
due to some call. The torn read of the two words of an interface that this data race could
also produce is not modelled.

Two conditional statements are worth reading as such. `CompletedIsFound` says nothing
once two calls of `Wait` have overlapped: each stores its clone of the record outside the
lock. The last clause of `StatusIsTrue`, and `SnapshotOnlyImproves`, say nothing once two
processes have saved at the same time: they share one temporary file, and one may truncate what the
other renames. `NoTornTable` needs neither condition.

Two documents disagree with each other, and the properties follow the newer one and the
tests: docs/opencode-adapter.md:70-71 still has a process that exits before a final result
fail and every deadline be a timeout, while CHANGELOG.md:86 and :119 have a deadline blamed
on a rate limit in the log, and a clean exit after output complete with a warning
(`RateLimitIsEvidenced`, `CompletedIsEarned`). CHANGELOG.md:87 also has local failures in
the log reported as `runtime_unavailable`; `classifyRecentLogFailure` looks for rate limits
only, and no property is about it. `CompletedIsEarned` and `RateLimitIsEvidenced` say that
an outcome has evidence, not that evidence always counts; `stderr_lost` shows that it does
not.

In `run_liveness` no text appears, so the log watcher is not there, and its part of
`GoroutinesEnd` is empty; the script has no malformed line, so `RunEnds` does not meet the
hang that `malformed_hang` shows.

`run_safety` and `rate_tables` use the symmetry of callers and processes: they check
invariants and action properties only, and no definition tells the members apart.

`KillMayFail` is FALSE in all runs: with TRUE the system refuses to deliver signals to
the group, and `CleanupStopsLeader` says nothing; the proofs cover both values.

### Fairness

`AdapterFairness` is weak fairness of each goroutine (the Go scheduler runs what can
run), of timers (inside `CleanupEnd`, `WatchStop`), and of os/exec killing the leader
when the context ends. Nothing is assumed of the caller or the process, so
`CancelEndsRun` and `RunContract`'s liveness hold for a caller that never reads and a
process that ignores SIGTERM. `RunEnds` needs `WellBehaved`: a caller that drains the
stream and a process that writes what it has and exits. `RunnerFairness` is the same
for the policy run, plus the promise of `RunContract` for its attempts (they end once
their context is over, and close what has settled); `PolicyRunEnds` assumes in addition
that attempts settle by themselves, as `RunEnds` shows for the adapter. `ValidationFairness` and
`ObserverFairness` are of the same form: each goroutine, validators and hooks that
answer, and the contract of the wrapped run; `ValidatedRunEnds` and `WaitReturns` assume
in addition that inner runs settle by themselves, and `WaitReturns` a caller that drains
the stream; its second half, for a context that is over, assumes no reader. The rate tables
have no liveness property. Channel sends in a `select` with a ready alternative need no
strong fairness: either choice leads on.

## 4. What is proved

Every safety property that a run checks is also a theorem, for every value of the
constants that the named assumptions allow: any number of callers, waiters, processes,
alternatives, ids, headings and records, any capacities and limits. No proof rests on
anything but those assumptions, except that two theorems about the observed run have a
hypothesis of their own. The invariants the proofs need were checked with TLC on the
instances of section 3 before they were proved.

| Theorem | States |
|---|---|
| `OpenCodeRunProofs` | |
| `TypeCorrect` | `Spec => []TypeOK` |
| `Settled` | `Spec => []DoneMeansSettled` |
| `TempDirSafe` | `Spec => []TempDirLifetime` |
| `LifecycleAgrees` | `Spec => []LifecycleMatchesResult` |
| `CauseSound` | `Spec => []ContextOutcomeHasCause` |
| `LeaderStopped` | `Spec => []CleanupStopsLeader` |
| `KeepsSafeContract` | `Spec => Contract!SafeSpec` |
| `OpenCodeStreamProofs` | |
| `NativeEventsInOrder` | `Spec => []NativeStreamInOrder` |
| `OneTerminalAnnounced` | `Spec => []OneTerminalEvent` |
| `CompletionEarned` | `Spec => []CompletedIsEarned` |
| `RateLimitEvidenced` | `Spec => []RateLimitIsEvidenced` |
| `PolicyRunnerProofs` | |
| `RunnerTypeCorrect`, `AttemptsAreBounded`, `ResultIsExplained`, `RequestsAreFresh`, `DropsReported` | `Spec => []P` for `TypeOK`, `AttemptsBounded`, `ResultExplained`, `RequestIsFresh`, `DropsAreReported` |
| `StreamKeepsOrder` | `Spec => AttemptsInOrder`, an action property |
| `RunnerKeepsSafeContract` | `Spec => Contract!SafeSpec` |
| `ValidatingRunProofs` | |
| `TemplateSearchIsExact` | the greedy search of `missingInOrder` agrees with `templateMatches` |
| `ValidationTypeCorrect`, `CompletedWasValidated`, `RepairsAreBounded`, `ResultIsExplained` | `Spec => []P` for `TypeOK`, `CompletedIsValidated`, `RepairsBounded`, `ResultExplained` |
| `StreamKeepsOrder` | `Spec => StreamInOrder`, an action property |
| `ValidationKeepsSafeContract` | `Spec => Contract!SafeSpec` |
| `MemoryRunStoreProofs` | |
| `StoreStaysConsistent` | `StoreSpec => []StoreConsistent` |
| `ObservedRunProofs` | |
| `ObservedTypeCorrect`, `ObservedStoreConsistent`, `SinkErrorsReturned` | `Spec => []P` for `TypeOK`, `StoreConsistent`, `SinkErrorReturned` |
| `CompletedRunIsFound`, `EventsAreAccounted` | `Spec => []CompletedIsFound`, `Spec => []EventsAccounted`, when `InnerIds = {RunId}` |
| `RateTableStoreProofs` | |
| `RatesTypeCorrect`, `TornTablesRefused`, `StatusTrue` | `Spec => []P` for `TypeOK`, `NoTornTable`, `StatusIsTrue` |
| `GoesBackOffline`, `SnapshotImproves` | `Spec => OnlyOfflineGoesBack`, `Spec => SnapshotOnlyImproves`, action properties |

`Contract!SafeSpec` is the refinement of the safety part of `RunContract`: initial states
map to initial states, each step to a step or a stutter. With the three theorems the
composition is closed on the side of safety: the adapter, a policy run over any handles
that keep the contract, and a validated run over any such handles keep it.

### The inductive invariants

Hardly any of these properties is inductive by itself. In each module the invariant is a
conjunction of named parts, with a lemma for each part that every step keeps it.

**Adapter.** `FlagsOK`, `ValuesOK` (the types, and `InHand`: while `run()` works on a
record there is one) and `PhaseInv`, which says what is true of the shared state in each
phase of `run()`: before the start nothing exists (`StartPhase`); the temp directory is
present until `run()` has passed the reaping and the collector (`TempPhase`); once
`run()` is past `proc.Wait`, `<-stderrDone`, cleanup, `finalResult`, the terminal
transition and the store, the leader is reaped, the collector done, `once` done,
`outcome` an outcome, the lifecycle terminal and the result stored (`RunPhase`,
`FlagPhase`); a lifecycle differs from the outcome only if a caller made it cancelled
(`LifecyclePhase`); the context error a scan returned is that of the context's first
cause, and the run's own cancel comes after `finalResult` (`CausePhase`); a finished
cleanup left no running leader (`LeaderPhase`).

**Its stream.** What a step adds to the stream is one lemma (`Added`): a native event in
`SendEvent`, a terminal one in `SendTerminal` and `CancelSend`, any other kind elsewhere.
On it rest `NativeInv` (as many records are in the stream as were read, but for the one in
hand), `AnnounceInv` (between the transition under `eventMu` and the send outside it there
is exactly one goroutine that may announce, and nothing is announced yet) and
`EvidenceInv` (a fatal event is in the stream exactly when it ended the scan; what
`finalResult` concluded stays backed, since a reaped leader's exit and collected text do
not change).

**Policy run.** `PhaseInv` (which goroutine and handle exist at each point of
`execute()`), `CauseInv`, `LastInv`, `DecisionInv` (what the decision in hand may be),
`TriesInv` (how many attempts it may still add), `StreamInv`, `RequestInv`.
`AttemptsBounded` needs the decision between `Decide` and its effect: a cancellation, a
sleep and two events lie in between.

**Validated run.** The same shape: `PhaseInv`, `CauseInv`, `PassedInv` (a validation that
passed speaks of the artifact that is still there), `ErrorInv`, `SessionInv` (only a
repair that continues the session finds it unsupported, and then nothing is validated),
`BudgetInv` (the inner
runs of a repair that is not over count too), `LateInv`, and `QueueInv` with `OrderInv`:
which events may still be queued at a point, and where the newest one stands in the story
of its run.

**Store and observed run.** `StoreConsistent` is inductive relative to the types;
`evictCompleted` drops the same runs from the list and the records. A log's bytes are the
cardinality of a set of pairs, event and position, so that the lemmas about them (a log
split in two, an event appended, a log shifted) are facts about finite sets, and
`DropOldest` says what the loop of `AppendEvent` leaves. For the observed run
`FlowInv` orders `forward()`, the wrapped run and the calls of `Wait`; `CountInv` says that
what is missing from the stream was dropped and counted, each event once, or cut off by the
end of the context; `AloneInv` that of two calls under way both are known to overlap;
`ErrorInv` what `r.waitErr` may be for a call that is alone and for one that is not.
`RecordInv`, `LogInv` and `FoundInv` hold when the wrapped run puts
its own id on its events and its result, as the adapter does. For `LogInv` the new tail
must be the longest that fits, not just one that does: no longer tail fits, because what
was too long before the new event still is (`StillOver`, `NewestFit`). The hypothesis
`InnerIds = {RunId}` of two theorems is this one, and the run `observed_id` shows that
without it `CompletedIsFound` is false.

**Rate tables.** `FdInv` (a file is open only while it is written), `FetchInv` (tables, in
memory or in whole inodes, were fetched), `AgeInv` (how old the table is at each point of
`Ensure`), `SnapInv` (while no saves overlapped: what the snapshot and the temporary file
hold at each point of `writeSnapshot`). That there is always a free inode is a counting
argument over the open files.

### Sequences of any length

Two results speak of sequences of any length: `TemplateSearchIsExact` and the theorems
about the stream. Both sides are recursive functions on an initial segment of the
numbers (`cursor` in `ValidatingRun`, `selections` in `OpenCodeRun`), and `NumberFacts`
gives induction up to a number by least counterexample, with the property as a set of
numbers. The search is greedy: by induction its cursor is never past that of any other
way to match the headings read so far, so a match that exists is found.

### Only model-checked

Liveness under fairness: `CancelEndsRun`, `GoroutinesEnd`, `RunEnds`, `PolicyRunEnds`,
`ValidatedRunEnds`, `WaitReturns`, and the liveness part of `KeepsContract` in the three
modules that have it. The prover has no rules for `ENABLED` and fairness. The five runs
that end in a violation show behaviours, which need no proof.

## 5. Plan

Done: the contract; the adapter's run, the policy runner, the validating runtime, the
observing runtime with its store and the rate table store, each with its proofs.
Decorators are composed by contract: each assumes `RunContract` of what it wraps, and the
adapter, the policy run and the validated run are shown to keep it. Worth doing next:

1. Facts about `RunContract` itself, so that what a caller may rely on follows from
   `SafeSpec` alone.
2. What holds of the stored record when calls of `Wait` overlap, and of the snapshot when
   saves of two processes do.

## 6. Not modelled

Wording and layout of events and errors, JSON decoding, environment assembly, the
OpenCode database and log files beyond their verdicts, pids (and their reuse), the
limit of the stderr buffer, Windows process handling, HTTP, hashes. `cmd.Wait` also waits
for the goroutine that copies the prompt into the process (process.go:25), which a child
that holds stdin and does not read could keep busy; the model has no stdin. `CleanupMetadata`
and event statistics are data of the result that nothing depends on.

Health checks, permissions, prompt cache directives, model listing, configuration,
redaction, rate-limit parsing, backoff delays and prices are pure functions or one-shot
I/O without state: strings, JSON, floats and probes of the outside world. What of them
reaches a modelled component is an input there (is a text a rate limit, is there a delay,
does a check pass). Of validation, the JSON, metadata, path and artifact checks are such
inputs too. Power failures, which could lose a snapshot that was written but not synced,
are not modelled.

## 7. Running

    tlc -workers 2 -config RunSafety.cfg MCOpenCodeRun
    tlc -workers 2 -config Policy.cfg MCPolicyRunner
    tlc -workers 2 -config Validation.cfg MCValidatingRun
    tlc -workers 2 -config Observation.cfg MCObservedRun
    tlc -workers 2 -config RateTables.cfg MCRateTableStore
    tlapm OpenCodeRunProofs.tla
    tlapm OpenCodeStreamProofs.tla
    tlapm PolicyRunnerProofs.tla
    tlapm ValidatingRunProofs.tla
    tlapm MemoryRunStoreProofs.tla
    tlapm ObservedRunProofs.tla
    tlapm RateTableStoreProofs.tla
    tlapm NumberFacts.tla

`PROJECT.json` lists every run, the mutants that show that each property can fail,
the source lines of every definition, and the hazards the properties are for.
