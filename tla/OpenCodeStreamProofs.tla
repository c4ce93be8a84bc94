------------------------ MODULE OpenCodeStreamProofs ------------------------
(***************************************************************************)
(* Theorems about the event stream of OpenCodeRun and the evidence for its *)
(* result, for every choice of the constants.  They rest on the types and  *)
(* phases of OpenCodeRunProofs, on what a step adds to the stream (Added), *)
(* and on three more conjuncts:                                            *)
(*   NativeInv    how many of the records read are in the stream           *)
(*   AnnounceInv  who is about to announce the end of the lifecycle        *)
(*   EvidenceInv  what the flags of the scan and the outcome stand for     *)
(***************************************************************************)
EXTENDS OpenCodeRunProofs, NumberFacts, SequenceTheorems

\* The groups of variables are only abbreviations.
USE DEF startVars, chanVars, endVars, scanVars, runVars, watchVars, textVars, procVars

\* e has entered the channel at some time.
sent(e) == \E i \in 1 .. Len(stream) : stream[i] = e

Scanning == {"none", "scan", "read", "session", "send"}

NativeInv ==
  LET n == Len(native(stream))
  IN  /\ native(stream) = SubSeq(script, 1, n)
      /\ rpc = "none" => read = 0
      /\ rpc \in {"none", "scan", "read"} => n = read /\ handed = read
      /\ rpc \in {"session", "send"} => n + 1 = read /\ handed = read
      /\ n = handed \/ (n + 1 = handed /\ (rpc \in {"session", "send"} \/ cause # "none"))

\* Somebody has made the lifecycle terminal and not announced it yet.
announcing == rpc = "send_terminal" \/ \E c \in Callers : cpc[c] = "send"

AnnounceInv ==
  /\ \A c, d \in Callers : cpc[c] = "send" /\ cpc[d] = "send" => c = d
  /\ \A c \in Callers : cpc[c] = "send" => lifecycle = "cancelled" /\ rpc # "send_terminal"
  /\ rpc = "send_terminal" => lifecycle = outcome.status
  /\ announcing \/ lifecycle \notin Terminal => terminalEvents(stream) = <<>>
  /\ terminalEvents(stream) \in {<<>>, <<lifecycle>>}

EvidenceInv ==
  /\ rpc \in Scanning => decodeErr = "nil"
  /\ rpc \notin AfterFinal => outcome = NoOutcome
  /\ "final" \in saw => sent("final") \/ decodeErr \in Fatal
  /\ \A k \in Fatal : sent(k) <=> decodeErr = k
  /\ outcome.status = "completed" =>
       decodeErr \notin Fatal /\ (how = "ok" \/ "final" \in saw)
  /\ outcome.err = "rate_limit" => stderr = "buffer" \/ logRate \/ decodeErr = "fatal_rate"

-----------------------------------------------------------------------------
(* The selection of events from a sequence.                                *)

\* The selections are well defined: each comes from the one before.
LEMMA SelectionSteps ==
  ASSUME NEW s, Len(s) \in Nat, NEW kinds
  PROVE  /\ selections(s, kinds)[0] = <<>>
         /\ \A i \in 1 .. Len(s) :
              selections(s, kinds)[i] = select(selections(s, kinds)[i - 1], s[i], kinds)
<1> DEFINE run(f, n) == f = [i \in 0 .. n |-> IF i = 0 THEN <<>>
                                             ELSE select(f[i - 1], s[i], kinds)]
           S == {n \in Nat : \E f : run(f, n)}
<1>1. 0 \in S
  <2>1. run([i \in 0 .. 0 |-> <<>>], 0)
    OBVIOUS
  <2> QED BY <2>1
<1>2. ASSUME NEW n \in Nat, n \in S PROVE n + 1 \in S
  <2>1. PICK f : run(f, n)
    BY <1>2
  <2> DEFINE last == select(f[n], s[n + 1], kinds)
             g == [i \in 0 .. n + 1 |-> IF i <= n THEN f[i] ELSE last]
  <2>2. (\A i \in 0 .. n : g[i] = f[i]) /\ g[n + 1] = last
    OBVIOUS
  <2>3. \A i \in 0 .. n + 1 : g[i] = IF i = 0 THEN <<>> ELSE select(g[i - 1], s[i], kinds)
    <3> SUFFICES ASSUME NEW i \in 0 .. n + 1
                 PROVE  g[i] = IF i = 0 THEN <<>> ELSE select(g[i - 1], s[i], kinds)
      OBVIOUS
    <3>1. CASE i = 0
      BY <2>1, <2>2, <3>1
    <3>2. CASE i \in 1 .. n
      <4>1. i - 1 \in 0 .. n /\ g[i - 1] = f[i - 1] /\ g[i] = f[i]
        BY <2>2, <3>2
      <4>2. f[i] = select(f[i - 1], s[i], kinds)
        BY <2>1, <3>2
      <4> QED BY <3>2, <4>1, <4>2
    <3>3. CASE i = n + 1
      <4>1. g[i] = last /\ g[n] = f[n] /\ i - 1 = n
        BY <2>2, <3>3
      <4> QED BY <3>3, <4>1
    <3> QED BY <3>1, <3>2, <3>3
  <2>4. run(g, n + 1)
    <3> DEFINE e(i) == IF i = 0 THEN <<>> ELSE select(g[i - 1], s[i], kinds)
    <3>1. g = [i \in 0 .. n + 1 |-> g[i]]
      OBVIOUS
    <3>2. \A i \in 0 .. n + 1 : g[i] = e(i)
      BY <2>3
    <3> HIDE DEF g
    <3> QED BY <3>1, <3>2
  <2> HIDE DEF g, run
  <2> QED BY <2>4
<1>3. \A i \in 0 .. Len(s) : i \in S
  <2> DEFINE n == Len(s)
  <2> HIDE DEF S
  <2>1. \A i \in 0 .. n : i + 1 \in 0 .. n /\ i \in S => i + 1 \in S
    BY <1>2
  <2> HIDE DEF n
  <2>2. n \in Nat
    BY DEF n
  <2>3. \A i \in 0 .. n : i \in S
    BY <1>1, <2>1, <2>2, UpTo
  <2> QED BY <2>3 DEF n
<1>4. \E f : run(f, Len(s))
  BY <1>3
<1>5. run(selections(s, kinds), Len(s))
  BY <1>4 DEF selections
<1> QED BY <1>5

\* Nothing is selected from an empty sequence.
LEMMA SelectedNone ==
  ASSUME NEW kinds
  PROVE  selected(<<>>, kinds) = <<>>
<1>1. Len(<<>>) = 0
  OBVIOUS
<1> QED BY <1>1, SelectionSteps DEF selected

\* What is selected is a sequence of the selected kinds.
LEMMA SelectedType ==
  ASSUME NEW E, NEW s \in Seq(E), NEW kinds
  PROVE  selected(s, kinds) \in Seq(kinds)
<1> DEFINE n == Len(s)
           f == selections(s, kinds)
           S == {i \in 0 .. n : f[i] \in Seq(kinds)}
<1>1. n \in Nat
  BY LenProperties
<1>2. /\ f[0] = <<>>
      /\ \A i \in 1 .. n : f[i] = select(f[i - 1], s[i], kinds)
  BY <1>1, SelectionSteps
<1> HIDE DEF f, n
<1>3. 0 \in S
  <2>1. <<>> \in Seq(kinds)
    BY EmptySeq
  <2>2. f[0] \in Seq(kinds) /\ 0 \in 0 .. n
    BY <1>1, <1>2, <2>1
  <2> QED BY <2>2
<1>4. ASSUME NEW i \in 0 .. n, i + 1 \in 0 .. n, i \in S PROVE i + 1 \in S
  <2>1. i + 1 \in 1 .. n /\ (i + 1) - 1 = i /\ f[i] \in Seq(kinds)
    BY <1>1, <1>4
  <2>2. f[i + 1] = select(f[i], s[i + 1], kinds)
    BY <1>2, <2>1
  <2>3. f[i + 1] \in Seq(kinds)
    BY <2>1, <2>2, AppendProperties DEF select
  <2> QED BY <1>4, <2>3
<1>5. \A i \in 0 .. n : i \in S
  <2>1. \A i \in 0 .. n : i + 1 \in 0 .. n /\ i \in S => i + 1 \in S
    BY <1>4
  <2> HIDE DEF S
  <2> QED BY <1>1, <1>3, <2>1, UpTo
<1>6. f[n] \in Seq(kinds)
  BY <1>1, <1>5
<1> QED BY <1>6 DEF selected, f, n

\* An event at the end is selected after those before it, or not at all.
LEMMA SelectedAppend ==
  ASSUME NEW E, NEW s \in Seq(E), NEW e \in E, NEW kinds
  PROVE  selected(Append(s, e), kinds) =
           IF e \in kinds THEN Append(selected(s, kinds), e) ELSE selected(s, kinds)
<1> DEFINE n == Len(s)
           t == Append(s, e)
           f == selections(s, kinds)
           g == selections(t, kinds)
           S == {i \in 0 .. n : f[i] = g[i]}
<1>1. /\ n \in Nat /\ t \in Seq(E) /\ Len(t) = n + 1 /\ t[n + 1] = e
      /\ \A i \in 1 .. n : t[i] = s[i]
  BY LenProperties, AppendProperties
<1> HIDE DEF t
<1>2. /\ f[0] = <<>>
      /\ \A i \in 1 .. n : f[i] = select(f[i - 1], s[i], kinds)
  BY <1>1, SelectionSteps
<1>3. /\ g[0] = <<>>
      /\ \A i \in 1 .. n + 1 : g[i] = select(g[i - 1], t[i], kinds)
  <2>1. Len(t) \in Nat
    BY <1>1
  <2> QED BY <1>1, <2>1, SelectionSteps
<1> HIDE DEF f, g, n
<1>4. 0 \in S
  BY <1>1, <1>2, <1>3
<1>5. ASSUME NEW i \in 0 .. n, i + 1 \in 0 .. n, i \in S PROVE i + 1 \in S
  <2>1. /\ i + 1 \in 1 .. n /\ i + 1 \in 1 .. n + 1 /\ (i + 1) - 1 = i /\ f[i] = g[i]
        /\ t[i + 1] = s[i + 1]
    BY <1>1, <1>5
  <2>2. /\ f[i + 1] = select(f[i], s[i + 1], kinds)
        /\ g[i + 1] = select(g[i], t[i + 1], kinds)
    BY <1>2, <1>3, <2>1
  <2> QED BY <1>5, <2>1, <2>2
<1>6. \A i \in 0 .. n : i \in S
  <2>1. \A i \in 0 .. n : i + 1 \in 0 .. n /\ i \in S => i + 1 \in S
    BY <1>5
  <2> HIDE DEF S
  <2> QED BY <1>1, <1>4, <2>1, UpTo
<1>7. f[n] = g[n]
  BY <1>1, <1>6
<1>8. g[n + 1] = select(g[n], e, kinds)
  <2>1. n + 1 \in 1 .. n + 1 /\ (n + 1) - 1 = n
    BY <1>1
  <2> QED BY <1>1, <1>3, <2>1
<1>9. selected(s, kinds) = f[n]
  BY DEF selected, f, n
<1>10. selected(t, kinds) = g[n + 1]
  BY <1>1 DEF selected, g
<1> QED BY <1>7, <1>8, <1>9, <1>10 DEF t, select

-----------------------------------------------------------------------------
(* What a step adds to the stream.                                         *)

sends(e) == stream' = stream \/ stream' = Append(stream, e)

\* The stream is a sequence of events.
LEMMA StreamType == ChannelOK => stream \in Seq(Event)
  BY ConcatProperties DEF ChannelOK, stream

\* An event at the end of the channel is at the end of the stream.
LEMMA AppendToStream ==
  ASSUME ChannelOK, NEW e \in Event, events' = Append(events, e), consumed' = consumed
  PROVE  stream' = Append(stream, e)
  BY DEF ChannelOK, stream

\* sendLocalEvent sends its event or drops it.
LEMMA LocalSends ==
  ASSUME ChannelOK, NEW e \in Event, sendLocalEvent(e)
  PROVE  sends(e)
<1>1. CASE events' = Append(events, e) /\ consumed' = consumed
  BY <1>1, AppendToStream DEF sends
<1>2. CASE UNCHANGED <<events, consumed>>
  BY <1>2 DEF sends, stream
<1> QED BY <1>1, <1>2 DEF sendLocalEvent

\* To receive an event changes nothing about what was sent.
LEMMA ConsumeKeeps == ChannelOK /\ Consume => stream' = stream
<1> SUFFICES ASSUME ChannelOK, Consume PROVE stream' = stream
  OBVIOUS
<1>1. /\ consumed' = Append(consumed, Head(events)) /\ events' = Tail(events) /\ events # <<>>
      /\ consumed \in Seq(Event) /\ events \in Seq(Event)
  BY DEF Consume, ChannelOK
<1>2. events = <<Head(events)>> \o Tail(events) /\ Tail(events) \in Seq(Event)
      /\ Head(events) \in Event
  BY <1>1
<1>3. Append(consumed, Head(events)) = consumed \o <<Head(events)>>
  BY <1>1, <1>2
<1>4. (consumed \o <<Head(events)>>) \o Tail(events)
      = consumed \o (<<Head(events)>> \o Tail(events))
  BY <1>1, <1>2
<1> QED BY <1>1, <1>2, <1>3, <1>4 DEF stream

\* The events of the adapter that are neither native nor terminal.
Minor == {"session", "rate_limit", "permission", "running"}

\* Every step adds at most one event: a native one in SendEvent, a terminal status
\* in SendTerminal or CancelSend, and one that is neither in any other step.
LEMMA Added ==
  ASSUME ValuesOK, PhaseInv, [Next]_vars
  PROVE  \/ SendEvent /\ record \in NativeKind /\ stream' = Append(stream, record)
         \/ SendTerminal /\ outcome.status \in Terminal /\ sends(outcome.status)
         \/ (\E c \in Callers : CancelSend(c)) /\ sends("cancelled")
         \/ /\ ~SendEvent /\ ~SendTerminal /\ ~\E c \in Callers : CancelSend(c)
            /\ \E e \in Minor : sends(e)
<1> USE DEF ValuesOK
<1>0. \A e \in NativeKind \cup Terminal \cup Minor : e \in Event
  BY DEF Event, Minor, Status, Terminal
<1>1. CASE SendEvent
  <2>1. rpc = "send" /\ events' = Append(events, record) /\ consumed' = consumed
    BY <1>1 DEF SendEvent
  <2>2. record \in NativeKind
    <3>1. script \in Seq(NativeKind) /\ Len(script) \in Nat
      BY ScriptLen
    <3>2. read \in 1 .. Len(script)
      BY <2>1, <3>1 DEF InHand, PipeOK
    <3> QED BY <3>1, <3>2, ElementOfSeq DEF record
  <2> QED BY <1>0, <1>1, <2>1, <2>2, AppendToStream
<1>2. CASE SendTerminal
  <2>1. outcome.status \in Terminal
    BY <1>2 DEF SendTerminal, PhaseInv, RunPhase, AfterFinal, AfterEmit, Outcomes
  <2>2. sendLocalEvent(outcome.status)
    BY <1>2 DEF SendTerminal
  <2> QED BY <1>0, <1>2, <2>1, <2>2, LocalSends
<1>3. CASE \E c \in Callers : CancelSend(c)
  <2>1. sendLocalEvent("cancelled") /\ "cancelled" \in Event
    BY <1>0, <1>3 DEF CancelSend, Terminal
  <2> QED BY <1>3, <2>1, LocalSends
<1>4. CASE ~SendEvent /\ ~SendTerminal /\ ~\E c \in Callers : CancelSend(c)
  <2> SUFFICES \E e \in Minor : sends(e)
    BY <1>4
  <2>1. CASE UNCHANGED <<events, consumed>>
    BY <2>1 DEF sends, stream, Minor
  <2>2. CASE \E e \in Minor : sendLocalEvent(e)
    BY <1>0, <2>2, LocalSends
  <2>3. CASE Consume
    BY <2>3, ConsumeKeeps DEF sends, Minor
  <2>4. CASE StartRun
    BY <2>1, <2>2, <2>4 DEF StartRun, StartRejected, PrepareProcess, LaunchFails, Launch, Minor
  <2>5. CASE Scan
    BY <1>4, <2>1, <2>2, <2>5 DEF Scan, ScanCheck, ReadRecord, ReadEnd, EmitSession, SendAborted,
       Minor
  <2>6. CASE Finish
    BY <1>4, <2>1, <2>6 DEF Finish, WaitProcess, RemoveTempDir, RunCleaned, Finalize,
       EmitTerminal, StoreResult, DeferCancel, CloseDone, CloseEvents
  <2>7. CASE Cleanup
    BY <2>1, <2>7 DEF Cleanup, CleanupBegin, CleanupEnd
  <2>8. CASE \E c \in Callers : CancelEmit(c) \/ CancelProceeds(c)
    BY <1>4, <2>1, <2>8 DEF CancelEmit, CancelProceeds, CancelCleaned, CancelContext
  <2>9. CASE ContextWatch \/ LogWatch \/ Stderr
    BY <2>1, <2>2, <2>9 DEF ContextWatch, LogWatch, Stderr, ContextDone, ContextCleaned,
       WatchTick, WatchSend, WatchStop, StderrRead, StderrEnd, Minor
  <2>10. CASE Process
    BY <2>1, <2>10 DEF Process, ProcWrite, ChildExit, ExecKill, CloseReader, ProcText, ProcFork,
       ProcExit, procMoves
  <2>11. CASE \E why \in CtxCauses : ContextEnds(why)
    BY <2>1, <2>11 DEF ContextEnds
  <2>12. CASE Stop \/ UNCHANGED vars
    BY <2>1, <2>12 DEF Stop, vars
  <2> QED BY <2>3, <2>4, <2>5, <2>6, <2>7, <2>8, <2>9, <2>10, <2>11, <2>12 DEF Next
<1> QED BY <1>1, <1>2, <1>3, <1>4

\* So only SendEvent changes the native events of the stream ...
LEMMA NativeStays ==
  ASSUME ValuesOK, PhaseInv, [Next]_vars, ~SendEvent
  PROVE  native(stream)' = native(stream) /\ \A k \in NativeKind : sent(k)' <=> sent(k)
<1>1. PICK e \in Event \ NativeKind : sends(e)
  <2>1. Terminal \cup Minor \subseteq Event \ NativeKind
    BY DEF Event, Minor, Status, Terminal, NativeKind
  <2>2. "cancelled" \in Terminal
    BY DEF Terminal
  <2> QED BY <2>1, <2>2, Added
<1>2. stream \in Seq(Event)
  BY StreamType DEF ValuesOK
<1>3. CASE stream' = stream
  BY <1>3 DEF sent, native
<1>4. CASE stream' = Append(stream, e)
  <2>1. selected(Append(stream, e), NativeKind) = selected(stream, NativeKind)
    BY <1>2, SelectedAppend
  <2>2. native(stream)' = native(stream)
    BY <1>4, <2>1 DEF native
  <2>3. /\ Len(stream) \in Nat /\ Len(stream') = Len(stream) + 1
        /\ stream'[Len(stream) + 1] = e /\ \A i \in 1 .. Len(stream) : stream'[i] = stream[i]
    BY <1>2, <1>4, AppendProperties, LenProperties
  <2>4. ASSUME NEW k \in NativeKind PROVE sent(k)' <=> sent(k)
    BY <2>3 DEF sent
  <2> QED BY <2>2, <2>4
<1> QED BY <1>1, <1>3, <1>4 DEF sends

\* ... SendEvent adds the record in hand ...
LEMMA NativeAdded ==
  ASSUME ValuesOK, PhaseInv, SendEvent
  PROVE  /\ record \in NativeKind
         /\ native(stream)' = Append(native(stream), record)
         /\ \A k \in NativeKind : sent(k)' <=> sent(k) \/ k = record
<1>1. record \in NativeKind /\ stream' = Append(stream, record)
  <2>1. [Next]_vars
    BY DEF Next, Scan
  <2>2. rpc = "send"
    BY DEF SendEvent
  <2>3. ~SendTerminal
    BY <2>2 DEF SendTerminal
  <2>4. ~\E c \in Callers : CancelSend(c)
    BY <2>2 DEF CancelSend, cancelMoves, SendEvent, ValuesOK, ControlOK
  <2> QED BY <2>1, <2>3, <2>4, Added
<1>2. stream \in Seq(Event) /\ record \in Event
  BY <1>1, StreamType DEF ValuesOK, Event
<1>3. selected(Append(stream, record), NativeKind) = Append(selected(stream, NativeKind), record)
  BY <1>1, <1>2, SelectedAppend
<1>4. native(stream)' = Append(native(stream), record)
  BY <1>1, <1>3 DEF native
<1>5. /\ Len(stream) \in Nat /\ Len(stream') = Len(stream) + 1
      /\ stream'[Len(stream) + 1] = record
      /\ \A i \in 1 .. Len(stream) : stream'[i] = stream[i]
  BY <1>1, <1>2, AppendProperties, LenProperties
<1>6. ASSUME NEW k \in NativeKind PROVE sent(k)' <=> sent(k) \/ k = record
  BY <1>5 DEF sent
<1> QED BY <1>1, <1>4, <1>6

\* ... and only SendTerminal and CancelSend announce the end of the lifecycle.
LEMMA AnnouncedStays ==
  ASSUME ValuesOK, PhaseInv, [Next]_vars, ~SendTerminal, ~\E c \in Callers : CancelSend(c)
  PROVE  terminalEvents(stream)' = terminalEvents(stream)
<1>1. PICK e \in Event \ Terminal : sends(e)
  <2>1. NativeKind \cup Minor \subseteq Event \ Terminal
    BY DEF Event, Minor, Status, Terminal, NativeKind
  <2> QED BY <2>1, Added DEF sends
<1>2. stream \in Seq(Event)
  BY StreamType DEF ValuesOK
<1>3. selected(Append(stream, e), Terminal) = selected(stream, Terminal)
  BY <1>2, SelectedAppend
<1> QED BY <1>1, <1>3 DEF sends, terminalEvents

-----------------------------------------------------------------------------
(* The conjuncts of the invariant.                                         *)

\* Only StartRun and the scan touch what the scan works on, and nobody revives a
\* context.
LEMMA ScanStays ==
  ASSUME ValuesOK, [Next]_vars, ~Scan, ~StartRun
  PROVE  /\ UNCHANGED <<script, read, decodeErr, saw>>
         /\ rpc' = rpc \/ (rpc \notin Scanning /\ rpc' \notin Scanning)
         /\ cause # "none" => cause' # "none"
<1> USE DEF Scanning
<1>1. CASE Finish
  BY <1>1 DEF Finish, WaitProcess, RemoveTempDir, RunCleaned, Finalize, EmitTerminal,
     SendTerminal, StoreResult, DeferCancel, CloseDone, CloseEvents, endCtx
<1>2. CASE Cleanup
  BY <1>2 DEF Cleanup, CleanupBegin, CleanupEnd
<1>3. CASE \E c \in Callers : CancelEmit(c) \/ CancelProceeds(c)
  BY <1>3 DEF CancelEmit, CancelProceeds, CancelSend, CancelCleaned, CancelContext, cancelMoves,
     endCtx
<1>4. CASE ContextWatch \/ LogWatch \/ Stderr
  BY <1>4 DEF ContextWatch, LogWatch, Stderr, ContextDone, ContextCleaned, WatchTick, WatchSend,
     WatchStop, StderrRead, StderrEnd, watcherMoves
<1>5. CASE Process
  BY <1>5 DEF Process, ProcWrite, ChildExit, ExecKill, CloseReader, ProcText, ProcFork, ProcExit,
     procMoves
<1>6. CASE (\E why \in CtxCauses : ContextEnds(why)) \/ Consume
  BY <1>6 DEF ContextEnds, Consume
<1>7. CASE Stop \/ UNCHANGED vars
  BY <1>7 DEF Stop, vars
<1> QED BY <1>1, <1>2, <1>3, <1>4, <1>5, <1>6, <1>7 DEF Next

\* The native events are a sequence of native kinds.
LEMMA NativeType == ValuesOK => native(stream) \in Seq(NativeKind)
  BY StreamType, SelectedType DEF ValuesOK, native

\* One more of the first elements of a sequence.
LEMMA OneMore ==
  ASSUME NEW E, NEW s \in Seq(E), NEW n \in Nat, n + 1 <= Len(s)
  PROVE  Append(SubSeq(s, 1, n), s[n + 1]) = SubSeq(s, 1, n + 1)
<1>1. Len(s) \in Nat /\ \A i \in 1 .. Len(s) : s[i] \in E
  BY LenProperties, ElementOfSeq
<1>2. /\ SubSeq(s, 1, n) \in Seq(E) /\ Len(SubSeq(s, 1, n)) = n
      /\ \A i \in 1 .. n : SubSeq(s, 1, n)[i] = s[i]
  BY <1>1, SubSeqProperties
<1>3. /\ SubSeq(s, 1, n + 1) \in Seq(E) /\ Len(SubSeq(s, 1, n + 1)) = n + 1
      /\ \A i \in 1 .. n + 1 : SubSeq(s, 1, n + 1)[i] = s[i]
  BY <1>1, SubSeqProperties
<1> DEFINE a == Append(SubSeq(s, 1, n), s[n + 1])
<1>4. s[n + 1] \in E
  BY <1>1
<1>5. /\ a \in Seq(E) /\ Len(a) = n + 1 /\ a[n + 1] = s[n + 1]
      /\ \A i \in 1 .. n : a[i] = s[i]
  BY <1>2, <1>4, AppendProperties
<1>6. \A i \in 1 .. n + 1 : a[i] = s[i]
  BY <1>5
<1> HIDE DEF a
<1>7. a = SubSeq(s, 1, n + 1)
  BY <1>3, <1>5, <1>6, SeqEqual
<1> QED BY <1>7 DEF a

\* The native events of the stream are the first records, and it is known how many.
LEMMA NativeStep == ValuesOK /\ PhaseInv /\ NativeInv /\ [Next]_vars => NativeInv'
<1> SUFFICES ASSUME ValuesOK, PhaseInv, NativeInv, [Next]_vars PROVE NativeInv'
  OBVIOUS
<1> DEFINE n == Len(native(stream))
<1>1. n \in Nat /\ read \in Nat /\ script \in Seq(NativeKind) /\ Len(script) \in Nat
  BY NativeType, ScriptLen, LenProperties DEF ValuesOK, PipeOK
<1>2. /\ native(stream) = SubSeq(script, 1, n)
      /\ rpc = "none" => read = 0
      /\ rpc \in {"none", "scan", "read"} => n = read /\ handed = read
      /\ rpc \in {"session", "send"} => n + 1 = read /\ handed = read
      /\ n = handed \/ (n + 1 = handed /\ (rpc \in {"session", "send"} \/ cause # "none"))
  BY DEF NativeInv
<1>3. CASE SendEvent
  <2>1. /\ rpc = "send" /\ rpc' \in {"scan", "wait_proc"} /\ UNCHANGED <<read, script, cause>>
    BY <1>3 DEF SendEvent, endScan
  <2>2. n + 1 = read /\ handed = read /\ handed' = handed
    BY <1>2, <2>1 DEF handed
  <2>3. read <= Len(script) /\ record = script[n + 1]
    BY <1>1, <2>2 DEF ValuesOK, PipeOK, record
  <2>4. native(stream)' = Append(native(stream), record)
    BY <1>3, NativeAdded
  <2>5. native(stream)' = SubSeq(script, 1, n + 1)
    BY <1>1, <1>2, <2>2, <2>3, <2>4, OneMore
  <2>6. Len(native(stream)') = n + 1
    BY <2>3, <2>4, <1>3, NativeType, NativeAdded, AppendProperties
  <2> HIDE DEF n
  <2>7. /\ Len(native(stream)') = read' /\ handed' = read'
        /\ native(stream)' = SubSeq(script', 1, read')
    BY <2>1, <2>2, <2>5, <2>6
  <2> QED BY <2>1, <2>7 DEF NativeInv
<1>4. CASE ~SendEvent
  <2>1. native(stream)' = native(stream)
    BY <1>4, NativeStays
  <2> SUFFICES /\ UNCHANGED script
               /\ rpc' = "none" => read' = 0
               /\ rpc' \in {"none", "scan", "read"} => n = read' /\ handed' = read'
               /\ rpc' \in {"session", "send"} => n + 1 = read' /\ handed' = read'
               /\ \/ n = handed'
                  \/ n + 1 = handed' /\ (rpc' \in {"session", "send"} \/ cause' # "none")
    BY <1>2, <2>1 DEF NativeInv
  <2> HIDE DEF n
  <2>2. CASE StartRun
    <3>1. rpc = "none"
      BY <2>2 DEF StartRun, StartRejected, PrepareProcess, LaunchFails, Launch, PhaseInv,
         StartPhase, NotStarted
    <3>2. rpc' \in {"none", "scan"} /\ UNCHANGED <<read, script>>
      BY <2>2, <3>1 DEF StartRun, StartRejected, PrepareProcess, LaunchFails, Launch
    <3> QED BY <1>2, <3>1, <3>2 DEF handed
  <2>3. CASE ScanCheck
    BY <1>2, <2>3 DEF ScanCheck, endScan, handed
  <2>4. CASE ReadRecord
    BY <1>1, <1>2, <2>4 DEF ReadRecord, endScan, handed
  <2>5. CASE ReadEnd
    BY <1>2, <2>5 DEF ReadEnd, endScan, handed
  <2>6. CASE EmitSession
    BY <1>2, <2>6 DEF EmitSession, handed
  <2>7. CASE SendAborted
    BY <1>2, <2>7 DEF SendAborted, endScan, handed
  <2>8. CASE ~StartRun /\ ~Scan
    <3>1. handed' = handed
      BY <2>8, ScanStays DEF handed
    <3> QED BY <1>2, <2>8, <3>1, ScanStays DEF Scanning
  <2> QED BY <1>4, <2>2, <2>3, <2>4, <2>5, <2>6, <2>7, <2>8 DEF Scan
<1> QED BY <1>3, <1>4

\* Whoever makes the lifecycle terminal announces it, and nobody else does.
LEMMA AnnounceStep == ValuesOK /\ PhaseInv /\ AnnounceInv /\ [Next]_vars => AnnounceInv'
<1> SUFFICES ASSUME ValuesOK, PhaseInv, AnnounceInv, [Next]_vars PROVE AnnounceInv'
  OBVIOUS
<1> DEFINE said == terminalEvents(stream)
<1>0. /\ \A c, d \in Callers : cpc[c] = "send" /\ cpc[d] = "send" => c = d
      /\ \A c \in Callers : cpc[c] = "send" => lifecycle = "cancelled" /\ rpc # "send_terminal"
      /\ rpc = "send_terminal" => lifecycle = outcome.status
      /\ announcing \/ lifecycle \notin Terminal => said = <<>>
      /\ said \in {<<>>, <<lifecycle>>}
  BY DEF AnnounceInv
<1>1. /\ cpc \in [Callers -> {"idle", "send", "cleanup", "cancel", "returned"}]
      /\ stream \in Seq(Event)
      /\ rpc \in AfterFinal => outcome.status \in Terminal
  BY StreamType DEF ValuesOK, ControlOK, PhaseInv, RunPhase, Outcomes
<1>2. \A e \in Terminal : sends(e) => said' = said \/ said' = Append(said, e)
  <2>1. Terminal \subseteq Event
    BY DEF Event, Status, Terminal
  <2> QED BY <1>1, <2>1, SelectedAppend DEF sends, terminalEvents
<1> HIDE DEF said
<1>3. \A e : Append(<<>>, e) = <<e>>
  OBVIOUS
<1>4. CASE SendTerminal
  <2>1. /\ rpc = "send_terminal" /\ rpc' = "store" /\ UNCHANGED <<cpc, lifecycle, outcome>>
    BY <1>4 DEF SendTerminal
  <2>2. said = <<>> /\ lifecycle = outcome.status /\ \A c \in Callers : cpc[c] # "send"
    BY <1>0, <2>1 DEF announcing
  <2>3. outcome.status \in Terminal /\ sends(outcome.status)
    <3>1. ~SendEvent
      BY <2>1 DEF SendEvent
    <3>2. ~\E c \in Callers : CancelSend(c)
      BY <2>2 DEF CancelSend, cancelMoves
    <3> QED BY <1>4, <3>1, <3>2, Added
  <2>4. said' \in {<<>>, <<lifecycle'>>} /\ lifecycle' \in Terminal
    BY <1>2, <1>3, <2>1, <2>2, <2>3
  <2> QED BY <2>1, <2>2, <2>4 DEF AnnounceInv, announcing, said
<1>5. ASSUME NEW c \in Callers, CancelSend(c) PROVE AnnounceInv'
  <2>1. /\ cpc[c] = "send" /\ cpc' = [cpc EXCEPT ![c] = "cleanup"]
        /\ UNCHANGED <<rpc, lifecycle, outcome>>
    BY <1>5 DEF CancelSend, cancelMoves
  <2>2. said = <<>> /\ lifecycle = "cancelled" /\ rpc # "send_terminal"
    BY <1>0, <2>1 DEF announcing
  <2>3. \A d \in Callers : cpc'[d] # "send"
    BY <1>0, <1>1, <2>1
  <2>4. sends("cancelled") /\ "cancelled" \in Terminal
    BY <1>5, LocalSends DEF CancelSend, Event, Status, Terminal, ValuesOK
  <2>5. said' \in {<<>>, <<lifecycle'>>} /\ lifecycle' \in Terminal
    BY <1>2, <1>3, <2>1, <2>2, <2>4
  <2> QED BY <2>1, <2>2, <2>3, <2>5 DEF AnnounceInv, announcing, said
<1>6. CASE ~SendTerminal /\ ~\E c \in Callers : CancelSend(c)
  <2>1. said' = said
    BY <1>6, AnnouncedStays DEF said
  <2>2. CASE EmitTerminal
    <3>1. rpc = "emit" /\ UNCHANGED <<cpc, outcome>>
      BY <2>2 DEF EmitTerminal
    <3>2. CASE /\ canTransition(outcome.status) /\ lifecycle' = outcome.status
               /\ rpc' = "send_terminal"
      <4>1. said = <<>> /\ \A c \in Callers : cpc[c] # "send"
        BY <1>0, <3>2 DEF canTransition, Terminal
      <4> QED BY <2>1, <3>1, <3>2, <4>1 DEF AnnounceInv, announcing, said
    <3>3. CASE rpc' = "store" /\ UNCHANGED lifecycle
      BY <1>0, <2>1, <3>1, <3>3 DEF AnnounceInv, announcing, said
    <3> QED BY <2>2, <3>2, <3>3 DEF EmitTerminal
  <2>3. ASSUME NEW c \in Callers, CancelEmit(c) PROVE AnnounceInv'
    <3>1. cpc[c] = "idle" /\ UNCHANGED <<rpc, outcome>>
      BY <2>3 DEF CancelEmit, cancelMoves
    <3>2. CASE /\ canTransition("cancelled") /\ lifecycle' = "cancelled"
               /\ cpc' = [cpc EXCEPT ![c] = "send"]
      <4>1. said = <<>> /\ \A d \in Callers : cpc[d] # "send"
        BY <1>0, <3>2 DEF canTransition, Terminal
      <4>2. rpc # "send_terminal"
        BY <1>0, <1>1, <3>2 DEF canTransition, AfterFinal, AfterEmit
      <4>3. \A d \in Callers : cpc'[d] = "send" => d = c
        BY <1>1, <3>2, <4>1
      <4> QED BY <2>1, <3>1, <3>2, <4>1, <4>2, <4>3 DEF AnnounceInv, announcing, said
    <3>3. CASE UNCHANGED lifecycle /\ cpc' = [cpc EXCEPT ![c] = "cleanup"]
      <4>1. \A d \in Callers : cpc'[d] = "send" => cpc[d] = "send"
        BY <1>1, <3>3
      <4> QED BY <1>0, <2>1, <3>1, <3>3, <4>1 DEF AnnounceInv, announcing, said
    <3> QED BY <2>3, <3>2, <3>3 DEF CancelEmit, cancelMoves
  <2>4. CASE Launch
    <3>1. lifecycle = "starting" /\ \A c \in Callers : cpc[c] = "idle"
      BY <2>4 DEF Launch, PhaseInv, StartPhase, NotStarted
    <3>2. lifecycle' = "running" /\ rpc' = "scan" /\ UNCHANGED cpc
      BY <2>4 DEF Launch
    <3>3. said = <<>>
      BY <1>0, <3>1 DEF Terminal
    <3> QED BY <2>1, <3>1, <3>2, <3>3 DEF AnnounceInv, announcing, said
  <2>5. CASE /\ UNCHANGED lifecycle /\ \A d \in Callers : cpc'[d] = "send" => cpc[d] = "send"
             /\ rpc' = "send_terminal" => rpc = "send_terminal" /\ UNCHANGED outcome
    BY <1>0, <2>1, <2>5 DEF AnnounceInv, announcing, said
  <2>6. CASE StartRejected \/ PrepareProcess \/ LaunchFails
    BY <2>5, <2>6 DEF StartRejected, PrepareProcess, LaunchFails
  <2>7. CASE Scan
    BY <2>5, <2>7 DEF Scan, ScanCheck, ReadRecord, ReadEnd, EmitSession, SendEvent, SendAborted,
       endScan
  <2>8. CASE Finish /\ ~EmitTerminal
    BY <1>6, <2>5, <2>8 DEF Finish, WaitProcess, RemoveTempDir, RunCleaned, Finalize,
       StoreResult, DeferCancel, CloseDone, CloseEvents
  <2>9. CASE Cleanup
    BY <2>5, <2>9 DEF Cleanup, CleanupBegin, CleanupEnd
  <2>10. ASSUME NEW c \in Callers, CancelCleaned(c) \/ CancelContext(c) PROVE AnnounceInv'
    <3>1. /\ UNCHANGED <<lifecycle, rpc, outcome>>
          /\ \E to \in {"cancel", "returned"} : cpc' = [cpc EXCEPT ![c] = to]
      BY <2>10 DEF CancelCleaned, CancelContext, cancelMoves
    <3>2. \A d \in Callers : cpc'[d] = "send" => cpc[d] = "send"
      BY <1>1, <3>1
    <3> QED BY <2>5, <3>1, <3>2
  <2>11. CASE ContextWatch \/ LogWatch \/ Stderr
    BY <2>5, <2>11 DEF ContextWatch, LogWatch, Stderr, ContextDone, ContextCleaned, WatchTick,
       WatchSend, WatchStop, StderrRead, StderrEnd, watcherMoves
  <2>12. CASE Process
    BY <2>5, <2>12 DEF Process, ProcWrite, ChildExit, ExecKill, CloseReader, ProcText, ProcFork,
       ProcExit, procMoves
  <2>13. CASE (\E why \in CtxCauses : ContextEnds(why)) \/ Consume
    BY <2>5, <2>13 DEF ContextEnds, Consume
  <2>14. CASE Stop \/ UNCHANGED vars
    BY <2>5, <2>14 DEF Stop, vars
  <2> QED BY <1>6, <2>2, <2>3, <2>4, <2>6, <2>7, <2>8, <2>9, <2>10, <2>11, <2>12, <2>13, <2>14
          DEF Next, StartRun, CancelProceeds
<1> QED BY <1>4, <1>5, <1>6

\* finalResult completes a run only without a fatal event and on a final event or a
\* clean exit, and reports a rate limit only when one was seen.
LEMMA FinalEvidence ==
  ASSUME ControlOK, NEW db \in reconcileFinalState
  PROVE  /\ finalResult(db).status = "completed" =>
              decodeErr \notin Fatal /\ (how = "ok" \/ "final" \in saw)
         /\ finalResult(db).err = "rate_limit" =>
              stderr = "buffer" \/ logRate \/ decodeErr = "fatal_rate"
<1>1. /\ processOutcome(db).status = "completed" => how = "ok" \/ "final" \in saw
      /\ processOutcome(db).err = "rate_limit" => stderr = "buffer"
  <2>1. exitCategory \in {"rate_limit", "runtime_exit"}
        /\ (exitCategory = "rate_limit" => stderr = "buffer")
    BY DEF exitCategory
  <2>2. completed.err = "none" /\ \A k : failed(k).status = "failed" /\ failed(k).err = k
    BY DEF completed, failed
  <2> QED BY <2>1, <2>2 DEF processOutcome, reconcileFinalState
<1>2. ASSUME NEW e
      PROVE  /\ contextOutcome(e).status # "completed"
             /\ contextOutcome(e).err = "rate_limit" => logRate
  <2>1. CASE e = "canceled"
    BY <2>1 DEF contextOutcome
  <2>2. CASE e # "canceled"
    BY <2>2 DEF contextOutcome, failed
  <2> QED BY <2>1, <2>2
<1>3. CASE decodeErr \in {"deadline", "canceled"}
  <2>1. finalResult(db) = contextOutcome(decodeErr)
    BY <1>3 DEF finalResult
  <2> QED BY <1>2, <2>1
<1>4. CASE decodeErr \in {"malformed", "fatal", "fatal_rate"}
  BY <1>4 DEF finalResult, failed
<1>5. CASE decodeErr = "nil"
  <2>1. finalResult(db) = IF ctxErr = "nil" THEN processOutcome(db) ELSE contextOutcome(ctxErr)
    BY <1>5 DEF finalResult
  <2> QED BY <1>1, <1>2, <1>5, <2>1 DEF Fatal
<1> QED BY <1>3, <1>4, <1>5 DEF ControlOK, Fatal

\* Once the leader is reaped its exit is fixed, and no evidence is ever taken back.
LEMMA ProofStays ==
  ASSUME ValuesOK, PhaseInv, [Next]_vars
  PROVE  /\ proc = "reaped" => how' = how
         /\ stderr = "buffer" => stderr' = "buffer"
         /\ logRate => logRate'
<1>1. CASE StartRun
  BY <1>1 DEF StartRun, StartRejected, PrepareProcess, LaunchFails, Launch
<1>2. CASE Scan
  BY <1>2 DEF Scan, ScanCheck, ReadRecord, ReadEnd, EmitSession, SendEvent, SendAborted
<1>3. CASE Finish
  BY <1>3 DEF Finish, WaitProcess, RemoveTempDir, RunCleaned, Finalize, EmitTerminal,
     SendTerminal, StoreResult, DeferCancel, CloseDone, CloseEvents
<1>4. CASE Cleanup
  <2>1. UNCHANGED <<stderr, logRate>>
    BY <1>4 DEF Cleanup, CleanupBegin, CleanupEnd
  <2>2. proc = "reaped" => how' = how
    BY <1>4 DEF Cleanup, CleanupBegin, CleanupEnd
  <2> QED BY <2>1, <2>2
<1>5. CASE \E c \in Callers : CancelEmit(c) \/ CancelProceeds(c)
  BY <1>5 DEF CancelEmit, CancelProceeds, CancelSend, CancelCleaned, CancelContext, cancelMoves
<1>6. CASE ContextWatch \/ LogWatch \/ Stderr
  BY <1>6 DEF ContextWatch, LogWatch, Stderr, ContextDone, ContextCleaned, WatchTick, WatchSend,
     WatchStop, StderrRead, StderrEnd, watcherMoves
<1>7. CASE Process
  BY <1>7 DEF Process, ProcWrite, ChildExit, ExecKill, CloseReader, ProcText, ProcFork, ProcExit,
     procMoves
<1>8. CASE (\E why \in CtxCauses : ContextEnds(why)) \/ Consume
  BY <1>8 DEF ContextEnds, Consume
<1>9. CASE Stop \/ UNCHANGED vars
  BY <1>9 DEF Stop, vars
<1> QED BY <1>1, <1>2, <1>3, <1>4, <1>5, <1>6, <1>7, <1>8, <1>9 DEF Next

\* Only Finalize writes the outcome, and run() passes it once.
LEMMA OutcomeStays ==
  ASSUME ValuesOK, PhaseInv, [Next]_vars, ~Finalize
  PROVE  outcome' = outcome /\ (rpc' \in AfterFinal <=> rpc \in AfterFinal)
<1> USE DEF AfterFinal, AfterEmit, AfterStore
<1>1. CASE StartRun
  <2>1. rpc = "none"
    BY <1>1 DEF StartRun, StartRejected, PrepareProcess, LaunchFails, Launch, PhaseInv,
       StartPhase, NotStarted
  <2> QED BY <1>1, <2>1 DEF StartRun, StartRejected, PrepareProcess, LaunchFails, Launch
<1>2. CASE Scan
  BY <1>2 DEF Scan, ScanCheck, ReadRecord, ReadEnd, EmitSession, SendEvent, SendAborted, endScan
<1>3. CASE Finish
  BY <1>3 DEF Finish, WaitProcess, RemoveTempDir, RunCleaned, EmitTerminal, SendTerminal,
     StoreResult, DeferCancel, CloseDone, CloseEvents
<1>4. CASE Cleanup
  BY <1>4 DEF Cleanup, CleanupBegin, CleanupEnd
<1>5. CASE \E c \in Callers : CancelEmit(c) \/ CancelProceeds(c)
  BY <1>5 DEF CancelEmit, CancelProceeds, CancelSend, CancelCleaned, CancelContext, cancelMoves
<1>6. CASE ContextWatch \/ LogWatch \/ Stderr
  BY <1>6 DEF ContextWatch, LogWatch, Stderr, ContextDone, ContextCleaned, WatchTick, WatchSend,
     WatchStop, StderrRead, StderrEnd, watcherMoves
<1>7. CASE Process
  BY <1>7 DEF Process, ProcWrite, ChildExit, ExecKill, CloseReader, ProcText, ProcFork, ProcExit,
     procMoves
<1>8. CASE (\E why \in CtxCauses : ContextEnds(why)) \/ Consume
  BY <1>8 DEF ContextEnds, Consume
<1>9. CASE Stop \/ UNCHANGED vars
  BY <1>9 DEF Stop, vars
<1> QED BY <1>1, <1>2, <1>3, <1>4, <1>5, <1>6, <1>7, <1>8, <1>9 DEF Next

\* The flags of the scan and the outcome stand for what is in the stream.
LEMMA EvidenceStep == ValuesOK /\ PhaseInv /\ EvidenceInv /\ [Next]_vars => EvidenceInv'
<1> SUFFICES ASSUME ValuesOK, PhaseInv, EvidenceInv, [Next]_vars PROVE EvidenceInv'
  OBVIOUS
<1>0. /\ rpc \in Scanning => decodeErr = "nil"
      /\ rpc \notin AfterFinal => outcome = NoOutcome
      /\ "final" \in saw => sent("final") \/ decodeErr \in Fatal
      /\ \A k \in Fatal : sent(k) <=> decodeErr = k
      /\ outcome.status = "completed" =>
           decodeErr \notin Fatal /\ (how = "ok" \/ "final" \in saw)
      /\ outcome.err = "rate_limit" =>
           stderr = "buffer" \/ logRate \/ decodeErr = "fatal_rate"
  BY DEF EvidenceInv
<1>1. Fatal \cup {"final"} \subseteq NativeKind /\ "final" \notin Fatal /\ "nil" \notin Fatal
  BY DEF Fatal, NativeKind
<1>2. NoOutcome.status # "completed" /\ NoOutcome.err # "rate_limit"
  BY DEF NoOutcome
<1>3. CASE Scan
  <2>1. /\ rpc \in Scanning /\ rpc' \in Scanning \cup {"wait_proc"}
        /\ rpc' \notin AfterFinal /\ outcome' = outcome /\ rpc \notin AfterFinal
    BY <1>3 DEF Scan, ScanCheck, ReadRecord, ReadEnd, EmitSession, SendEvent, SendAborted,
       endScan, Scanning, AfterFinal, AfterEmit, AfterStore
  <2>2. outcome' = NoOutcome /\ decodeErr = "nil"
    BY <1>0, <2>1
  <2>3. CASE SendEvent
    <3>1. /\ record \in NativeKind
          /\ \A k \in NativeKind : sent(k)' <=> sent(k) \/ k = record
      BY <2>3, NativeAdded
    <3>2. /\ saw' = saw \cup evidence(record)
          /\ IF record \in Fatal THEN rpc' = "wait_proc" /\ decodeErr' = record
                                 ELSE decodeErr' = "nil"
      BY <2>2, <2>3 DEF SendEvent, endScan
    <3>3. "final" \in saw' => "final" \in saw \/ record \in Fatal \cup {"final"}
      BY <3>2 DEF evidence
    <3>4. rpc' \in Scanning => decodeErr' = "nil"
      BY <3>2 DEF Scanning
    <3>5. \A k \in Fatal : sent(k)' <=> decodeErr' = k
      BY <1>0, <1>1, <2>2, <3>1, <3>2
    <3>6. "final" \in saw' => sent("final")' \/ decodeErr' \in Fatal
      BY <1>0, <1>1, <2>2, <3>1, <3>2, <3>3
    <3> QED BY <1>2, <2>1, <2>2, <3>4, <3>5, <3>6 DEF EvidenceInv
  <2>4. CASE ~SendEvent
    <3>1. saw' = saw /\ \A k \in NativeKind : sent(k)' <=> sent(k)
      BY <1>3, <2>4, NativeStays DEF Scan, ScanCheck, ReadRecord, ReadEnd, EmitSession,
         SendAborted
    <3>2. decodeErr' \notin Fatal /\ (rpc' \in Scanning => decodeErr' = "nil")
      <4>1. ctxErr \notin Fatal
        BY DEF ctxErr, Fatal
      <4> QED BY <1>1, <1>3, <2>2, <2>4, <4>1 DEF Scan, ScanCheck, ReadRecord, ReadEnd,
              EmitSession, SendAborted, endScan, Scanning, Fatal
    <3>3. \A k \in Fatal : ~sent(k)
      BY <1>0, <1>1, <2>2
    <3>4. "final" \in saw' => sent("final")'
      BY <1>0, <1>1, <2>2, <3>1
    <3>5. \A k \in Fatal : sent(k)' <=> decodeErr' = k
      BY <1>1, <3>1, <3>2, <3>3
    <3> QED BY <1>2, <2>1, <2>2, <3>2, <3>4, <3>5 DEF EvidenceInv
  <2> QED BY <2>3, <2>4
<1>4. CASE ~Scan
  <2>1. \A k \in NativeKind : sent(k)' <=> sent(k)
    BY <1>4, NativeStays DEF Scan
  <2>2. UNCHANGED <<decodeErr, saw>> /\ (rpc' \in Scanning => decodeErr' = "nil")
    <3>1. CASE StartRun
      <4>1. rpc = "none"
        BY <3>1 DEF StartRun, StartRejected, PrepareProcess, LaunchFails, Launch, PhaseInv,
           StartPhase, NotStarted
      <4>2. UNCHANGED <<decodeErr, saw>>
        BY <3>1 DEF StartRun, StartRejected, PrepareProcess, LaunchFails, Launch
      <4> QED BY <1>0, <4>1, <4>2 DEF Scanning
    <3>2. CASE ~StartRun
      BY <1>0, <1>4, <3>2, ScanStays
    <3> QED BY <3>1, <3>2
  <2>3. /\ "final" \in saw' => sent("final")' \/ decodeErr' \in Fatal
        /\ \A k \in Fatal : sent(k)' <=> decodeErr' = k
    BY <1>0, <1>1, <2>1, <2>2
  <2>4. CASE Finalize
    <3>1. PICK db \in reconcileFinalState : outcome' = finalResult(db)
      BY <2>4 DEF Finalize
    <3>2. UNCHANGED <<how, stderr, logRate>> /\ rpc' \in AfterFinal
      BY <2>4 DEF Finalize, AfterFinal
    <3>3. /\ outcome'.status = "completed" =>
               decodeErr \notin Fatal /\ (how = "ok" \/ "final" \in saw)
          /\ outcome'.err = "rate_limit" =>
               stderr = "buffer" \/ logRate \/ decodeErr = "fatal_rate"
      BY <3>1, FinalEvidence DEF ValuesOK
    <3> QED BY <2>2, <2>3, <3>2, <3>3 DEF EvidenceInv
  <2>5. CASE ~Finalize
    <3>1. outcome' = outcome /\ (rpc' \in AfterFinal <=> rpc \in AfterFinal)
      BY <2>5, OutcomeStays
    <3>2. rpc \in AfterFinal => how' = how
      BY ProofStays DEF PhaseInv, RunPhase, AfterWait, AfterStderr, AfterCleanup
    <3>3. /\ stderr = "buffer" => stderr' = "buffer"
          /\ logRate => logRate'
      BY ProofStays
    <3> QED BY <1>0, <1>2, <2>2, <2>3, <3>1, <3>2, <3>3 DEF EvidenceInv
  <2> QED BY <2>4, <2>5
<1> QED BY <1>3, <1>4

-----------------------------------------------------------------------------
(* The theorems.                                                           *)

\* Before StartRun nothing is in the stream.
LEMMA StreamInit == Init => NativeInv /\ AnnounceInv /\ EvidenceInv
<1> SUFFICES ASSUME Init PROVE NativeInv /\ AnnounceInv /\ EvidenceInv
  OBVIOUS
<1>1. stream = <<>> /\ Len(stream) = 0
  BY DEF Init, stream
<1>2. native(stream) = <<>> /\ terminalEvents(stream) = <<>>
  BY <1>1, SelectedNone DEF native, terminalEvents
<1>3. NativeInv
  <2>1. script \in Seq(NativeKind)
    BY RunAssumption DEF Init, RunAssumption
  <2>2. SubSeq(script, 1, 0) = <<>>
    BY <2>1
  <2>3. handed = 0 /\ read = 0 /\ Len(native(stream)) = 0 /\ rpc = "none"
    BY <1>2 DEF Init, handed
  <2> QED BY <1>2, <2>2, <2>3 DEF NativeInv
<1>4. AnnounceInv
  BY <1>2 DEF Init, AnnounceInv, announcing, Terminal
<1>5. EvidenceInv
  <2>1. \A k : ~sent(k)
    BY <1>1 DEF sent
  <2> QED BY <2>1 DEF Init, EvidenceInv, Fatal, NoOutcome
<1> QED BY <1>3, <1>4, <1>5

\* The three conjuncts hold in every reachable state.
LEMMA StreamInvariance == Spec => [](NativeInv /\ AnnounceInv /\ EvidenceInv)
<1>1. /\ ValuesOK /\ PhaseInv /\ [Next]_vars /\ NativeInv /\ AnnounceInv /\ EvidenceInv
      => (NativeInv /\ AnnounceInv /\ EvidenceInv)'
  BY NativeStep, AnnounceStep, EvidenceStep
<1> QED BY <1>1, StreamInit, Invariance, PTL DEF Spec

\* Native events reach the stream in the order the process wrote them and without
\* a gap, however full the channel and whatever the adapter's own events do: only
\* the record sendEvent holds may be missing, for good when the context ended.
THEOREM NativeEventsInOrder == Spec => []NativeStreamInOrder
<1>1. NativeInv => NativeStreamInOrder
  BY DEF NativeInv, NativeStreamInOrder
<1> QED BY <1>1, StreamInvariance, PTL

\* However many callers of Cancel race with run(), the stream announces at most
\* one terminal status, and it is the one transitionLifecycle settled on.
THEOREM OneTerminalAnnounced == Spec => []OneTerminalEvent
<1>1. AnnounceInv => OneTerminalEvent
  <2> SUFFICES ASSUME AnnounceInv PROVE OneTerminalEvent
    OBVIOUS
  <2>1. CASE terminalEvents(stream) = <<>>
    BY <2>1 DEF OneTerminalEvent
  <2>2. CASE terminalEvents(stream) = <<lifecycle>>
    BY <2>2 DEF OneTerminalEvent
  <2> QED BY <2>1, <2>2 DEF AnnounceInv
<1> QED BY <1>1, StreamInvariance, PTL

\* finalResult reports completion only of a process that exited cleanly or of a run
\* whose final event the caller finds in the stream, and of none with a fatal event.
THEOREM CompletionEarned == Spec => []CompletedIsEarned
<1>1. EvidenceInv => CompletedIsEarned
  BY DEF EvidenceInv, CompletedIsEarned, sent
<1> QED BY <1>1, StreamInvariance, PTL

\* Wait reports a rate limit only when stderr, the log or a fatal event in the
\* stream said so.
THEOREM RateLimitEvidenced == Spec => []RateLimitIsEvidenced
<1>1. PhaseInv /\ EvidenceInv => RateLimitIsEvidenced
  BY DEF PhaseInv, RunPhase, EvidenceInv, RateLimitIsEvidenced, sent, NoOutcome, Fatal
<1> QED BY <1>1, Invariance, StreamInvariance, PTL
=============================================================================
