--------------------------- MODULE MemoryRunStore ---------------------------
(***************************************************************************)
(* MemoryRunStore (observability.go): the records of active and completed  *)
(* runs and the events of each run, under one mutex, bounded by a number   *)
(* of completed runs, by their age, and by a number of events and of bytes *)
(* of raw data per run.                                                    *)
(*                                                                         *)
(* A record is reduced to its status, an event to its sequence number and  *)
(* the size of its raw data.  Any amount of time may pass between two      *)
(* operations, so the runs at the head of the list may have expired at any *)
(* operation (a CompletedRunTTL that is negative: none ever has).          *)
(***************************************************************************)
EXTENDS Integers, Sequences, FiniteSets

CONSTANTS
  Ids,               \* the ids runs may have
  MaxCompletedRuns,  \* limits.MaxCompletedRuns
  MaxEventsPerRun,   \* limits.MaxEventsPerRun
  MaxRawBytesPerRun  \* limits.MaxRawBytesPerRun

\* NewMemoryRunStoreWithLimits replaces a limit of 0 by the default; a negative
\* one is no limit.
ASSUME StoreAssumption ==
  /\ MaxCompletedRuns \in Int \ {0}
  /\ MaxEventsPerRun \in Int \ {0}
  /\ MaxRawBytesPerRun \in Int \ {0}

Terminal == {"completed", "failed", "cancelled"}
RecordStatus == Terminal \cup {"starting", "running"}

\* RunEventRecord: Sequence and len(RawData).
EventRecord == [n : Nat, raw : Nat]

VARIABLES
  active,     \* s.active: the ids in it
  completed,  \* s.completed: the status of each id, or "absent"
  order,      \* s.completedOrder
  stored,     \* s.events
  rawBytes,   \* s.rawBytes
  evicted     \* history: the ids that were ever evicted

storeVars == <<active, completed, order, stored, rawBytes, evicted>>

StoreInit ==
  /\ active = {} /\ order = <<>> /\ evicted = {}
  /\ completed = [id \in Ids |-> "absent"]
  /\ stored = [id \in Ids |-> <<>>] /\ rawBytes = [id \in Ids |-> 0]

exceeds(count, limit) == limit >= 0 /\ count > limit

-----------------------------------------------------------------------------
\* evictCompletedLocked, for the list o and the records c, when the first n of the
\* list are older than the limit: they go, and then as many as are too many.
evictCompleted(o, c, n) ==
  LET k    == IF exceeds(Len(o) - n, MaxCompletedRuns) THEN Len(o) - MaxCompletedRuns ELSE n
      gone == {o[j] : j \in 1 .. k}
  IN  /\ order' = SubSeq(o, k + 1, Len(o))
      /\ completed' = [id \in Ids |-> IF id \in gone THEN "absent" ELSE c[id]]
      /\ stored' = [id \in Ids |-> IF id \in gone THEN <<>> ELSE stored[id]]
      /\ rawBytes' = [id \in Ids |-> IF id \in gone THEN 0 ELSE rawBytes[id]]
      /\ evicted' = evicted \cup gone

\* Mutant: a run that is stored again goes to the end of the list once more.
appendedAgain(id) == Append(order, id)

appended(id) == IF completed[id] = "absent" THEN Append(order, id) ELSE order

\* UpsertRun: a terminal record is completed and makes room for itself, any
\* other is active.  The run that is being stored has not expired.
UpsertRun(id, status) ==
  \/ /\ status \in Terminal
     /\ active' = active \ {id}
     /\ \E n \in 0 .. Len(order) :
          /\ \A k \in 1 .. n : order[k] # id
          /\ evictCompleted(appended(id), [completed EXCEPT ![id] = status], n)
  \/ /\ status \notin Terminal
     /\ active' = active \cup {id}
     /\ UNCHANGED <<completed, order, stored, rawBytes, evicted>>

\* The raw data of the events j to k of s: each byte is a place in s and a
\* position, so that there are as many as the sizes add up to.
rawData(s, j, k) == UNION {{i} \X (1 .. s[i].raw) : i \in j .. k}
bytes(s, j, k) == Cardinality(rawData(s, j, k))

\* Mutant: a log that has just as much as it may counts as too long.
eventLimitReached(n, b) ==
  \/ MaxEventsPerRun >= 0 /\ n >= MaxEventsPerRun
  \/ MaxRawBytesPerRun >= 0 /\ b >= MaxRawBytesPerRun

\* eventLimitExceededLocked, for n events with b bytes of raw data.
eventLimitExceeded(n, b) == exceeds(n, MaxEventsPerRun) \/ exceeds(b, MaxRawBytesPerRun)

\* How many events the loop in AppendEvent drops of the log s, oldest first, when
\* the counter is b: until no limit is exceeded or the log is empty.
dropCount(s, b) ==
  LET stops(k) == k = Len(s) \/ ~eventLimitExceeded(Len(s) - k, b - bytes(s, 1, k))
  IN  CHOOSE k \in 0 .. Len(s) : stops(k) /\ \A j \in 0 .. k - 1 : ~stops(j)

AppendEvent(id, e) ==
  LET s == Append(stored[id], e)
      b == rawBytes[id] + e.raw
      k == dropCount(s, b)
  IN  /\ stored' = [stored EXCEPT ![id] = SubSeq(s, k + 1, Len(s))]
      /\ rawBytes' = [rawBytes EXCEPT ![id] = b - bytes(s, 1, k)]
      /\ UNCHANGED <<active, completed, order, evicted>>

\* GetCompletedRun and ListRunEvents evict before they answer.
Inspect ==
  /\ \E n \in 0 .. Len(order) : evictCompleted(order, completed, n)
  /\ UNCHANGED active

StoreNext ==
  \/ \E id \in Ids, status \in RecordStatus : UpsertRun(id, status)
  \/ \E id \in Ids, e \in EventRecord : AppendEvent(id, e)
  \/ Inspect

StoreSpec == StoreInit /\ [][StoreNext]_storeVars

-----------------------------------------------------------------------------
StoreTypeOK ==
  /\ active \subseteq Ids /\ evicted \subseteq Ids /\ order \in Seq(Ids)
  /\ completed \in [Ids -> Terminal \cup {"absent"}]
  /\ stored \in [Ids -> Seq(EventRecord)] /\ rawBytes \in [Ids -> Nat]

\* The order list and the completed records, and the counter of raw bytes and the
\* log it counts, never drift apart, in whatever order runs are stored, stored
\* again and evicted and events are appended and dropped: the list names each
\* completed run exactly once, so that the limits really bound what is kept.
StoreConsistent ==
  /\ {order[k] : k \in 1 .. Len(order)} = {id \in Ids : completed[id] # "absent"}
  /\ \A j, k \in 1 .. Len(order) : order[j] = order[k] => j = k
  /\ ~exceeds(Len(order), MaxCompletedRuns)
  /\ \A id \in Ids :
       /\ rawBytes[id] = bytes(stored[id], 1, Len(stored[id]))
       /\ ~eventLimitExceeded(Len(stored[id]), rawBytes[id])
=============================================================================
