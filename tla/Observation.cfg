CONSTANTS
  Ids = {"run", "other"}
  MaxCompletedRuns = 1
  MaxEventsPerRun = 2
  MaxRawBytesPerRun = 2
  Waiters = {1, 2}
  Callers = {c1}
  InnerIds = {"run"}
  Kinds <- ThreeEvents
  EventCap = 1
  Loads <- LongOrContended
  CtxCauses = {"timeout"}
SPECIFICATION FairSpec
INVARIANTS TypeOK StoreConsistent CompletedIsFound SinkErrorReturned EventsAccounted
PROPERTIES WaitReturns
