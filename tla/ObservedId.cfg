CONSTANTS
  Ids = {"run", "attempt", "other"}
  MaxCompletedRuns = 2
  MaxEventsPerRun = 2
  MaxRawBytesPerRun <- Unlimited
  Waiters = {1}
  Callers = {}
  InnerIds = {"attempt"}
  Kinds <- OneEvent
  EventCap = 1
  Loads <- Single
  CtxCauses = {}
SPECIFICATION Spec
INVARIANT CompletedIsFound
