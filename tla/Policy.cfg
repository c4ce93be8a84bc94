CONSTANTS
  Callers = {c1}
  Policies <- AllPolicies
  Alternatives = 1
  MaxRounds = 3
  Errors = {"rate_limit", "runtime_exit", "authentication"}
  EventCap = 1
  MaxEvents = 1
  CtxCauses = {"timeout"}
SPECIFICATION FairSpec
INVARIANTS TypeOK AttemptsBounded ResultExplained RequestIsFresh DropsAreReported
PROPERTIES AttemptsInOrder KeepsContract PolicyRunEnds
