CONSTANTS
  Callers = {c1}
  Specs <- RepairSpecs
  Artifacts <- SomeArtifacts
  Errors = {"runtime_exit", "permission"}
  EventCap = 1
  MaxEvents = 1
  CtxCauses = {"timeout"}
SPECIFICATION FairSpec
INVARIANTS TypeOK CompletedIsValidated RepairsBounded ResultExplained
PROPERTIES StreamInOrder KeepsContract ValidatedRunEnds
