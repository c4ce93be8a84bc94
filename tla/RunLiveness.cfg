CONSTANTS
  Callers = {c1}
  Scripts <- OverflowScripts
  EventCap = 2
  PipeCap = 1
  Features = {}
  CtxCauses = {"timeout"}
  Texts = {}
  ChildModes = {"attached"}
  KillMayFail = FALSE
SPECIFICATION FairSpec
PROPERTIES KeepsContract CancelEndsRun GoroutinesEnd RunEnds
