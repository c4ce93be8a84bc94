CONSTANTS
  Callers = {}
  Scripts <- EvidenceScripts
  EventCap = 2
  PipeCap = 1
  Features = {"audit", "session"}
  CtxCauses = {"timeout"}
  Texts = {"stderr", "log"}
  ChildModes = {}
  KillMayFail = FALSE
SPECIFICATION Spec
INVARIANTS CompletedIsEarned RateLimitIsEvidenced
