CONSTANTS
  Callers = {}
  Scripts <- ShortScripts
  EventCap = 2
  PipeCap = 1
  Features = {}
  CtxCauses = {}
  Texts = {"stderr"}
  ChildModes = {}
  KillMayFail = FALSE
SPECIFICATION Spec
INVARIANTS StderrEvidenceCounts
