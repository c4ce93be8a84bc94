CONSTANTS
  Callers = {c1}
  Scripts <- ShortScripts
  EventCap = 2
  PipeCap = 1
  Features = {}
  CtxCauses = {}
  Texts = {}
  ChildModes = {"detached"}
  KillMayFail = FALSE
SPECIFICATION Spec
INVARIANTS NoStragglers
