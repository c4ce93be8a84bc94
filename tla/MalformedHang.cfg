CONSTANTS
  Callers = {}
  Scripts <- MalformedScripts
  EventCap = 2
  PipeCap = 1
  Features = {}
  CtxCauses = {}
  Texts = {}
  ChildModes = {}
  KillMayFail = FALSE
SPECIFICATION WellBehavedSpec
PROPERTIES MalformedFailsRun
