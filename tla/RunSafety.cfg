CONSTANTS
  Callers = {c1, c2}
  Scripts <- OutputScripts
  EventCap = 2
  PipeCap = 1
  Features = {"temp"}
  CtxCauses = {"parent", "timeout"}
  Texts = {}
  ChildModes = {}
  KillMayFail = FALSE
SYMMETRY CallerSymmetry
SPECIFICATION Spec
INVARIANTS TypeOK TempDirLifetime DoneMeansSettled NativeStreamInOrder LifecycleMatchesResult
  ContextOutcomeHasCause OneTerminalEvent CleanupStopsLeader
