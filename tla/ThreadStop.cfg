SPECIFICATION Spec
CONSTANTS
  Callers = {c1}
  MaxRuns = 2
  NoRun = NoRun
  InitMayFail = TRUE
  MayFinish = FALSE
INVARIANTS StopMeansStopped
\* nobody has to call, and an owner may run for ever
CHECK_DEADLOCK FALSE
