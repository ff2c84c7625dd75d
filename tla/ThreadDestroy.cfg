SPECIFICATION Spec
CONSTANTS
  Callers = {c1}
  MaxRuns = 1
  NoRun = NoRun
  InitMayFail = FALSE
  MayFinish = FALSE
INVARIANTS NoUseAfterDestroy
\* nobody has to call, and an owner may run for ever
CHECK_DEADLOCK FALSE
