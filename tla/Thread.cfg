SPECIFICATION FairSpec
CONSTANTS
  Callers = {c1}
  MaxRuns = 3
  NoRun = NoRun
  InitMayFail = TRUE
  MayFinish = TRUE
INVARIANTS StartTruthful FirstStopMeansStopped OneRun
PROPERTIES CallsReturn
\* nobody has to call, and an owner may run for ever
CHECK_DEADLOCK FALSE
