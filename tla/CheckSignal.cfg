\* A signal while a tool runs.
SPECIFICATION Spec
CONSTANTS
  c = c
  h = h
  d1 = d1
  d2 = d2
  Ids <- TwoIds
  Runs <- CheckAndHook
  HookRuns <- OneHook
  Earlier <- TwoEarlier
  Trees <- SomeTrees
  Faults <- IoFaults
PROPERTY InterruptLetsCheckFinish
\* Every process ends.
CHECK_DEADLOCK FALSE
