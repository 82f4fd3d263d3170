\* A check and a hook at the same time, each of them interrupted at any point.
SPECIFICATION Spec
CONSTANTS
  c = c
  h = h
  d1 = d1
  d2 = d2
  Ids <- TwoIds
  Runs <- CheckAndHook
  HookRuns <- OneHook
  Earlier <- TwoEarlier
  Trees <- SomeTrees
  Faults <- IoFaults
INVARIANTS SuccessIsEarned Paired PreviousWasWritten
\* Every process ends.
CHECK_DEADLOCK FALSE
