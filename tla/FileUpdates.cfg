\* Every edit of a file, with another process at work on it.
SPECIFICATION Spec
CONSTANTS
  w1 = w1
  w2 = w2
  Procs <- TwoProcs
  Menu <- TheMenu
  Texts <- SomeTexts
  Faults <- CrashOnly
INVARIANTS AppendsAreSerial EditsKeepEndings LineEditIsExact
\* Every process ends.
CHECK_DEADLOCK FALSE
