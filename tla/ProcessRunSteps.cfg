\* Every way out of run(), with calls that fail, one descendant, and output on
\* the stream whose reading may fail.
SPECIFICATION Spec
CONSTANTS
  sh = sh
  gc = gc
  Child = sh
  Kin <- OneKin
  PipeCap = 1
  MaxOut = 1
  MaxWrite <- Prints
  ReapPolls = 1
  Faults <- SomeFaults
INVARIANTS TypeOK GroupContained OutcomeHonest CompleteWhenJoined NoBrokenPipe
