\* Termination, and pipes that do not stay full.
SPECIFICATION FairSpec
CONSTANTS
  sh = sh
  gc = gc
  Child = sh
  Kin <- OneKin
  PipeCap = 1
  MaxOut = 0
  MaxWrite <- Floods
  ReapPolls = 1
  Faults <- NoFaults
INVARIANT ChildReaped
PROPERTIES Returns PipesDrained
