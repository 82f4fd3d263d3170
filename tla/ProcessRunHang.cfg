\* A descendant that left the group keeps the pipe open.
SPECIFICATION HangSpec
CONSTANTS
  sh = sh
  gc = gc
  Child = sh
  Kin <- OneKin
  PipeCap = 1
  MaxOut = 1
  MaxWrite <- Talks
  ReapPolls = 1
  Faults <- NoFaults
INVARIANT CapturedSurvivesHang
