\* Two commands find no event store: no crash, no error.
SPECIFICATION Spec
CONSTANTS
  c1 = c1
  c2 = c2
  t1 = t1
  Commands <- TwoCommands
  Tools <- NoTool
  Faults <- NoFaults
INVARIANT AlwaysMatchingPair
CHECK_DEADLOCK FALSE
