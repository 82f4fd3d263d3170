\* Two commands and a tool use, with crashes and errors at any point.
SPECIFICATION Spec
CONSTANTS
  c1 = c1
  c2 = c2
  t1 = t1
  Commands <- TwoCommands
  Tools <- OneTool
  Faults <- AllFaults
INVARIANTS TypeOK MatchingPair StartedFirst AtMostOnce OpenRunsAreOpen StatsTellTheTruth
PROPERTIES AppendOnly ImplementsLifecycle
\* Every process may have ended.
CHECK_DEADLOCK FALSE
