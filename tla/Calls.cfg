\* Every log of up to four events, with repeated and unmatched ones, and one call
\* to each pure component on every input of small sets.
SPECIFICATION CallSpec
CONSTANTS
  r1 = r1
  r2 = r2
  s1 = s1
  s2 = s2
  RunIds = {r1, r2}
  Sessions = {s1, s2}
  Times = {0, 1, 2}
  From = 1
  To = 2
  MaxEvents = 4
  MaxLen = 6
  Limits = {0, 1, 2, 3, 4, 5}
  MaxFiles = 3
  Depth = 3
  MaxLines = 2
SYMMETRY Sym
INVARIANTS
  EachEventOnce ClosedByFirst OrphansAreOrphans CountsAddUp
  CaptureIsExact
  ReadsStayInside CommitMessageKept LimitsShowTheFirst ListedOnce
  ProjectsFound  VerdictsAgree 
\* The pass ends, and so does the call.
CHECK_DEADLOCK FALSE
