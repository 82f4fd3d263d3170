\* A page of the output of a check that is past its end.
SPECIFICATION CallSpec
CONSTANTS
  r1 = r1
  r2 = r2
  s1 = s1
  s2 = s2
  RunIds = {r1, r2}
  Sessions = {s1, s2}
  Times = {0, 1, 2}
  From = 1
  To = 2
  MaxEvents = 0
  MaxLen = 0
  Limits = {}
  MaxFiles = 0
  Depth = 1
  MaxLines = 2
INVARIANT PageEndsQuietly
CHECK_DEADLOCK FALSE
