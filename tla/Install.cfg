\* Two runs of init on every project of MCSetup, each cut short anywhere or not,
\* and two upgrades at once.
SPECIFICATION InstallSpec
CONSTANTS
  NoFile = NoFile
  Blank = Blank
  Broken = Broken
  NotAnObject = NotAnObject
  Projects <- SomeProjects
  Answers <- SomeAnswers
  MaxRuns = 2
  Upgraders = {p1, p2}
  Versions = {1, 2, 3}
  Prerelease = {3}
INVARIANTS ForeignKept DoneIsDone ExeRuns
PROPERTIES SecondRunIsQuiet NeverOlder
\* The runs end.
CHECK_DEADLOCK FALSE
