\* A settings.json with keys beside those that 8v knows.
SPECIFICATION Spec
CONSTANTS
  NoFile = NoFile
  Blank = Blank
  Broken = Broken
  NotAnObject = NotAnObject
  Projects <- SomeProjects
  Answers <- SomeAnswers
  MaxRuns = 2
INVARIANT SettingsKept
\* The runs end.
CHECK_DEADLOCK FALSE
