\* One kill, on a file system with or without hard links.
SPECIFICATION FairSpec
CONSTANTS
  N = 2
  MaxRuns = 3
  MaxErrors = 0
  MaxCrashes = 1
PROPERTIES
  RecoversAtNextCompile
CHECK_DEADLOCK FALSE
