\* A descendant of the tool keeps the pipes open: the deadline does not hold.
SPECIFICATION FairSpec
CONSTANTS
  MaxStdout = 1
  MaxStderr = 1
  PipeSize = 1
  MaxWritten = 1
  Deadline = 1
  Heirs = TRUE
PROPERTIES
  DeadlineHolds
CHECK_DEADLOCK FALSE
