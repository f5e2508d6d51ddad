\* A tool that writes up to three bytes to each stream, one more than fits in
\* its pipe and its limit, and may leave an heir, run by a batch of one capture.
SPECIFICATION MCSpec
CONSTANTS
  Requests = 1
  MaxParallelism = 1
  MaxChanges = 0
  Reverts = FALSE
  MaxFailures = 1
  MaxStdout = 1
  MaxStderr = 1
  PipeSize = 1
  MaxWritten = 3
  Deadline = 1
  Heirs = TRUE
INVARIANTS
  OutputIsWhole
PROPERTIES
  WritersAreReleased
  AlwaysReturns
CHECK_DEADLOCK FALSE
