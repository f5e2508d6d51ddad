\* Three captures in chunks of two, or one by one, while the installation of
\* TShark changes twice, never back to what it was.
SPECIFICATION Spec
CONSTANTS
  Requests = 3
  MaxParallelism = 2
  MaxChanges = 2
  Reverts = FALSE
  MaxFailures = 2
INVARIANTS
  FenceHolds
  FirstErrorWins
CHECK_DEADLOCK FALSE
