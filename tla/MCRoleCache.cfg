\* A target and the manifest; an error and two kills or losses of power,
\* at every call.
SPECIFICATION FairSpec
CONSTANTS
  N = 2
  MaxRuns = 5
  MaxErrors = 1
  MaxCrashes = 2
INVARIANTS
  AlwaysRecoverable
PROPERTIES
  RecoversByLinks
CHECK_DEADLOCK FALSE
