\* Two invocations that may overlap.  Downloads: all five fetchers, three
\* starts, a kill, a change of what the publisher serves and two of what is on
\* disk.  Evaluations: all four caches in two revisions, three runs of compilers
\* and evaluators, a kill.  Projections: all five adapters, two changes of what they
\* read.
SPECIFICATION MCSpec
CONSTANTS
  Kinds = {"jamming", "osu", "xrf55", "public", "smorffi"}
  Procs = {p1, p2}
  Size = 2
  MaxStarts = 3
  MaxKills = 1
  MaxDrifts = 1
  MaxDamages = 2
  Revisions <- MCRevisions
  PreGate <- MCPreGate
  Modalities <- MCModalities
  Gates <- MCGates
  Families = {"roles", "legacy", "grid", "ruff"}
  MaxRuns = 3
  Requests <- MCRequests
  Standing0 <- MCStanding
  Others <- MCOthers
  MaxEdits = 2
SYMMETRY Alike
INVARIANTS
  ReceiptsAreGenuine
  RefusalsAreKnown
  NothingIsMixed
  LockedTestIsScoredOnce
  ProjectionIsOfSource
PROPERTIES
  SuccessIsOnDisk
CHECK_DEADLOCK FALSE
