\* Two runs of the script over two files, from each of the recognised states,
\* with one kill or I/O error and one edit or intruding file.
SPECIFICATION MCSpec
CONSTANTS
  N = 2
  Procs = {p1, p2}
  Kinds = {"fresh", "legacy", "split"}
  Spare = 1
  MaxFaults = 1
  MaxEdits = 1
INVARIANTS
  SealIsTrue
  SuccessIsComplete
PROPERTIES
  NoFileLost
  ImplementsArchive
  PartialStatesFailClosed
  RelocationCompletes
