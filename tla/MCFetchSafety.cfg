\* Two fetchers over a list of two artifacts of two chunks, with a status
\* command looking on, two faults and one chunk of wrong bytes.
SPECIFICATION FairSpec
CONSTANTS
  Artifacts = 2
  Bytes = 2
  MaxAttempts = 2
  Procs = {f1, f2}
  NoProc = NoProc
  MaxFaults = 2
  MaxCorrupt = 1
INVARIANTS
  StoreIsCoherent
  StatusVerifiesTruth
PROPERTIES
  EventuallyAcquired
