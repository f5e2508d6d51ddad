\* Every way to spread the records of three files over two checkpoints, one file
\* replaced or removed while the directory is read.
SPECIFICATION Spec
CONSTANTS
  Manifests <- MCManifests
  Contents <- MCContents
  Paths <- MCPaths
  Blank <- MCBlank
  MaxCheckpoints = 2
  MaxSwaps = 1
INVARIANTS
  ReceiptsCiteThePast
  InputsReplayToReceipt
