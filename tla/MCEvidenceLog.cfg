\* Up to three appends of five observations, two of them under one id, stopped
\* twice in the middle.
SPECIFICATION Spec
CONSTANTS
  Records <- MCRecords
  Blank <- MCBlank
  NoRecord = NoRecord
  MaxAppends = 3
  MaxStops = 2
INVARIANTS
  AckedIsReadable
  RecurrenceMatchesHistory
PROPERTIES
  ReadsAreMonotone
  HistoryIsStable
CHECK_DEADLOCK FALSE
