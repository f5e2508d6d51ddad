\* Many small inputs of every analysis; a job ends with its answer.
SPECIFICATION Spec
CONSTANTS
  Axes <- MCAxes
  RoleDeviceCounts <- MCRoleDeviceCounts
  Counters <- MCCounters
  None = None
  Scale = 100
  MaxRecords = 3
  MaxClaims = 2
  Width = 12
  PPB = 10
  RateFactor = 3
  ScaleFloor = 2
  MaxLinkEvidence = 2
  Jobs <- MCJobs
INVARIANTS
  AuditIsThreeValued
  SplitsSeparate
  HoldoutIsExact
  SummariesIgnoreOrder
  BeliefsAreMarginals
  ExplanationsAreGlobal
  CounterVerdictIsExact
  ShiftsAreAttributedOnce
CHECK_DEADLOCK FALSE
