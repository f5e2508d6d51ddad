SPECIFICATION Spec
CONSTANTS
    None = None
    Inactivity = 2
    I64Max = 3
    Captures <- MCCaptures
    PacketLimits = {2, 3}
    Durations = {1}
    MaxTampers = 1
    MaxDamages = 1
INVARIANTS
    ReportIsOfArtifact
    StreamsRoundTrip
    ClaimsHoldOfCapture
    FlowsAreSessions
