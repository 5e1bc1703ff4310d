\* Every row with a secret, of at most two spans in four bytes, and two
\* findings, and every control and twin against findings of its own family,
\* of another and of none; three scanners, one of them without ranges, whose
\* two replays report each of two findings up to twice; two official runs, the
\* second of which may retry the first, with a pin moved between them.
SPECIFICATION MeasurementsSpec
CONSTANTS
    Bytes = 4
    Families = {own, other}
    Unknown = unknown
    MaxSpans = 2
    MaxReported = 2
    LastScanner = 3
    Unranged = {2}
    Replays = 2
    FindingKinds = {k1, k2}
    MaxCopies = 2
    Peers <- MCPeers
    EnginePins = {g1, g2}
    EvidencePins = {e1, e2}
    MaxOfficialRuns = 2
    MaxRepins = 1
    NoOutput = NoOutput
INVARIANTS
    MeasurementsTypeOK
    BytesAreCounted
    NothingIsHidden
    RuntimeIsHonest
    OfficialRunsAreSound
PROPERTIES
    OutcomesImprove
    FinishedIsNotRepeated
\* The scan ends, and so do the runs.
CHECK_DEADLOCK FALSE
