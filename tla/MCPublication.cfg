SPECIFICATION PublicationSpec
CONSTANTS
    MaxVersion = 3
    MaxEdits = 1
    Quiet = TRUE
    Bundles = {b1, b2, b3}
    Parts = {p1, p2}
    MaxFailures = 1
    NoBundle = NoBundle
    StoreRuns = {r1, r2, r3}
    StoreParts = {q1, q2}
    NoRun = NoRun
    Bundlers = {w1, w2}
    Linkers = {w3}
    Outputs = {o1, o2}
    Nobody = Nobody
    Families = 3
    Seals = {s1, s2}
    NoSeal = NoSeal
    LastTarget = 3
    MaxPublications = 2
    Artifacts = {a1, a2}
    Evidence = {e1, e2}
    NoArtifact = NoArtifact
    PackVersions = {v1, v2}
    MaxScans = 2
    NoFirstRun = NoFirstRun
    Strata = {l1, l2}
    Unlabelled = Unlabelled
    SpanOutcomes <- MCSpanOutcomes
    MinimumFixtures = 2
    MaxObservations = 4
INVARIANTS
    PublicationTypeOK
    CommitIsSafe
    NothingIsMissing
    StoreReads
    MeasurementsAreSafe
    SealsAreWhole
    ReportsMatchRecord
    AggregateReleases
PROPERTIES
    KeepsAtomic
    JournalResolved
    MarkersAgree
    StoreSurvives
    MeasurementStays
    LockFreed
    IndexIsSound
    AcceptedIsFirstRun
CHECK_DEADLOCK FALSE
